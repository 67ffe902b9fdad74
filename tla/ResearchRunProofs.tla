------------------------- MODULE ResearchRunProofs -------------------------
(***************************************************************************)
(* The controller keeps what the store asks of it, and its own promises,   *)
(* for any number of Runs, child Searches and papers, any limits, and any  *)
(* number of cancellations, exits and crashes: whatever the tasks, the     *)
(* command threads, the agents and the jobs do in between.                 *)
(***************************************************************************)
EXTENDS ResearchRun, RunLifecycleProofs

USE StoreAssumption, ResearchRunAssumption DEF Runs, Threads

-----------------------------------------------------------------------------
(* The inductive invariant *)

\* ResearchRunTypeOK, variable by variable.
TaskRows == [pc : TaskPc,
             then : {"none", "ready", "cancelled", "failed", "commit", "correct", "error"},
             attempt : {"first", "correction"},
             closed : 0 .. MaxRuns]
CmdRows == [pc : CmdPc, run : 0 .. MaxRuns, due : 0 .. MaxTime]
TurnRows == [Runs -> {"none", "running", "completed", "interrupted", "failed", "exited"}]
UsedRows == [cancels : 0 .. MaxCancels, controls : 0 .. MaxControls,
             exits : 0 .. MaxExits, crashes : 0 .. MaxCrashes, edits : 0 .. MaxEdits]

AppType == app \in {"up", "closing", "down", "recovering"} /\ used \in UsedRows
TaskType == task \in [Runs -> TaskRows]
SignalType == active \in 0 .. MaxRuns /\ token \subseteq Runs /\ grant \subseteq Runs
TurnType == turn \in TurnRows /\ call \in [Runs -> {"none", "begun"} \cup Children]
JobType == job \in [Children -> {"none", "spawned", "running"}] /\ jobToken \subseteq Children
CmdType == cmd \in [Threads -> CmdRows]

MemType == AppType /\ TaskType /\ SignalType /\ TurnType /\ JobType /\ CmdType

\* No child Search of the Run is unfinished, and no job is left that could
\* bring one back to life.
Quiet(r) ==
    \A c \in Children :
        child[c].parent = r => child[c].status \notin ActiveChild /\ job[c] = "none"

Unsaved(r) == ~synth[r].prepared /\ ~synth[r].committed

Early == {"begin", "grant", "turn", "attach", "wait", "deadline", "interrupt", "settle",
          "settling", "reconcile", "save", "preflight", "record", "correct", "correcting"}
Closed == {"save", "preflight", "record", "commit", "correct", "correcting"}
Starts == {"configure", "spawn", "fail"}
Open == {"none", "queued"} \cup Working

\* What a task knows of its Run: it exists; nothing of it is committed before
\* the task has recorded a clean attempt; once its evidence is captured no new
\* child can be created; and fail_harness_run is reached only over a child that
\* keeps the Run from having committed.
TaskOK(r) ==
    /\ ~At(r, "none") => run[r].status # "none"
    /\ task[r].pc \in Early => Unsaved(r)
    /\ task[r].pc \in Closed => run[r].status \notin Open
    /\ At(r, "record") =>
          task[r].then \in {"commit", "correct", "error"} /\ (task[r].then = "commit" => Quiet(r))
    /\ At(r, "fail") => ~synth[r].prepared /\ run[r].status \notin {"ready", "cancelled"}
    /\ At(r, "deadline") <=> task[r].closed # 0

\* What recovery relies on when it commits a prepared synthesis: ChildrenSettled
\* is the second half of the last conjunct's Quiet.
RowOK(r) ==
    /\ run[r].status = "none" => Unsaved(r)
    /\ synth[r].prepared => run[r].status \notin Open /\ Quiet(r)
    /\ run[r].status \in {"ready", "cancelled"} => Quiet(r)

\* A job works on an unfinished child, unless a recovery on exit has failed the
\* Run and cancelled the child under it.
ChildOK(c) ==
    /\ child[c].status = "none" <=> child[c].parent = 0
    /\ job[c] # "none" =>
          \/ child[c].status \in ActiveChild
          \/ child[c].parent \in Runs /\ run[child[c].parent].status = "failed"

\* A thread between the creation of a Run and the spawn of its task has the
\* Run to itself: nobody can cancel, drive or commit it.
ThreadOK(t) ==
    /\ cmd[t].pc \in {"revoke", "signal"} => cmd[t].run \in Runs
    /\ cmd[t].pc \in Starts =>
          /\ cmd[t].run \in Runs
          /\ At(cmd[t].run, "none") /\ Unsaved(cmd[t].run)
          /\ run[cmd[t].run].status # "none"
    /\ On(t, "configure") =>
          run[cmd[t].run].status \in {"queued", "failed"} /\ ~run[cmd[t].run].codex
    /\ On(t, "fail") => run[cmd[t].run].status = "failed"
    /\ cmd[t].due <= now

OneStarts ==
    \A t, u \in Threads :
        cmd[t].pc \in Starts /\ cmd[u].pc \in Starts /\ cmd[t].run = cmd[u].run => t = u

\* NoOrphanRun, while the application closes too.
NoOrphan ==
    app \in {"up", "closing"} => \A r \in Runs : IsActive(r) => Starting(r) \/ Driven(r)

\* CanceledRunIsSignalled, as far as the Run is registered: the signal of a Run
\* that another Run's task has unregistered is lost.
RegisteredIsSignalled ==
    \A r \in Runs : run[r].status = "canceling" /\ At(r, "wait") /\ active = r =>
        r \in token \/ SignalPending(r)

\* Only another Run's task unregisters a Run before its own task is over.
SoleIsRegistered ==
    MaxRuns = 1 => \A r \in Runs : task[r].pc \notin {"none", "done"} => active = r

ExitIdle == app # "closing" => On("exit", "idle")

CtlInv ==
    /\ MemType
    /\ now \in 0 .. MaxTime
    /\ \A r \in Runs : TaskOK(r) /\ RowOK(r)
    /\ \A c \in Children : ChildOK(c)
    /\ \A t \in Threads : ThreadOK(t)
    /\ OneStarts
    /\ NoOrphan
    /\ NoGrantOutlivesTask
    /\ RegisteredIsSignalled
    /\ SoleIsRegistered
    /\ ExitIdle

-----------------------------------------------------------------------------
(* What happens to a Run behind the back of its task *)

\* The Run is left alone, or asked to stop, or found interrupted, or its
\* prepared synthesis is committed by a recovery.
RunDrifts(r) ==
    /\ run'[r].codex = run[r].codex
    /\ synth'[r].prepared = synth[r].prepared
    /\ \/ /\ run'[r].status = run[r].status
          /\ synth'[r].committed = synth[r].committed
       \/ /\ run[r].codex /\ run[r].status \in Admitted /\ run'[r].status = "canceling"
          /\ synth'[r].committed = synth[r].committed
       \/ /\ IsActive(r) /\ run'[r].status = "failed"
          /\ synth'[r].committed = synth[r].committed
       \/ /\ synth[r].prepared /\ run[r].status = "reconciling" /\ Quiet(r)
          /\ run'[r].status = "ready"

\* Its child Searches stay as they are, or are over with it.
ChildDrifts(c) ==
    /\ child'[c].parent = child[c].parent
    /\ child'[c].status = "none" <=> child[c].status = "none"
    /\ child'[c].status \in ActiveChild => child[c].status \in ActiveChild
    /\ child[c].status \in ActiveChild /\ child'[c].status \notin ActiveChild =>
          child[c].parent \in Runs /\ run'[child[c].parent].status = "failed"

LEMMA QuietDrifts ==
    ASSUME NEW r, Quiet(r), \A c \in Children : ChildDrifts(c), UNCHANGED job
    PROVE  Quiet(r)'
BY DEF Quiet, ChildDrifts

LEMMA RowDrifts ==
    ASSUME NEW r \in Runs, RowOK(r), RunDrifts(r), \A c \in Children : ChildDrifts(c), UNCHANGED job
    PROVE  RowOK(r)'
<1>1. Quiet(r) => Quiet(r)'
    BY QuietDrifts
<1>2. QED
    BY <1>1 DEF RowOK, RunDrifts, Unsaved, Open, Working, IsActive, Active, Admitted

LEMMA TaskDrifts ==
    ASSUME NEW r \in Runs, TaskOK(r), RunDrifts(r), task'[r] = task[r],
           \A c \in Children : ChildDrifts(c), UNCHANGED job
    PROVE  TaskOK(r)'
<1>1. Quiet(r) => Quiet(r)'
    BY QuietDrifts
<1>2. QED
    BY <1>1 DEF TaskOK, RunDrifts, At, Unsaved, Open, Working, IsActive, Active, Admitted,
       Early, Closed

LEMMA ChildrenDrift ==
    ASSUME NEW c \in Children, ChildOK(c), ChildDrifts(c), job'[c] = job[c],
           \A r \in Runs : run[r].status = "failed" => run'[r].status = "failed"
    PROVE  ChildOK(c)'
BY DEF ChildOK, ChildDrifts

LEMMA ThreadDrifts ==
    ASSUME NEW t \in Threads, ThreadOK(t), cmd'[t] = cmd[t], CmdType, now \in Nat, now' \in Nat,
           now <= now',
           \A r \in Runs : cmd[t].pc \in Starts /\ cmd[t].run = r =>
                               RunDrifts(r) /\ task'[r] = task[r]
    PROVE  ThreadOK(t)'
<1>1. cmd'[t].due <= now'
    BY DEF ThreadOK, CmdType, CmdRows
<1>2. CASE cmd[t].pc \in Starts
    BY <1>1, <1>2 DEF ThreadOK, RunDrifts, Starts, At, On, Unsaved, IsActive, Active, Admitted,
       Working
<1>3. CASE cmd[t].pc \notin Starts
    BY <1>1, <1>3 DEF ThreadOK, Starts, On
<1>4. QED BY <1>2, <1>3

\* A Run that drifts is not brought to life, and one that has failed stays so.
LEMMA DriftEnds ==
    ASSUME NEW r \in Runs, RunDrifts(r)
    PROVE  /\ IsActive(r)' => IsActive(r)
           /\ run[r].status = "failed" => run'[r].status = "failed"
BY DEF RunDrifts, IsActive, Active, Admitted, Working

\* Once no child Search of a Run is unfinished, no job is left to revive one,
\* unless the Run has failed.
LEMMA NoActiveIsQuiet ==
    ASSUME NEW r \in Runs, \A c \in Children : ChildOK(c), ~HasActiveChild(r),
           run[r].status # "failed"
    PROVE  Quiet(r)
BY DEF Quiet, HasActiveChild, ChildOK

-----------------------------------------------------------------------------
(* One step of the task of one Run *)

\* The signals of the cancelled Runs stay where they are, and no task begins to
\* wait for the turn of one.
LEMMA SignalsStay ==
    ASSUME RegisteredIsSignalled, token \subseteq token', active' = active \/ active' = 0,
           UNCHANGED cmd,
           \A s \in Runs : task'[s].closed = task[s].closed,
           \A s \in Runs : run'[s].status = "canceling" /\ At(s, "wait")' =>
                               run[s].status = "canceling" /\ At(s, "wait")
    PROVE  RegisteredIsSignalled'
BY DEF RegisteredIsSignalled, SignalPending

\* What a step of the task of Run r may do, besides what it does to Run r.
TaskSteps(r) ==
    /\ task[r].pc \notin {"none", "done"} /\ task'[r].pc # "none"
    /\ \A s \in Runs : s # r => task'[s] = task[s] /\ RunDrifts(s)
    /\ \A c \in Children : ChildDrifts(c)
    /\ TaskType' /\ SignalType' /\ TurnType' /\ JobType'
    /\ UNCHANGED <<app, used, job, cmd, now>>
    /\ active' = active \/ task'[r].pc = "done"
    /\ grant' \subseteq grant \cup {r}

LEMMA TaskStepKeeps ==
    ASSUME CtlInv, NEW r \in Runs, TaskSteps(r), TaskOK(r)', RowOK(r)',
           run[r].status = "failed" => run'[r].status = "failed",
           IsActive(r)' => IsActive(r) /\ (Driven(r) => Driven(r)'),
           r \in grant' => task'[r].pc \notin {"remove", "done"},
           RegisteredIsSignalled'
    PROVE  CtlInv'
<1> USE DEF CtlInv, TaskSteps
<1>1. MemType' /\ now' \in 0 .. MaxTime
    BY DEF MemType, AppType, CmdType
<1>2. \A s \in Runs : TaskOK(s)' /\ RowOK(s)'
    BY TaskDrifts, RowDrifts
<1>3. \A s \in Runs : run[s].status = "failed" => run'[s].status = "failed"
    BY DriftEnds
<1>4. \A c \in Children : ChildOK(c)'
    BY <1>3, ChildrenDrift
<1>5. \A t \in Threads : cmd[t].pc \in Starts => cmd[t].run # r
    BY DEF ThreadOK, At
<1>6. \A t \in Threads : ThreadOK(t)'
    BY <1>5, ThreadDrifts DEF MemType
<1>7. OneStarts'
    BY DEF OneStarts
<1>8. NoOrphan'
  <2>1. \A s \in Runs : Starting(s)' <=> Starting(s)
      BY DEF Starting
  <2>2. \A s \in Runs : s # r => (Driven(s)' <=> Driven(s))
      BY DEF Driven
  <2>3. QED BY <2>1, <2>2, DriftEnds DEF NoOrphan
<1>9. NoGrantOutlivesTask'
    BY DEF NoGrantOutlivesTask, MemType, SignalType
<1>10. SoleIsRegistered'
    BY DEF SoleIsRegistered
<1>11. ExitIdle'
    BY DEF ExitIdle, On
<1>12. QED BY <1>1, <1>2, <1>4, <1>6, <1>7, <1>8, <1>9, <1>10, <1>11

-----------------------------------------------------------------------------
(* Steps of a task that leave the store alone *)

LEMMA GotoKeeps ==
    ASSUME TaskType, NEW r \in Runs, NEW pc \in TaskPc, Goto(r, pc)
    PROVE  /\ TaskType'
           /\ \A s \in Runs : s # r => task'[s] = task[s]
           /\ task'[r].pc = pc /\ task'[r].then = task[r].then
           /\ task'[r].attempt = task[r].attempt /\ task'[r].closed = task[r].closed
BY DEF TaskType, TaskRows, Goto

LEMMA GotoThenKeeps ==
    ASSUME TaskType, NEW r \in Runs, NEW pc \in TaskPc,
           NEW then \in {"none", "ready", "cancelled", "failed", "commit", "correct", "error"},
           GotoThen(r, pc, then)
    PROVE  /\ TaskType'
           /\ \A s \in Runs : s # r => task'[s] = task[s]
           /\ task'[r].pc = pc /\ task'[r].then = then
           /\ task'[r].attempt = task[r].attempt /\ task'[r].closed = task[r].closed
BY DEF TaskType, TaskRows, GotoThen

\* A step of a task that writes neither the store nor the registration.
Moves(r) ==
    /\ task[r].pc \notin {"none", "done", "deadline"}
    /\ task'[r].pc \notin {"none", "done", "deadline", "wait"}
    /\ task'[r].closed = task[r].closed
    /\ TaskType' /\ TurnType'
    /\ \A s \in Runs : s # r => task'[s] = task[s]
    /\ UNCHANGED <<storeVars, app, used, active, token, call, job, jobToken, cmd>>
    /\ grant' \subseteq grant \cup {r}

LEMMA MovesKeep ==
    ASSUME CtlInv, NEW r \in Runs, Moves(r),
           task'[r].pc \in Early => task[r].pc \in Early,
           task'[r].pc \in Closed => run[r].status \notin Open,
           At(r, "record")' =>
              task'[r].then \in {"commit", "correct", "error"} /\ (task'[r].then = "commit" => Quiet(r)),
           At(r, "fail")' => ~synth[r].prepared /\ run[r].status \notin {"ready", "cancelled"},
           IsActive(r) /\ Driven(r) => Driven(r)',
           r \in grant' => task'[r].pc # "remove"
    PROVE  CtlInv'
<1> USE DEF CtlInv, Moves
<1>1. UNCHANGED <<run, synth, child, job, now>>
    BY DEF storeVars
<1>2. /\ \A s \in Runs : RunDrifts(s)
      /\ \A c \in Children : ChildDrifts(c)
    BY <1>1 DEF RunDrifts, ChildDrifts
<1>3. SignalType' /\ JobType'
    BY DEF MemType, SignalType, JobType
<1>4. TaskSteps(r)
    BY <1>1, <1>2, <1>3 DEF TaskSteps
<1>5. TaskOK(r)'
  <2>1. Quiet(r)' <=> Quiet(r)
      BY <1>1 DEF Quiet
  <2>2. Unsaved(r)' <=> Unsaved(r)
      BY <1>1 DEF Unsaved
  <2>3. task[r].closed = 0
      BY DEF TaskOK, At
  <2>4. run[r].status # "none"
      BY DEF TaskOK, At
  <2>5. QED BY <1>1, <2>1, <2>2, <2>3, <2>4 DEF TaskOK, At
<1>6. RowOK(r)'
    BY <1>1, <1>2, RowDrifts
<1>7. RegisteredIsSignalled'
    BY <1>1, SignalsStay DEF At
<1>8. IsActive(r)' <=> IsActive(r)
    BY <1>1 DEF IsActive
<1>9. QED BY <1>1, <1>4, <1>5, <1>6, <1>7, <1>8, TaskStepKeeps

\* Whoever waits for the turn, or ends it, leaves the turns well typed.
LEMMA TurnsTyped ==
    ASSUME TurnType, UNCHANGED call, NEW r \in Runs
    PROVE  /\ ExitTurns => TurnType'
           /\ UNCHANGED turn => TurnType'
           /\ turn' = [turn EXCEPT ![r] = "none"] => TurnType'
           /\ turn' = [turn EXCEPT ![r] = "running"] => TurnType'
           /\ \A a \in BOOLEAN : InterruptTurn(r, a) => TurnType'
<1> USE DEF TurnType, TurnRows
<1>1. ExitTurns => TurnType' BY DEF ExitTurns
<1>2. UNCHANGED turn => TurnType' OBVIOUS
<1>3. turn' = [turn EXCEPT ![r] = "none"] => TurnType' OBVIOUS
<1>4. turn' = [turn EXCEPT ![r] = "running"] => TurnType' OBVIOUS
<1> HIDE DEF TurnType
<1>5. \A a \in BOOLEAN : InterruptTurn(r, a) => TurnType'
    BY <1>1, <1>2, <1>3 DEF InterruptTurn
<1>6. QED BY <1>1, <1>2, <1>3, <1>4, <1>5

\* From the spawn to the settling of a turn that has ended.
LEMMA TurnStepsKeep ==
    ASSUME CtlInv, NEW r \in Runs,
           \/ Begin(r) \/ IssueGrant(r) \/ StartTurn(r)
           \/ WaitTurn(r) \/ WaitLagged(r) \/ WaitToken(r) \/ Interrupt(r)
    PROVE  CtlInv'
<1>1. TaskType /\ TurnType /\ (r \in grant => task[r].pc # "remove")
    BY DEF CtlInv, MemType, NoGrantOutlivesTask
<1>a. \A p \in {"grant", "turn", "attach", "error", "settle"} :
          p \in TaskPc /\ p \notin Closed
    BY DEF TaskPc, Closed
<1>2. CASE Begin(r)
  <2>1. Moves(r) /\ task'[r].pc \in {"settle", "grant"} /\ task[r].pc = "begin"
      BY <1>1, <1>2, <1>a, GotoKeeps, GotoThenKeeps, TurnsTyped DEF Begin, Moves, At
  <2>2. QED BY <1>1, <2>1, <1>a, MovesKeep DEF Early, Driven, At, Moves
<1>3. CASE IssueGrant(r)
  <2>1. Moves(r) /\ task'[r].pc = "turn" /\ task[r].pc = "grant"
      BY <1>1, <1>3, <1>a, GotoKeeps, TurnsTyped DEF IssueGrant, Moves, At
  <2>2. QED BY <1>1, <2>1, <1>a, MovesKeep DEF Early, Driven, At
<1>4. CASE StartTurn(r)
  <2>1. Moves(r) /\ task'[r].pc \in {"attach", "error"} /\ task[r].pc = "turn"
      BY <1>1, <1>4, <1>a, GotoKeeps, TurnsTyped DEF StartTurn, Moves, At
  <2>2. QED BY <1>1, <2>1, <1>a, MovesKeep DEF Early, Driven, At
<1>5. CASE WaitTurn(r) \/ WaitLagged(r) \/ WaitToken(r) \/ Interrupt(r)
  <2>1. Moves(r) /\ task'[r].pc \in {"settle", "error"} /\ task[r].pc \in {"wait", "interrupt"}
    <3>1. CASE WaitTurn(r)
      <4>1. /\ TurnType' /\ task[r].pc = "wait"
            /\ UNCHANGED <<storeVars, app, used, active, token, grant, call, job, jobToken, cmd>>
          BY <1>1, <3>1, TurnsTyped DEF WaitTurn, At
      <4>2. \/ Goto(r, "error")
            \/ \E outcome \in {"ready", "failed"} : GotoThen(r, "settle", outcome)
          BY <3>1 DEF WaitTurn
      <4>3. QED BY <1>1, <4>1, <4>2, <1>a, GotoKeeps, GotoThenKeeps DEF Moves
    <3>2. CASE WaitLagged(r)
        BY <1>1, <3>2, <1>a, GotoKeeps, TurnsTyped DEF WaitLagged, Moves, At
    <3>3. CASE WaitToken(r)
        BY <1>1, <3>3, <1>a, GotoKeeps, GotoThenKeeps, TurnsTyped DEF WaitToken, Moves, At
    <3>4. CASE Interrupt(r)
        BY <1>1, <3>4, <1>a, GotoKeeps, GotoThenKeeps, TurnsTyped DEF Interrupt, Moves, At
    <3>5. QED BY <1>5, <3>1, <3>2, <3>3, <3>4
  <2>2. QED BY <1>1, <2>1, <1>a, MovesKeep DEF Early, Driven, At
<1>6. QED BY <1>2, <1>3, <1>4, <1>5

\* Between the settling of its turn and the commit of its synthesis.
LEMMA ReconcileMovesKeep ==
    ASSUME CtlInv, NEW r \in Runs,
           Settled(r) \/ Preflight(r) \/ Correct(r) \/ Correcting(r)
    PROVE  CtlInv'
<1>1. /\ TaskType /\ TurnType /\ (r \in grant => task[r].pc # "remove")
      /\ TaskOK(r) /\ \A c \in Children : ChildOK(c)
    BY DEF CtlInv, MemType, NoGrantOutlivesTask
<1>a. \A p \in {"reconcile", "finish", "error", "record", "correcting", "save"} : p \in TaskPc
    BY DEF TaskPc
<1>2. CASE Settled(r)
  <2>1. Moves(r) /\ task'[r].pc \in {"reconcile", "finish", "error"} /\ task[r].pc = "settling"
      BY <1>1, <1>2, <1>a, GotoKeeps, TurnsTyped DEF Settled, Moves, At
  <2>2. QED BY <1>1, <2>1, MovesKeep DEF Early, Closed, Driven, At
<1>3. CASE Preflight(r)
  <2>1. /\ Moves(r) /\ task'[r].pc = "record" /\ task[r].pc = "preflight"
        /\ task'[r].then \in {"commit", "correct", "error"}
        /\ task'[r].then = "commit" => PreflightResult(r) = "ok"
      BY <1>1, <1>3, <1>a, GotoThenKeeps, TurnsTyped DEF Preflight, Moves, At
  <2>2. PreflightResult(r) = "ok" => Quiet(r)
    <3>1. ~synth[r].committed
        BY <1>1, <2>1 DEF TaskOK, Early, Unsaved
    <3>2. PreflightResult(r) = "ok" => CanCommit(r)
        BY <3>1 DEF PreflightResult
    <3>3. CanCommit(r) => ~HasActiveChild(r) /\ run[r].status = "reconciling"
        BY DEF CanCommit, Unconflicted
    <3>4. QED BY <1>1, <3>2, <3>3, NoActiveIsQuiet
  <2>3. run[r].status \notin Open
      BY <1>1, <2>1 DEF TaskOK, Closed
  <2>4. QED BY <1>1, <2>1, <2>2, <2>3, MovesKeep DEF Early, Closed, Driven, At
<1>4. CASE Correct(r) \/ Correcting(r)
  <2>1. /\ Moves(r) /\ task'[r].pc \in {"correcting", "save", "error"}
        /\ task[r].pc \in {"correct", "correcting"}
    <3>1. CASE Correct(r)
        BY <1>1, <3>1, <1>a, GotoKeeps, TurnsTyped DEF Correct, Moves, At
    <3>2. CASE Correcting(r) /\ task' = [task EXCEPT ![r].pc = "save", ![r].attempt = "correction"]
        BY <1>1, <3>2, <1>a, TurnsTyped DEF Correcting, Moves, At, TaskType, TaskRows
    <3>3. CASE Correcting(r) /\ Goto(r, "error")
        BY <1>1, <3>3, <1>a, GotoKeeps, TurnsTyped DEF Correcting, Moves, At
    <3>4. QED BY <1>4, <3>1, <3>2, <3>3 DEF Correcting
  <2>2. run[r].status \notin Open
      BY <1>1, <2>1 DEF TaskOK, Closed
  <2>3. QED BY <1>1, <2>1, <2>2, MovesKeep DEF Early, Driven, At
<1>5. QED BY <1>2, <1>3, <1>4

\* The end of a Run, as far as the store is only read: an active child keeps a
\* Run from being quiet, hence from having committed.
LEMMA EndMovesKeep ==
    ASSUME CtlInv, NEW r \in Runs,
           \/ Error(r) \/ ErrorSettled(r) \/ Cleanup(r)
           \/ /\ FinishOk(r) \/ FinishError(r)
              /\ UNCHANGED storeVars
              /\ \/ ~IsActive(r) /\ Goto(r, "cleanup")
                 \/ HasActiveChild(r) /\ (Goto(r, "error") \/ Goto(r, "fail"))
    PROVE  CtlInv'
<1>1. /\ TaskType /\ TurnType /\ (r \in grant => task[r].pc # "remove")
      /\ RowOK(r)
    BY DEF CtlInv, MemType, NoGrantOutlivesTask
<1>a. \A p \in {"errorSettle", "errorFinish", "fail", "cleanup", "error", "remove"} :
          p \in TaskPc /\ p \notin Early /\ p \notin Closed
    BY DEF TaskPc, Early, Closed
<1>2. HasActiveChild(r) => ~synth[r].prepared /\ run[r].status \notin {"ready", "cancelled"}
    BY <1>1 DEF RowOK, Quiet, HasActiveChild
<1>3. CASE Error(r)
  <2>1. Moves(r) /\ task'[r].pc = "errorSettle" /\ task[r].pc = "error"
      BY <1>1, <1>3, <1>a, GotoThenKeeps, TurnsTyped DEF Error, Moves, At
  <2>2. QED BY <1>1, <1>a, <2>1, MovesKeep DEF Driven, At
<1>4. CASE ErrorSettled(r)
  <2>1. /\ Moves(r) /\ task'[r].pc \in {"fail", "errorFinish"} /\ task[r].pc = "errorSettling"
        /\ task'[r].pc = "fail" => HasActiveChild(r)
      BY <1>1, <1>4, <1>a, GotoKeeps, TurnsTyped DEF ErrorSettled, Moves, At
  <2>2. QED BY <1>1, <1>2, <1>a, <2>1, MovesKeep DEF Driven, At
<1>5. CASE Cleanup(r)
  <2>1. /\ Moves(r) /\ task'[r].pc = "remove" /\ task[r].pc = "cleanup" /\ r \notin grant'
      BY <1>1, <1>5, <1>a, GotoKeeps, TurnsTyped DEF Cleanup, Moves, At
  <2>2. QED BY <1>1, <1>a, <2>1, MovesKeep DEF Driven, At
<1>6. CASE /\ FinishOk(r) \/ FinishError(r)
           /\ UNCHANGED storeVars
           /\ \/ ~IsActive(r) /\ Goto(r, "cleanup")
              \/ HasActiveChild(r) /\ (Goto(r, "error") \/ Goto(r, "fail"))
  <2>1. /\ Moves(r) /\ task'[r].pc \in {"cleanup", "error", "fail"}
        /\ task'[r].pc = "fail" => HasActiveChild(r)
        /\ task'[r].pc = "cleanup" => ~IsActive(r)
    <3>1. /\ task[r].pc \in {"finish", "errorFinish"}
          /\ UNCHANGED <<storeVars, app, used, active, token, grant, turn, call, job, jobToken, cmd>>
        BY <1>6 DEF FinishOk, FinishError, At
    <3>2. QED BY <1>1, <1>6, <1>a, <3>1, GotoKeeps, TurnsTyped DEF Moves, At
  <2>2. QED BY <1>1, <1>2, <1>a, <2>1, MovesKeep DEF Driven, At
<1>7. QED BY <1>3, <1>4, <1>5, <1>6

-----------------------------------------------------------------------------
(* Steps of a task that write the rows of its own Run *)

\* A transaction that sets the status of Run r writes nothing else of any Run.
LEMMA SetStatusOnly ==
    ASSUME Inv, NEW r \in Runs, NEW status, SetStatus(r, status)
    PROVE  /\ run'[r].status = status /\ run'[r].codex = run[r].codex
           /\ \A s \in Runs : s # r => run'[s] = run[s]
<1>1. run \in [Runs -> RunRows]
    BY DEF Inv, StoreTypeOK
<1>2. run'[r] = [run[r] EXCEPT !.status = status] /\ \A s \in Runs : s # r => run'[s] = run[s]
    BY <1>1 DEF SetStatus
<1>3. run[r] \in RunRows
    BY <1>1
<1>4. QED BY <1>2, <1>3 DEF RunRows

Writes(r) ==
    /\ task[r].pc \notin {"none", "done", "deadline"}
    /\ task'[r].pc \notin {"none", "done", "deadline", "remove"}
    /\ task'[r].closed = task[r].closed
    /\ TaskType'
    /\ \A s \in Runs : s # r => task'[s] = task[s] /\ run'[s] = run[s] /\ synth'[s] = synth[s]
    /\ UNCHANGED <<child, now, app, used, active, token, turn, call, job, jobToken, cmd>>
    /\ grant' \subseteq grant

LEMMA WritesKeep ==
    ASSUME CtlInv, NEW r \in Runs, Writes(r), TaskOK(r)', RowOK(r)',
           run[r].status = "failed" => run'[r].status = "failed",
           IsActive(r)' => IsActive(r) /\ (Driven(r) => Driven(r)'),
           ~(run'[r].status = "canceling" /\ At(r, "wait")')
    PROVE  CtlInv'
<1> USE DEF CtlInv, Writes
<1>1. /\ \A s \in Runs : s # r => RunDrifts(s)
      /\ \A c \in Children : ChildDrifts(c)
    BY DEF RunDrifts, ChildDrifts
<1>2. SignalType' /\ JobType' /\ TurnType'
    BY DEF MemType, SignalType, JobType, TurnType
<1>3. TaskSteps(r)
    BY <1>1, <1>2 DEF TaskSteps
<1>4. RegisteredIsSignalled'
    BY SignalsStay DEF At
<1>5. QED BY <1>3, <1>4, TaskStepKeeps

LEMMA AttachKeeps ==
    ASSUME Inv, CtlInv, NEW r \in Runs, Attach(r)
    PROVE  CtlInv'
<1>1. TaskType /\ TurnType /\ TaskOK(r) /\ RowOK(r) /\ (r \in grant => task[r].pc # "remove")
    BY DEF CtlInv, MemType, NoGrantOutlivesTask
<1>a. "wait" \in TaskPc /\ "error" \in TaskPc /\ "error" \notin Early /\ "error" \notin Closed
    BY DEF TaskPc, Early, Closed
<1>2. CASE AttachTurn(r) /\ Goto(r, "wait")
  <2>1. /\ run'[r].status = "searching" /\ run[r].status \in Working
        /\ \A s \in Runs : s # r => run'[s] = run[s]
      BY <1>2, SetStatusOnly DEF AttachTurn
  <2>2. Writes(r) /\ task'[r].pc = "wait" /\ task[r].pc = "attach"
      BY <1>1, <1>2, <1>a, <2>1, GotoKeeps DEF Attach, AttachTurn, Writes, At
  <2>3. ~synth[r].prepared /\ ~synth[r].committed /\ synth' = synth
      BY <1>1, <1>2, <2>2 DEF TaskOK, Early, Unsaved, AttachTurn
  <2>4. TaskOK(r)'
      BY <1>1, <2>1, <2>2, <2>3 DEF TaskOK, At, Closed, Unsaved, Writes
  <2>5. RowOK(r)'
      BY <2>1, <2>3 DEF RowOK, Unsaved
  <2>6. IsActive(r) /\ Driven(r)' /\ run[r].status # "failed"
      BY <2>1, <2>2 DEF IsActive, Active, Admitted, Working, Driven
  <2>7. QED BY <2>1, <2>2, <2>4, <2>5, <2>6, WritesKeep
<1>3. CASE UNCHANGED storeVars /\ Goto(r, "error")
  <2>1. Moves(r) /\ task'[r].pc = "error"
      BY <1>1, <1>3, <1>a, GotoKeeps, TurnsTyped DEF Attach, Moves, At
  <2>2. QED BY <1>1, <1>a, <2>1, MovesKeep DEF Driven, At
<1>4. QED BY <1>2, <1>3 DEF Attach

\* Once BeginFinalization has closed the Run, no child Search can be created.
LEMMA ReconcileKeeps ==
    ASSUME Inv, CtlInv, NEW r \in Runs, Reconcile(r)
    PROVE  CtlInv'
<1>1. TaskType /\ TurnType /\ TaskOK(r) /\ RowOK(r) /\ (r \in grant => task[r].pc # "remove")
    BY DEF CtlInv, MemType, NoGrantOutlivesTask
<1>a. /\ "save" \in TaskPc /\ "error" \in TaskPc /\ "error" \notin Early /\ "error" \notin Closed
    BY DEF TaskPc, Early, Closed
<1>2. CASE BeginFinalization(r) /\ grant' = grant \ {r} /\ (Goto(r, "save") \/ Goto(r, "error"))
  <2>1. /\ run'[r].status = "reconciling" /\ run[r].status \in Working
        /\ \A s \in Runs : s # r => run'[s] = run[s]
      BY <1>2, SetStatusOnly DEF BeginFinalization
  <2>2. Writes(r) /\ task'[r].pc \in {"save", "error"} /\ task[r].pc = "reconcile"
      BY <1>1, <1>2, <1>a, <2>1, GotoKeeps DEF Reconcile, BeginFinalization, Writes, At
  <2>3. ~synth[r].prepared /\ ~synth[r].committed /\ synth' = synth
      BY <1>1, <1>2, <2>2 DEF TaskOK, Early, Unsaved, BeginFinalization
  <2>4. TaskOK(r)'
      BY <1>1, <2>1, <2>2, <2>3 DEF TaskOK, At, Open, Working, Unsaved, Writes
  <2>5. RowOK(r)'
      BY <2>1, <2>3 DEF RowOK, Unsaved
  <2>6. IsActive(r) /\ Driven(r)' /\ run[r].status # "failed"
      BY <2>1, <2>2 DEF IsActive, Active, Admitted, Working, Driven
  <2>7. QED BY <2>1, <2>2, <2>4, <2>5, <2>6, WritesKeep
<1>3. CASE UNCHANGED <<storeVars, grant>> /\ Goto(r, "error")
  <2>1. Moves(r) /\ task'[r].pc = "error"
      BY <1>1, <1>3, <1>a, GotoKeeps, TurnsTyped DEF Reconcile, Moves, At
  <2>2. QED BY <1>1, <1>a, <2>1, MovesKeep DEF Driven, At
<1>4. QED BY <1>2, <1>3 DEF Reconcile

\* An attempt is saved unprepared; RecordIssues prepares it only over a clean
\* preflight, with the Run closed to new work and its children over.
LEMMA AttemptKeeps ==
    ASSUME Inv, CtlInv, NEW r \in Runs, Save(r) \/ Record(r)
    PROVE  CtlInv'
<1>1. TaskType /\ TaskOK(r) /\ RowOK(r) /\ synth \in [Runs -> SynthRows] /\ task[r] \in TaskRows
    BY DEF CtlInv, MemType, Inv, StoreTypeOK, TaskType
<1>2. CASE Save(r)
  <2>1. PICK p \in Proposals : SaveAttempt(r, task[r].attempt, p)
      BY <1>2 DEF Save
  <2>2. /\ ~synth'[r].prepared /\ synth'[r].committed = synth[r].committed
        /\ \A s \in Runs : s # r => synth'[s] = synth[s]
        /\ UNCHANGED <<run, child, now>>
      BY <1>1, <2>1 DEF SaveAttempt
  <2>3. Writes(r) /\ task'[r].pc = "preflight" /\ task[r].pc = "save"
    <3>1. "preflight" \in TaskPc BY DEF TaskPc
    <3>2. QED BY <1>1, <1>2, <2>2, <3>1, GotoKeeps DEF Save, Writes, At
  <2>4. Unsaved(r)' /\ run[r].status \notin Open
      BY <1>1, <2>2, <2>3 DEF TaskOK, Early, Closed, Unsaved
  <2>5. TaskOK(r)' /\ RowOK(r)'
    <3>1. TaskOK(r)'
        BY <1>1, <2>2, <2>3, <2>4 DEF TaskOK, At, Writes
    <3>2. Quiet(r)' <=> Quiet(r)
        BY <2>3 DEF Quiet, Writes
    <3>3. RowOK(r)'
        BY <1>1, <2>2, <2>4, <3>2 DEF RowOK, Unsaved
    <3>4. QED BY <3>1, <3>3
  <2>6. (IsActive(r)' => IsActive(r)) /\ Driven(r)'
      BY <2>2, <2>3 DEF IsActive, Driven
  <2>7. QED BY <2>2, <2>3, <2>5, <2>6, WritesKeep DEF At
<1>3. CASE Record(r)
  <2> DEFINE prepared == task[r].then = "commit"
  <2>1. /\ synth'[r].prepared = prepared /\ synth'[r].committed = synth[r].committed
        /\ \A s \in Runs : s # r => synth'[s] = synth[s]
        /\ UNCHANGED <<run, child, now>>
      BY <1>1, <1>3 DEF Record, RecordIssues, SynthRows
  <2>2. task[r].then \in {"commit", "correct", "error"} /\ task[r].pc = "record"
      BY <1>1, <1>3 DEF Record, TaskOK, At
  <2>3. Writes(r) /\ task'[r].pc = task[r].then
    <3>1. task[r].then \in TaskPc BY <2>2 DEF TaskPc
    <3>2. QED BY <1>1, <1>3, <2>1, <2>2, <3>1, GotoKeeps DEF Record, Writes, At
  <2>4. /\ ~synth'[r].committed /\ run[r].status \notin Open /\ (prepared => Quiet(r))
      BY <1>1, <2>1, <2>2 DEF TaskOK, Early, Closed, Unsaved, At
  <2>5. Quiet(r)' <=> Quiet(r)
      BY <2>3 DEF Quiet, Writes
  <2>6. TaskOK(r)'
      BY <1>1, <2>1, <2>2, <2>3, <2>4 DEF TaskOK, At, Writes, Early, Unsaved
  <2>7. RowOK(r)'
      BY <1>1, <2>1, <2>4, <2>5 DEF RowOK, Unsaved, Open
  <2>8. (IsActive(r)' => IsActive(r)) /\ Driven(r)'
      BY <2>1, <2>2, <2>3 DEF IsActive, Driven
  <2>9. QED BY <2>1, <2>2, <2>3, <2>6, <2>7, <2>8, WritesKeep DEF At
<1>4. QED BY <1>2, <1>3

\* The synthesis commits over children that are over.
LEMMA CommitKeeps ==
    ASSUME Inv, CtlInv, NEW r \in Runs, Commit(r)
    PROVE  CtlInv'
<1>1. /\ TaskType /\ TurnType /\ TaskOK(r) /\ RowOK(r) /\ (r \in grant => task[r].pc # "remove")
      /\ synth \in [Runs -> SynthRows] /\ \A c \in Children : ChildOK(c)
    BY DEF CtlInv, MemType, NoGrantOutlivesTask, Inv, StoreTypeOK
<1>a. \A p \in {"finish", "error"} : p \in TaskPc /\ p \notin Early /\ p \notin Closed
    BY DEF TaskPc, Early, Closed
<1>2. CASE FinalizeSynthesis(r) /\ GotoThen(r, "finish", "ready")
  <2>1. /\ run'[r].status = "ready" /\ run[r].status = "reconciling"
        /\ \A s \in Runs : s # r => run'[s] = run[s]
        /\ \A s \in Runs : s # r => synth'[s] = synth[s]
        /\ ~HasActiveChild(r) /\ UNCHANGED <<child, now>>
    <3>1. SetStatus(r, "ready") /\ synth' = [synth EXCEPT ![r].committed = TRUE, ![r].prepared = TRUE]
        BY <1>2 DEF FinalizeSynthesis
    <3>2. ~HasActiveChild(r) /\ run[r].status = "reconciling" /\ UNCHANGED <<child, now>>
        BY <1>2 DEF FinalizeSynthesis, CanCommit, Unconflicted
    <3>3. \A s \in Runs : s # r => synth'[s] = synth[s]
        BY <1>1, <3>1
    <3>4. QED BY <3>1, <3>2, <3>3, SetStatusOnly
  <2>2. Writes(r) /\ task'[r].pc = "finish" /\ task[r].pc = "commit"
      BY <1>1, <1>2, <1>a, <2>1, GotoThenKeeps DEF Commit, Writes, At
  <2>3. Quiet(r)'
    <3>1. Quiet(r)
        BY <1>1, <2>1, NoActiveIsQuiet
    <3>2. QED BY <2>2, <3>1 DEF Quiet, Writes
  <2>4. TaskOK(r)'
      BY <1>1, <1>a, <2>1, <2>2 DEF TaskOK, At, Writes
  <2>5. RowOK(r)'
      BY <2>1, <2>3 DEF RowOK, Open, Working
  <2>6. ~IsActive(r)' /\ run[r].status # "failed"
      BY <2>1 DEF IsActive, Active, Admitted, Working
  <2>7. QED BY <2>1, <2>2, <2>4, <2>5, <2>6, WritesKeep
<1>3. CASE UNCHANGED storeVars /\ Goto(r, "error")
  <2>1. Moves(r) /\ task'[r].pc = "error"
      BY <1>1, <1>3, <1>a, GotoKeeps, TurnsTyped DEF Commit, Moves, At
  <2>2. QED BY <1>1, <1>a, <2>1, MovesKeep DEF Driven, At
<1>4. QED BY <1>2, <1>3 DEF Commit

\* Finish ends a Run over its children; Fail over one that still has some.
LEMMA EndKeeps ==
    ASSUME Inv, CtlInv, NEW r \in Runs, FinishOk(r) \/ FinishError(r) \/ Fail(r)
    PROVE  CtlInv'
<1>1. /\ TaskType /\ TaskOK(r) /\ RowOK(r) /\ \A c \in Children : ChildOK(c)
    BY DEF CtlInv, MemType
<1>a. "cleanup" \in TaskPc /\ "cleanup" \notin Early /\ "cleanup" \notin Closed
    BY DEF TaskPc, Early, Closed
<1>2. ASSUME NEW status \in Terminal, SetStatus(r, status), Goto(r, "cleanup"),
             UNCHANGED <<synth, child, now, app, used, active, token, grant, turn, call, job,
                         jobToken, cmd>>,
             task[r].pc \in {"finish", "errorFinish", "fail"},
             status # "failed" => run[r].status # "failed",
             status \in {"ready", "cancelled"} => Quiet(r)
      PROVE  CtlInv'
  <2>1. run'[r].status = status /\ \A s \in Runs : s # r => run'[s] = run[s]
      BY <1>2, SetStatusOnly
  <2>2. Writes(r) /\ task'[r].pc = "cleanup"
      BY <1>1, <1>2, <1>a, <2>1, GotoKeeps DEF Writes
  <2>3. Quiet(r)' <=> Quiet(r)
      BY <1>2 DEF Quiet
  <2>4. status \notin Open /\ status \notin Active
      BY DEF Open, Working, Terminal, Active, Admitted
  <2>5. TaskOK(r)'
      BY <1>1, <1>a, <2>1, <2>2, <2>4 DEF TaskOK, At, Writes, Open
  <2>6. RowOK(r)'
      BY <1>1, <1>2, <2>1, <2>3, <2>4 DEF RowOK, Unsaved, Open
  <2>7. ~IsActive(r)' /\ ~At(r, "wait")'
      BY <2>1, <2>2, <2>4 DEF IsActive, At
  <2>8. QED BY <1>2, <2>1, <2>2, <2>5, <2>6, <2>7, WritesKeep
<1>3. ASSUME NEW status, NEW refused, Finish(r, status, "cleanup", refused),
             refused \in {"error", "fail"}, FinishOk(r) \/ FinishError(r)
      PROVE  CtlInv'
  <2>1. CASE FinishRun(r, status) /\ Goto(r, "cleanup")
    <3>1. /\ status \in Terminal /\ SetStatus(r, status) /\ ~HasActiveChild(r)
          /\ run[r].status # "failed"
          /\ UNCHANGED <<synth, child, now, app, used, active, token, grant, turn, call, job,
                         jobToken, cmd>>
          /\ task[r].pc \in {"finish", "errorFinish", "fail"}
        BY <1>3, <2>1 DEF FinishRun, FinishOk, FinishError, At, Active, Admitted, Working
    <3>2. Quiet(r)
        BY <1>1, <3>1, NoActiveIsQuiet
    <3>3. QED BY <1>2, <2>1, <3>1, <3>2
  <2>2. CASE /\ UNCHANGED storeVars
             /\ \/ ~IsActive(r) /\ Goto(r, "cleanup")
                \/ HasActiveChild(r) /\ Goto(r, refused)
    <3>1. refused = "error" \/ refused = "fail"
        BY <1>3
    <3>2. FinishOk(r) \/ FinishError(r)
        BY <1>3
    <3>3. CASE refused = "error"
        BY <2>2, <3>2, <3>3, EndMovesKeep
    <3>4. CASE refused = "fail"
        BY <2>2, <3>2, <3>4, EndMovesKeep
    <3>5. QED BY <3>1, <3>3, <3>4
  <2>3. QED BY <1>3, <2>1, <2>2 DEF Finish
<1>4. CASE FinishOk(r)
    BY <1>3, <1>4 DEF FinishOk
<1>5. CASE FinishError(r)
    BY <1>3, <1>5 DEF FinishError
<1>6. CASE Fail(r)
  <2>1. /\ SetStatus(r, "failed") /\ Goto(r, "cleanup") /\ task[r].pc = "fail"
        /\ UNCHANGED <<synth, child, now, app, used, active, token, grant, turn, call, job,
                       jobToken, cmd>>
      BY <1>6 DEF Fail, FailRun, At
  <2>2. "failed" \in Terminal
      BY DEF Terminal
  <2>3. QED BY <1>2, <2>1, <2>2
<1>7. QED BY <1>4, <1>5, <1>6

-----------------------------------------------------------------------------
(* Transactions that touch Runs other than the one that calls them *)

LEMMA RequestCancelDrifts ==
    ASSUME Inv, NEW s \in Runs, RequestCancel(s)
    PROVE  /\ \A r \in Runs : RunDrifts(r)
           /\ \A c \in Children : ChildDrifts(c)
           /\ run'[s].status = "canceling" /\ \A r \in Runs : r # s => run'[r] = run[r]
           /\ UNCHANGED <<synth, now>>
<1>1. /\ run[s].codex /\ run[s].status \in Admitted
      /\ run'[s].status = "canceling" /\ run'[s].codex = run[s].codex
      /\ \A r \in Runs : r # s => run'[r] = run[r]
      /\ UNCHANGED <<synth, now>>
    BY SetStatusOnly DEF RequestCancel, IsLatestManaged
<1>2. child \in [Children -> ChildRows]
    BY DEF Inv, StoreTypeOK
<1>3. \A c \in Children :
          child'[c].parent = child[c].parent /\ child'[c].status = child[c].status
    BY <1>2 DEF RequestCancel, ChildRows
<1>4. \A c \in Children : ChildDrifts(c)
    BY <1>3 DEF ChildDrifts
<1>5. \A r \in Runs : RunDrifts(r)
    BY <1>1 DEF RunDrifts
<1>6. QED BY <1>1, <1>4, <1>5

LEMMA CancelChildrenDrifts ==
    ASSUME Inv, NEW S, CancelChildren(S)
    PROVE  /\ \A r \in Runs : RunDrifts(r)
           /\ \A c \in Children : ChildDrifts(c)
           /\ UNCHANGED <<run, synth, now>>
<1>1. child \in [Children -> ChildRows]
    BY DEF Inv, StoreTypeOK
<1>2. \A c \in Children :
          child'[c].parent = child[c].parent /\ child'[c].status = child[c].status
    BY <1>1 DEF CancelChildren, ChildRows
<1>3. UNCHANGED <<run, synth, now>>
    BY DEF CancelChildren
<1>4. QED BY <1>2, <1>3 DEF RunDrifts, ChildDrifts

LEMMA RecoverInterruptedDrifts ==
    ASSUME Inv, RecoverInterrupted
    PROVE  /\ \A r \in Runs : RunDrifts(r) /\ ~IsActive(r)'
           /\ \A c \in Children : ChildDrifts(c)
           /\ UNCHANGED <<synth, now>>
<1>1. child \in [Children -> ChildRows] /\ run \in [Runs -> RunRows]
    BY DEF Inv, StoreTypeOK
<1>2. \A r \in Runs :
          /\ run[r] \in RunRows
          /\ run'[r] = IF IsActive(r) THEN [run[r] EXCEPT !.status = "failed"] ELSE run[r]
    BY <1>1 DEF RecoverInterrupted
<1>3. \A r \in Runs :
          /\ run'[r].codex = run[r].codex
          /\ run'[r].status = IF IsActive(r) THEN "failed" ELSE run[r].status
    BY <1>2 DEF RunRows
<1>4. UNCHANGED <<synth, now>>
    BY DEF RecoverInterrupted
<1>5. \A r \in Runs : RunDrifts(r) /\ ~IsActive(r)'
    BY <1>3, <1>4 DEF RunDrifts, IsActive, Active, Admitted, Working
<1>6. ASSUME NEW c \in Children PROVE ChildDrifts(c)
  <2>1. CASE \E r \in Runs : r = child[c].parent /\ IsActive(r)
    <3>1. /\ child'[c].parent = child[c].parent
          /\ child'[c].status = IF child[c].status \in ActiveChild THEN "cancelled" ELSE child[c].status
        BY <1>1, <2>1 DEF RecoverInterrupted, ChildRows
    <3>2. child[c].parent \in Runs /\ run'[child[c].parent].status = "failed"
        BY <1>3, <2>1
    <3>3. QED BY <3>1, <3>2 DEF ChildDrifts, ActiveChild
  <2>2. CASE ~ \E r \in Runs : r = child[c].parent /\ IsActive(r)
    <3>1. child'[c] = child[c]
        BY <2>2 DEF RecoverInterrupted
    <3>2. QED BY <3>1 DEF ChildDrifts
  <2>3. QED BY <2>1, <2>2
<1>7. QED BY <1>4, <1>5, <1>6

\* A recovery commits only a Run that RowOK has found quiet.
LEMMA RecoverPreparedDrifts ==
    ASSUME Inv, CtlInv, RecoverPrepared
    PROVE  /\ \A r \in Runs : RunDrifts(r)
           /\ \A r \in Runs : run'[r].status = "canceling" => run[r].status = "canceling"
           /\ UNCHANGED <<child, now>>
<1>1. CASE UNCHANGED storeVars
    BY <1>1 DEF storeVars, RunDrifts
<1>2. CASE \E r \in Runs : synth[r].prepared /\ FinalizeSynthesis(r)
  <2>1. PICK r \in Runs : synth[r].prepared /\ FinalizeSynthesis(r)
      BY <1>2
  <2>2. /\ run'[r].status = "ready" /\ run'[r].codex = run[r].codex /\ run[r].status = "reconciling"
        /\ \A s \in Runs : s # r => run'[s] = run[s]
        /\ UNCHANGED <<child, now>>
      BY <2>1, SetStatusOnly DEF FinalizeSynthesis, CanCommit, Unconflicted
  <2>3. synth'[r].prepared = TRUE /\ \A s \in Runs : s # r => synth'[s] = synth[s]
      BY <2>1 DEF FinalizeSynthesis, Inv, StoreTypeOK, SynthRows
  <2>4. Quiet(r) /\ synth[r].prepared = TRUE
      BY <2>1 DEF CtlInv, RowOK, Inv, StoreTypeOK, SynthRows
  <2>5. \A s \in Runs : RunDrifts(s)
      BY <2>2, <2>3, <2>4 DEF RunDrifts
  <2>6. QED BY <2>2, <2>5
<1>3. QED BY <1>1, <1>2 DEF RecoverPrepared

-----------------------------------------------------------------------------
(* The task cancels, signals and leaves *)

\* At its deadline a task closes the Project's latest Run, its own or not.
LEMMA WaitDeadlineKeeps ==
    ASSUME Inv, CtlInv, NEW r \in Runs, WaitDeadline(r)
    PROVE  CtlInv'
<1>1. /\ TaskType /\ TurnType /\ TaskOK(r) /\ RowOK(r) /\ (r \in grant => task[r].pc # "remove")
    BY DEF CtlInv, MemType, NoGrantOutlivesTask
<1>a. "interrupt" \in TaskPc /\ "interrupt" \in Early /\ "interrupt" \notin Closed
    BY DEF TaskPc, Early, Closed
<1>2. ASSUME NEW s \in Runs, RequestCancel(s),
             task' = [task EXCEPT ![r].pc = "deadline", ![r].closed = s]
      PROVE  CtlInv'
  <2>1. /\ TaskType' /\ task[r].pc = "wait" /\ task[r].closed = 0
        /\ task'[r].pc = "deadline" /\ task'[r].closed = s
        /\ \A u \in Runs : u # r => task'[u] = task[u]
        /\ UNCHANGED <<app, used, active, token, grant, turn, call, job, jobToken, cmd>>
    <3>1. /\ task[r].pc = "wait" /\ task[r].closed = 0
          /\ UNCHANGED <<app, used, active, token, grant, turn, call, job, jobToken, cmd>>
        BY <1>1 DEF WaitDeadline, At, TaskOK
    <3>2. "deadline" \in TaskPc /\ s \in 0 .. MaxRuns
        BY DEF TaskPc
    <3>3. QED BY <1>1, <1>2, <3>1, <3>2 DEF TaskType, TaskRows
  <2>2. /\ \A u \in Runs : RunDrifts(u)
        /\ \A c \in Children : ChildDrifts(c)
        /\ run'[s].status = "canceling" /\ \A u \in Runs : u # s => run'[u] = run[u]
        /\ UNCHANGED <<synth, now>>
      BY <1>2, RequestCancelDrifts
  <2>3. TaskSteps(r)
      BY <2>1, <2>2 DEF TaskSteps, CtlInv, MemType, SignalType, TurnType, JobType
  <2>4. RowOK(r)'
      BY <1>1, <2>1, <2>2, RowDrifts
  <2>5. TaskOK(r)'
    <3>1. run'[r].status # "none" /\ ~synth'[r].prepared /\ ~synth'[r].committed
        BY <1>1, <2>1, <2>2 DEF TaskOK, Early, Unsaved, At
    <3>2. QED BY <2>1, <3>1 DEF TaskOK, At, Unsaved, Closed
  <2>6. RegisteredIsSignalled'
    <3> SUFFICES ASSUME NEW u \in Runs, run'[u].status = "canceling", At(u, "wait")', active = u
                 PROVE  u \in token \/ SignalPending(u)'
        BY <2>1 DEF RegisteredIsSignalled
    <3>1. CASE u = s
        BY <2>1, <3>1 DEF SignalPending
    <3>2. CASE u # s
      <4>1. u \in token \/ SignalPending(u)
          BY <2>1, <2>2, <3>2 DEF CtlInv, RegisteredIsSignalled, At
      <4>2. SignalPending(u) => SignalPending(u)'
          BY <2>1 DEF SignalPending
      <4>3. QED BY <4>1, <4>2
    <3>3. QED BY <3>1, <3>2
  <2>7. Driven(r)'
      BY <2>1 DEF Driven
  <2>8. QED BY <2>1, <2>2, <2>3, <2>4, <2>5, <2>6, <2>7, DriftEnds, TaskStepKeeps
<1>3. CASE UNCHANGED storeVars /\ Goto(r, "interrupt")
  <2>1. Moves(r) /\ task'[r].pc = "interrupt" /\ task[r].pc = "wait"
      BY <1>1, <1>3, <1>a, GotoKeeps, TurnsTyped DEF WaitDeadline, Moves, At
  <2>2. QED BY <1>1, <1>a, <2>1, MovesKeep DEF Driven, At, Early
<1>4. QED BY <1>2, <1>3 DEF WaitDeadline

\* Then it revokes, signals and trips the token of the Run it has closed.
LEMMA DeadlineKeeps ==
    ASSUME Inv, CtlInv, NEW r \in Runs, Deadline(r)
    PROVE  CtlInv'
<1> DEFINE s == task[r].closed
<1>1. /\ TaskType /\ SignalType /\ TaskOK(r) /\ RowOK(r) /\ task[r].pc = "deadline" /\ s \in Runs
      /\ JobType
    BY DEF CtlInv, MemType, TaskOK, Deadline, At, TaskType, TaskRows
<1>2. /\ TaskType' /\ task'[r].pc = "interrupt" /\ task'[r].closed = 0
      /\ \A u \in Runs : u # r => task'[u] = task[u]
      /\ UNCHANGED <<app, used, active, turn, call, job, cmd>>
      /\ grant' = grant \ {s} /\ SignalChildren(s) /\ TripToken(s)
    BY <1>1 DEF Deadline, TaskType, TaskRows, TaskPc
<1> HIDE DEF s
<1>3. /\ \A u \in Runs : RunDrifts(u)
      /\ \A c \in Children : ChildDrifts(c)
      /\ UNCHANGED <<run, synth, now>>
    BY <1>2, CancelChildrenDrifts DEF SignalChildren
<1>4. /\ token \subseteq token' /\ token' \subseteq Runs /\ jobToken' \subseteq Children
      /\ active = s => s \in token'
    BY <1>1, <1>2 DEF SignalChildren, TripToken, SignalType, JobType, Unfinished, ChildrenOf
<1>5. TaskSteps(r)
    BY <1>1, <1>2, <1>3, <1>4 DEF TaskSteps, CtlInv, MemType, SignalType, TurnType, JobType
<1>6. RowOK(r)'
    BY <1>1, <1>2, <1>3, RowDrifts
<1>7. TaskOK(r)'
    BY <1>1, <1>2, <1>3 DEF TaskOK, Early, Closed, Unsaved, At
<1>8. RegisteredIsSignalled'
  <2> SUFFICES ASSUME NEW u \in Runs, run[u].status = "canceling", At(u, "wait")', active = u
               PROVE  u \in token' \/ SignalPending(u)'
      BY <1>2, <1>3 DEF RegisteredIsSignalled
  <2>1. u \in token \/ SignalPending(u)
      BY <1>2 DEF CtlInv, RegisteredIsSignalled, At
  <2>2. SignalPending(u) /\ u # s => SignalPending(u)'
      BY <1>2 DEF SignalPending, s
  <2>3. QED BY <1>4, <2>1, <2>2
<1>9. (IsActive(r)' <=> IsActive(r)) /\ Driven(r)'
    BY <1>2, <1>3 DEF IsActive, Driven
<1>10. QED BY <1>2, <1>3, <1>5, <1>6, <1>7, <1>8, <1>9, TaskStepKeeps

LEMMA SettleKeeps ==
    ASSUME Inv, CtlInv, NEW r \in Runs, Settle(r) \/ ErrorSettle(r)
    PROVE  CtlInv'
<1>1. /\ TaskType /\ TaskOK(r) /\ RowOK(r) /\ JobType
      /\ (r \in grant => task[r].pc \notin {"remove", "done"})
    BY DEF CtlInv, MemType, NoGrantOutlivesTask
<1>a. /\ "settling" \in TaskPc /\ "errorSettling" \in TaskPc /\ "errorSettling" \notin Early
      /\ {"settling", "errorSettling"} \cap Closed = {}
    BY DEF TaskPc, Early, Closed
<1>2. /\ \/ task[r].pc = "settle" /\ task'[r].pc = "settling"
         \/ task[r].pc = "errorSettle" /\ task'[r].pc = "errorSettling"
      /\ TaskType' /\ task'[r].closed = task[r].closed
      /\ \A u \in Runs : u # r => task'[u] = task[u]
      /\ UNCHANGED <<app, used, active, token, grant, turn, call, job, cmd>>
      /\ SignalChildren(r)
    BY <1>1, <1>a, GotoKeeps DEF Settle, ErrorSettle, At
<1>3. /\ \A u \in Runs : RunDrifts(u)
      /\ \A c \in Children : ChildDrifts(c)
      /\ UNCHANGED <<run, synth, now>>
    BY <1>2, CancelChildrenDrifts DEF SignalChildren
<1>4. jobToken' \subseteq Children
    BY <1>1, <1>2 DEF SignalChildren, JobType, Unfinished, ChildrenOf
<1>5. TaskSteps(r)
    BY <1>1, <1>2, <1>3, <1>4 DEF TaskSteps, CtlInv, MemType, SignalType, TurnType, JobType
<1>6. RowOK(r)'
    BY <1>1, <1>2, <1>3, RowDrifts
<1>7. TaskOK(r)'
    BY <1>1, <1>a, <1>2, <1>3 DEF TaskOK, Early, Unsaved, At
<1>8. RegisteredIsSignalled'
    BY <1>2, <1>3, SignalsStay DEF CtlInv, At
<1>9. (IsActive(r)' <=> IsActive(r)) /\ Driven(r)'
    BY <1>2, <1>3 DEF IsActive, Driven
<1>10. QED BY <1>1, <1>2, <1>3, <1>5, <1>6, <1>7, <1>8, <1>9, TaskStepKeeps

\* The end of a task unregisters whichever Run is registered.
LEMMA RemoveKeeps ==
    ASSUME Inv, CtlInv, NEW r \in Runs, Remove(r)
    PROVE  CtlInv'
<1>1. TaskType /\ SignalType /\ TaskOK(r) /\ RowOK(r) /\ task[r].pc = "remove" /\ r \notin grant
    BY DEF CtlInv, MemType, NoGrantOutlivesTask, Remove, At
<1>2. /\ TaskType' /\ task'[r].pc = "done" /\ task'[r].closed = 0
      /\ \A u \in Runs : u # r => task'[u] = task[u]
      /\ UNCHANGED <<run, synth, child, now, app, used, grant, turn, call, job, jobToken, cmd>>
      /\ active' = 0 /\ token' \subseteq token
  <2>1. [Asleep EXCEPT !.pc = "done"] \in TaskRows
      BY DEF Asleep, TaskRows, TaskPc
  <2>2. task' = [task EXCEPT ![r] = [Asleep EXCEPT !.pc = "done"]]
      BY DEF Remove
  <2>3. TaskType' /\ task'[r] = [Asleep EXCEPT !.pc = "done"]
        /\ \A u \in Runs : u # r => task'[u] = task[u]
      BY <1>1, <2>1, <2>2 DEF TaskType
  <2>4. task'[r].pc = "done" /\ task'[r].closed = 0
      BY <2>3 DEF Asleep
  <2>5. QED BY <2>3, <2>4 DEF Remove, storeVars
<1>3. /\ \A u \in Runs : RunDrifts(u)
      /\ \A c \in Children : ChildDrifts(c)
    BY <1>2 DEF RunDrifts, ChildDrifts
<1>4. TaskSteps(r)
    BY <1>1, <1>2, <1>3 DEF TaskSteps, CtlInv, MemType, SignalType, TurnType, JobType
<1>5. RowOK(r)'
    BY <1>1, <1>2, <1>3, RowDrifts
<1>6. TaskOK(r)'
    BY <1>1, <1>2 DEF TaskOK, Early, Closed, At
<1>7. RegisteredIsSignalled'
    BY <1>2 DEF RegisteredIsSignalled
<1>8. (IsActive(r)' <=> IsActive(r)) /\ ~Driven(r)
    BY <1>1, <1>2 DEF IsActive, Driven
<1>9. QED BY <1>1, <1>2, <1>4, <1>5, <1>6, <1>7, <1>8, TaskStepKeeps

LEMMA ExecuteKeeps ==
    ASSUME Inv, CtlInv, NEW r \in Runs, Execute(r)
    PROVE  CtlInv'
BY TurnStepsKeep, ReconcileMovesKeep, EndMovesKeep, AttachKeeps, ReconcileKeeps, AttemptKeeps,
   CommitKeeps, EndKeeps, WaitDeadlineKeeps, DeadlineKeeps, SettleKeeps, RemoveKeeps DEF Execute

-----------------------------------------------------------------------------
(* Steps of the threads that run commands *)

\* A step that no task and no starting thread takes.
LEMMA WorldKeeps ==
    ASSUME CtlInv, \A r \in Runs : RunDrifts(r), \A c \in Children : ChildDrifts(c),
           UNCHANGED <<task, job, active>>, MemType', now' \in 0 .. MaxTime, now <= now',
           \A t \in Threads :
              \/ cmd'[t] = cmd[t]
              \/ cmd[t].pc \notin Starts /\ cmd'[t].pc \notin Starts /\ ThreadOK(t)',
           \/ app' \notin {"up", "closing"}
           \/ app \in {"up", "closing"}
           \/ \A r \in Runs : ~IsActive(r)',
           grant' \subseteq grant, RegisteredIsSignalled', ExitIdle'
    PROVE  CtlInv'
<1> USE DEF CtlInv
<1>1. \A r \in Runs : TaskOK(r)' /\ RowOK(r)'
    BY TaskDrifts, RowDrifts
<1>2. \A c \in Children : ChildOK(c)'
    BY DriftEnds, ChildrenDrift
<1>3. \A t \in Threads : ThreadOK(t)'
    BY ThreadDrifts DEF MemType
<1>4. OneStarts'
    BY DEF OneStarts
<1>5. NoOrphan'
  <2>1. \A r \in Runs : (Starting(r) => Starting(r)') /\ (Driven(r) => Driven(r)')
      BY DEF Starting, Driven, Starts
  <2>2. QED BY <2>1, DriftEnds DEF NoOrphan
<1>6. NoGrantOutlivesTask' /\ SoleIsRegistered'
    BY DEF NoGrantOutlivesTask, SoleIsRegistered
<1>7. QED BY <1>1, <1>2, <1>3, <1>4, <1>5, <1>6

LEMMA ThreadStepKeeps ==
    ASSUME CtlInv, NEW t \in Threads,
           \A r \in Runs : RunDrifts(r), \A c \in Children : ChildDrifts(c),
           UNCHANGED <<task, job, active, call, now>>,
           cmd[t].pc \notin Starts, cmd'[t].pc \notin Starts, CmdType',
           \A u \in Threads : u # t => cmd'[u] = cmd[u],
           cmd'[t].pc \in {"revoke", "signal"} => cmd'[t].run \in Runs, cmd'[t].due <= now,
           app' = app \/ (app = "up" /\ app' = "closing"), used' \in UsedRows,
           t = "exit" => app' = "closing",
           TurnType', jobToken' \subseteq Children, token' \subseteq Runs, grant' \subseteq grant,
           RegisteredIsSignalled'
    PROVE  CtlInv'
<1>1. MemType'
    BY DEF CtlInv, MemType, AppType, TaskType, SignalType, JobType
<1>2. ThreadOK(t)'
    BY DEF ThreadOK, Starts, On
<1>3. ExitIdle'
    BY DEF CtlInv, ExitIdle, On
<1>4. now \in 0 .. MaxTime /\ app' \in {"up", "closing", "down", "recovering"}
    BY DEF CtlInv, MemType, AppType
<1>5. QED BY <1>1, <1>2, <1>3, <1>4, WorldKeeps

LEMMA ProceedKeeps ==
    ASSUME CmdType, NEW t \in Threads, NEW pc \in CmdPc, Proceed(t, pc)
    PROVE  /\ CmdType' /\ \A u \in Threads : u # t => cmd'[u] = cmd[u]
           /\ cmd'[t].pc = pc /\ cmd'[t].run = cmd[t].run /\ cmd'[t].due = cmd[t].due
BY DEF CmdType, CmdRows, Proceed

LEMMA ReturnKeeps ==
    ASSUME CmdType, NEW t \in Threads, Return(t)
    PROVE  /\ CmdType' /\ \A u \in Threads : u # t => cmd'[u] = cmd[u]
           /\ cmd'[t].pc = "idle" /\ cmd'[t].run = 0 /\ cmd'[t].due = 0
BY DEF CmdType, CmdRows, Return, Idle, CmdPc

\* The signals stay where they are unless a thread that owes one moves on.
LEMMA ThreadSignalsStay ==
    ASSUME RegisteredIsSignalled, NEW t \in Threads, token \subseteq token',
           UNCHANGED <<task, active>>,
           \A u \in Threads : u # t => cmd'[u] = cmd[u],
           cmd[t].pc \in {"revoke", "signal"} =>
              cmd'[t].pc \in {"revoke", "signal"} /\ cmd'[t].run = cmd[t].run,
           \A s \in Runs : run'[s].status = "canceling" => run[s].status = "canceling"
    PROVE  RegisteredIsSignalled'
<1>1. \A s \in Runs : SignalPending(s) => SignalPending(s)'
    BY DEF SignalPending
<1>2. QED BY <1>1 DEF RegisteredIsSignalled, At

\* Only the closing of the application lets the exit thread act.
LEMMA ExitActs ==
    ASSUME CtlInv, NEW t \in Threads, cmd[t].pc # "idle", app' = app
    PROVE  t = "exit" => app' = "closing"
BY DEF CtlInv, ExitIdle, On

\* A step that changes nothing but what its thread is to do next.
LEMMA ThreadMovesKeep ==
    ASSUME CtlInv, NEW t \in Threads,
           UNCHANGED <<storeVars, task, active, token, grant, turn, call, job, jobToken>>,
           cmd[t].pc \notin Starts, cmd'[t].pc \notin Starts, CmdType',
           \A u \in Threads : u # t => cmd'[u] = cmd[u],
           cmd'[t].pc \in {"revoke", "signal"} => cmd'[t].run \in Runs, cmd'[t].due <= now,
           cmd[t].pc \in {"revoke", "signal"} =>
              cmd'[t].pc \in {"revoke", "signal"} /\ cmd'[t].run = cmd[t].run,
           app' = app \/ (app = "up" /\ app' = "closing"), used' \in UsedRows,
           t = "exit" => app' = "closing"
    PROVE  CtlInv'
<1>1. UNCHANGED <<run, synth, child, now>>
    BY DEF storeVars
<1>2. (\A r \in Runs : RunDrifts(r)) /\ (\A c \in Children : ChildDrifts(c))
    BY <1>1 DEF RunDrifts, ChildDrifts
<1>3. /\ TurnType' /\ jobToken' \subseteq Children /\ token' \subseteq Runs
      /\ RegisteredIsSignalled /\ task' = task /\ job' = job
    BY DEF CtlInv, MemType, TurnType, JobType, SignalType
<1>4. RegisteredIsSignalled'
    BY <1>1, <1>3, ThreadSignalsStay
<1>5. QED BY <1>1, <1>2, <1>3, <1>4, ThreadStepKeeps

LEMMA IdleThreadKeeps ==
    ASSUME CtlInv, NEW t \in Threads, cmd[t].pc = "idle",
           NEW pc \in {"create", "cancel", "stop", "check", "runtime"}, Proceed(t, pc),
           UNCHANGED <<storeVars, task, active, token, grant, turn, call, job, jobToken>>,
           app' = app \/ (app = "up" /\ app' = "closing"), used' \in UsedRows,
           t = "exit" => app' = "closing"
    PROVE  CtlInv'
<1>1. CmdType /\ cmd[t].due <= now
    BY DEF CtlInv, MemType, ThreadOK
<1>2. pc \in CmdPc /\ pc \notin Starts /\ pc \notin {"revoke", "signal"} /\ "idle" \notin Starts
    BY DEF CmdPc, Starts
<1>3. /\ CmdType' /\ \A u \in Threads : u # t => cmd'[u] = cmd[u]
      /\ cmd'[t].pc = pc /\ cmd'[t].due = cmd[t].due
    BY <1>1, <1>2, ProceedKeeps
<1>4. cmd'[t].due <= now /\ cmd'[t].pc \notin {"revoke", "signal"}
    BY <1>1, <1>2, <1>3
<1>5. cmd[t].pc \notin Starts /\ cmd'[t].pc \notin Starts /\ cmd[t].pc \notin {"revoke", "signal"}
    BY <1>2, <1>3
<1>6. QED BY <1>3, <1>4, <1>5, ThreadMovesKeep

LEMMA CommandsKeep ==
    ASSUME Inv, CtlInv,
           RunProjectResearch \/ CancelProjectResearch \/ StopResearchHarness \/ ExitRequested
    PROVE  CtlInv'
<1>1. used \in UsedRows
    BY DEF CtlInv, MemType, AppType
<1>2. CASE RunProjectResearch
    BY <1>1, <1>2, IdleThreadKeeps DEF RunProjectResearch, On
<1>3. CASE CancelProjectResearch
  <2>1. used' \in UsedRows
    <3>1. used.cancels + 1 \in 0 .. MaxCancels
        BY <1>1, <1>3 DEF CancelProjectResearch, UsedRows
    <3>2. used' = [used EXCEPT !.cancels = used.cancels + 1]
        BY <1>3 DEF CancelProjectResearch
    <3>3. QED BY <1>1, <3>1, <3>2 DEF UsedRows
  <2>2. QED BY <1>3, <2>1, IdleThreadKeeps DEF CancelProjectResearch, On
<1>4. CASE StopResearchHarness
  <2>1. used' \in UsedRows
    <3>1. used.controls + 1 \in 0 .. MaxControls
        BY <1>1, <1>4 DEF StopResearchHarness, Control, UsedRows
    <3>2. used' = [used EXCEPT !.controls = used.controls + 1]
        BY <1>4 DEF StopResearchHarness, Control
    <3>3. QED BY <1>1, <3>1, <3>2 DEF UsedRows
  <2>2. QED BY <1>4, <2>1, IdleThreadKeeps DEF StopResearchHarness, On
<1>5. CASE ExitRequested
  <2>1. used' \in UsedRows
    <3>1. used.exits + 1 \in 0 .. MaxExits
        BY <1>1, <1>5 DEF ExitRequested, UsedRows
    <3>2. used' = [used EXCEPT !.exits = used.exits + 1]
        BY <1>5 DEF ExitRequested
    <3>3. QED BY <1>1, <3>1, <3>2 DEF UsedRows
  <2>2. cmd["exit"].pc = "idle"
      BY <1>5 DEF ExitRequested, CtlInv, ExitIdle, On
  <2>3. QED BY <1>5, <2>1, <2>2, IdleThreadKeeps DEF ExitRequested
<1>6. QED BY <1>2, <1>3, <1>4, <1>5

LEMMA ThreadOnlyMovesKeep ==
    ASSUME Inv, CtlInv, NEW t \in Threads,
           \/ Ensure(t) \/ CheckStop(t)
           \/ Create(t) /\ UNCHANGED storeVars /\ Return(t)
           \/ Cancel(t) /\ UNCHANGED storeVars /\ AfterCancel(t)
    PROVE  CtlInv'
<1>1. /\ CmdType /\ used \in UsedRows /\ now \in Nat
      /\ cmd[t].due <= now
    BY DEF CtlInv, MemType, AppType, ThreadOK
<1>a. \A p \in {"create", "halt", "cancel", "runtime"} :
            p \in CmdPc /\ p \notin Starts /\ p \notin {"revoke", "signal"}
    BY DEF CmdPc, Starts
<1>2. /\ cmd[t].pc \in {"ensure", "check", "create", "cancel"}
      /\ UNCHANGED <<storeVars, app, used, task, active, token, grant, turn, call, job, jobToken>>
      /\ Return(t) \/ \E p \in {"create", "halt", "cancel", "runtime"} : Proceed(t, p)
    BY DEF Ensure, CheckStop, Create, Cancel, AfterCancel, On
<1>3. t = "exit" => app' = "closing"
    BY <1>2, ExitActs
<1>4. /\ CmdType' /\ \A u \in Threads : u # t => cmd'[u] = cmd[u]
      /\ cmd'[t].pc \in {"idle", "create", "halt", "cancel", "runtime"}
      /\ cmd'[t].due <= now
  <2>1. CASE Return(t)
      BY <1>1, <2>1, ReturnKeeps
  <2>2. CASE \E p \in {"create", "halt", "cancel", "runtime"} : Proceed(t, p)
      BY <1>1, <1>a, <2>2, ProceedKeeps
  <2>3. QED BY <1>2, <2>1, <2>2
<1>5. cmd[t].pc \notin Starts /\ cmd'[t].pc \notin Starts
    BY <1>2, <1>4 DEF Starts
<1>6. cmd[t].pc \notin {"revoke", "signal"} /\ cmd'[t].pc \notin {"revoke", "signal"}
    BY <1>2, <1>4
<1>7. UNCHANGED <<storeVars, task, active, token, grant, turn, call, job, jobToken>> /\ app' = app
      /\ used' \in UsedRows
    BY <1>1, <1>2
<1>8. QED BY <1>3, <1>4, <1>5, <1>6, <1>7, ThreadMovesKeep

\* The parts of the state that a thread's step leaves well typed by leaving
\* them alone.
LEMMA MemoryTyped ==
    ASSUME CtlInv
    PROVE  /\ CmdType /\ used \in UsedRows /\ now \in Nat
           /\ UNCHANGED <<turn, call>> => TurnType'
           /\ UNCHANGED jobToken => jobToken' \subseteq Children
           /\ UNCHANGED token => token' \subseteq Runs
           /\ \A t \in Threads : cmd[t].due <= now
           /\ RegisteredIsSignalled
<1>1. /\ CmdType /\ used \in UsedRows /\ now \in Nat /\ TurnType /\ JobType /\ SignalType
      /\ \A t \in Threads : cmd[t].due <= now
      /\ RegisteredIsSignalled
    BY DEF CtlInv, MemType, AppType, ThreadOK
<1>2. UNCHANGED <<turn, call>> => TurnType'
    BY <1>1 DEF TurnType
<1>3. /\ UNCHANGED jobToken => jobToken' \subseteq Children
      /\ UNCHANGED token => token' \subseteq Runs
    BY <1>1 DEF JobType, SignalType
<1>4. QED BY <1>1, <1>2, <1>3

\* The scheduler claims an occurrence, or a thread settles the Harness.
LEMMA HarnessThreadKeeps ==
    ASSUME Inv, CtlInv, NEW t \in Threads,
           Halt(t) \/ Stop(t) \/ (SchedulerTick /\ t = "scheduler")
    PROVE  CtlInv'
<1>1. UNCHANGED <<run, synth, child, now, app, used, task, active, token, grant, turn, call, job,
                  jobToken>>
    BY DEF Halt, Stop, SchedulerTick, HaltHarness, StopHarness, ClaimDue, SetHarness
<1>a. \A p \in {"check", "ensure"} :
            p \in CmdPc /\ p \notin Starts /\ p \notin {"revoke", "signal"}
    BY DEF CmdPc, Starts
<1>2. (\A r \in Runs : RunDrifts(r)) /\ (\A c \in Children : ChildDrifts(c))
    BY <1>1 DEF RunDrifts, ChildDrifts
<1>3. /\ CmdType' /\ \A u \in Threads : u # t => cmd'[u] = cmd[u]
      /\ cmd[t].pc \in {"halt", "stop", "idle"} /\ cmd'[t].pc \in {"idle", "check", "ensure"}
      /\ cmd'[t].due <= now
      /\ t = "exit" => app' = "closing"
  <2>1. CASE Halt(t)
      BY <1>1, <2>1, MemoryTyped, ReturnKeeps, ExitActs DEF Halt, On
  <2>2. CASE Stop(t)
      BY <1>1, <1>a, <2>2, MemoryTyped, ProceedKeeps, ExitActs DEF Stop, On
  <2>3. CASE SchedulerTick /\ t = "scheduler" /\ UNCHANGED cmd
      BY <2>3, MemoryTyped DEF SchedulerTick, On, CmdType
  <2>4. CASE /\ SchedulerTick /\ t = "scheduler"
             /\ cmd' = [cmd EXCEPT !["scheduler"].pc = "ensure", !["scheduler"].due = harness.next]
    <3>1. harness.next <= now /\ harness.next \in 0 .. MaxTime
      <4>1. Due(harness, now)
          BY <2>4 DEF SchedulerTick, ClaimDue
      <4>2. harness.next \in Nat /\ now \in 0 .. MaxTime
          BY DEF Inv, StoreTypeOK, HarnessRows, CtlInv
      <4>3. QED BY <4>1, <4>2 DEF Due
    <3>2. cmd["scheduler"].pc = "idle" /\ "scheduler" \in Threads /\ "ensure" \in CmdPc
        BY <1>a, <2>4 DEF SchedulerTick, On
    <3>3. /\ CmdType' /\ \A u \in Threads : u # "scheduler" => cmd'[u] = cmd[u]
          /\ cmd'["scheduler"].pc = "ensure" /\ cmd'["scheduler"].due = harness.next
        BY <2>4, <3>1, <3>2, MemoryTyped DEF CmdType, CmdRows
    <3>4. QED BY <2>4, <3>1, <3>2, <3>3
  <2>5. QED BY <2>1, <2>2, <2>3, <2>4 DEF SchedulerTick
<1>4. /\ cmd[t].pc \notin Starts /\ cmd'[t].pc \notin Starts
      /\ cmd[t].pc \notin {"revoke", "signal"} /\ cmd'[t].pc \notin {"revoke", "signal"}
    BY <1>3 DEF Starts
<1>5. RegisteredIsSignalled'
    BY <1>1, <1>3, <1>4, MemoryTyped, ThreadSignalsStay
<1>6. QED BY <1>1, <1>2, <1>3, <1>4, <1>5, MemoryTyped, ThreadStepKeeps

\* cancel_with_reason on a thread: close the Run, revoke its grant, then signal
\* its children and trip its token.
LEMMA CancelThreadKeeps ==
    ASSUME Inv, CtlInv, NEW t \in Threads, Cancel(t) \/ Revoke(t) \/ Signal(t)
    PROVE  CtlInv'
<1>a. \A p \in {"revoke", "signal", "cancel", "runtime", "idle"} : p \in CmdPc /\ p \notin Starts
    BY DEF CmdPc, Starts
<1>b. UNCHANGED <<app, used, task, active, turn, call, job>>
    BY DEF Cancel, Revoke, Signal
<1>c. cmd[t].pc \in {"cancel", "revoke", "signal"}
    BY DEF Cancel, Revoke, Signal, On
<1>d. (t = "exit" => app' = "closing") /\ cmd[t].pc \notin Starts
    BY <1>a, <1>b, <1>c, ExitActs
<1>1. ASSUME NEW r \in Runs, RequestCancel(r), On(t, "cancel"),
             cmd' = [cmd EXCEPT ![t].pc = "revoke", ![t].run = r],
             UNCHANGED <<token, grant, jobToken>>
      PROVE  CtlInv'
  <2>1. /\ CmdType' /\ \A u \in Threads : u # t => cmd'[u] = cmd[u]
        /\ cmd'[t].pc = "revoke" /\ cmd'[t].run = r /\ cmd'[t].due <= now /\ cmd[t].pc = "cancel"
      BY <1>1, <1>a, MemoryTyped DEF CmdType, CmdRows, On
  <2>2. /\ \A u \in Runs : RunDrifts(u)
        /\ \A c \in Children : ChildDrifts(c)
        /\ \A u \in Runs : u # r => run'[u] = run[u]
        /\ UNCHANGED now
      BY <1>1, RequestCancelDrifts
  <2>3. RegisteredIsSignalled'
    <3> SUFFICES ASSUME NEW u \in Runs, run'[u].status = "canceling", At(u, "wait")', active = u
                 PROVE  u \in token \/ SignalPending(u)'
        BY <1>1, <1>b DEF RegisteredIsSignalled
    <3>1. CASE u = r
        BY <2>1, <3>1 DEF SignalPending
    <3>2. CASE u # r
      <4>1. u \in token \/ SignalPending(u)
          BY <1>b, <2>2, <3>2, MemoryTyped DEF RegisteredIsSignalled, At
      <4>2. SignalPending(u) => SignalPending(u)'
          BY <1>b, <2>1 DEF SignalPending
      <4>3. QED BY <4>1, <4>2
    <3>3. QED BY <3>1, <3>2
  <2>4. QED BY <1>1, <1>a, <1>b, <1>d, <2>1, <2>2, <2>3, MemoryTyped, ThreadStepKeeps
<1>2. CASE Cancel(t)
    BY <1>1, <1>2, ThreadOnlyMovesKeep DEF Cancel
<1>3. CASE Revoke(t)
  <2>1. UNCHANGED <<run, synth, child, now, token, jobToken>> /\ grant' \subseteq grant
      BY <1>3 DEF Revoke, storeVars
  <2>2. (\A r \in Runs : RunDrifts(r)) /\ (\A c \in Children : ChildDrifts(c))
      BY <2>1 DEF RunDrifts, ChildDrifts
  <2>3. /\ CmdType' /\ \A u \in Threads : u # t => cmd'[u] = cmd[u]
        /\ cmd'[t].pc = "signal" /\ cmd'[t].run = cmd[t].run /\ cmd'[t].due <= now
        /\ cmd'[t].run \in Runs
    <3>1. cmd[t].run \in Runs
        BY <1>3 DEF Revoke, On, CtlInv, ThreadOK
    <3>2. QED BY <1>3, <1>a, <3>1, MemoryTyped, ProceedKeeps DEF Revoke
  <2>4. RegisteredIsSignalled'
      BY <1>b, <2>1, <2>3, MemoryTyped, ThreadSignalsStay
  <2>5. QED BY <1>a, <1>b, <1>d, <2>1, <2>2, <2>3, <2>4, MemoryTyped, ThreadStepKeeps
<1>4. CASE Signal(t)
  <2> DEFINE s == cmd[t].run
  <2>1. s \in Runs /\ SignalChildren(s) /\ TripToken(s) /\ AfterCancel(t) /\ grant' = grant
      BY <1>4 DEF Signal, On, CtlInv, ThreadOK
  <2>2. /\ \A u \in Runs : RunDrifts(u)
        /\ \A c \in Children : ChildDrifts(c)
        /\ UNCHANGED <<run, now>>
      BY <2>1, CancelChildrenDrifts DEF SignalChildren
  <2>3. /\ token \subseteq token' /\ token' \subseteq Runs /\ jobToken' \subseteq Children
        /\ active = s => s \in token'
      BY <2>1 DEF SignalChildren, TripToken, CtlInv, MemType, SignalType, JobType, Unfinished,
         ChildrenOf
  <2>4. /\ CmdType' /\ \A u \in Threads : u # t => cmd'[u] = cmd[u]
        /\ cmd'[t].pc \in {"idle", "runtime"} /\ cmd'[t].due <= now
      BY <1>a, <2>1, MemoryTyped, ProceedKeeps, ReturnKeeps DEF AfterCancel
  <2>5. RegisteredIsSignalled'
    <3> SUFFICES ASSUME NEW u \in Runs, run[u].status = "canceling", At(u, "wait"), active = u
                 PROVE  u \in token' \/ SignalPending(u)'
        BY <1>b, <2>2 DEF RegisteredIsSignalled, At
    <3>1. u \in token \/ SignalPending(u)
        BY MemoryTyped DEF RegisteredIsSignalled
    <3>2. SignalPending(u) /\ u # s => SignalPending(u)'
        BY <1>b, <2>4 DEF SignalPending
    <3>3. QED BY <2>3, <3>1, <3>2
  <2>6. cmd'[t].pc \notin Starts /\ cmd'[t].pc \notin {"revoke", "signal"}
      BY <2>4 DEF Starts
  <2>7. TurnType' /\ UNCHANGED <<task, job, active, call>>
      BY <1>b, MemoryTyped
  <2>8. QED BY <1>b, <1>d, <2>1, <2>2, <2>3, <2>4, <2>5, <2>6, <2>7, MemoryTyped, ThreadStepKeeps
<1>5. QED BY <1>2, <1>3, <1>4

\* The exit thread shuts the runtime down and recovers what it interrupts.
LEMMA ExitThreadKeeps ==
    ASSUME Inv, CtlInv, NEW t \in Threads, ShutdownRuntime(t) \/ RecoverOnExit(t)
    PROVE  CtlInv'
<1>a. \A p \in {"prepared", "interrupted", "quit"} : p \in CmdPc
    BY DEF CmdPc
<1>1. /\ UNCHANGED <<app, used, task, active, token, grant, call, job, jobToken>>
      /\ cmd[t].pc \in {"runtime", "prepared", "interrupted"}
      /\ Proceed(t, "prepared") \/ Proceed(t, "interrupted") \/ Proceed(t, "quit")
    BY DEF ShutdownRuntime, RecoverOnExit, On
<1>2. /\ CmdType' /\ \A u \in Threads : u # t => cmd'[u] = cmd[u]
      /\ cmd'[t].pc \in {"prepared", "interrupted", "quit"} /\ cmd'[t].due <= now
      /\ t = "exit" => app' = "closing"
    BY <1>1, <1>a, MemoryTyped, ProceedKeeps, ExitActs
<1>3. /\ \A r \in Runs : RunDrifts(r)
      /\ \A r \in Runs : run'[r].status = "canceling" => run[r].status = "canceling"
      /\ \A c \in Children : ChildDrifts(c)
      /\ UNCHANGED now
  <2>1. CASE ShutdownRuntime(t)
      BY <2>1 DEF ShutdownRuntime, storeVars, RunDrifts, ChildDrifts
  <2>2. CASE RecoverPrepared
      BY <2>2, RecoverPreparedDrifts DEF ChildDrifts
  <2>3. CASE RecoverInterrupted
      BY <2>3, RecoverInterruptedDrifts DEF IsActive, Active
  <2>4. QED BY <2>1, <2>2, <2>3 DEF RecoverOnExit
<1>4. TurnType'
  <2>1. ExitTurns \/ UNCHANGED turn
      BY DEF ShutdownRuntime, RecoverOnExit
  <2>2. QED BY <1>1, <2>1 DEF ExitTurns, TurnType, TurnRows, CtlInv, MemType
<1>5. /\ cmd[t].pc \notin Starts /\ cmd'[t].pc \notin Starts
      /\ cmd[t].pc \notin {"revoke", "signal"} /\ cmd'[t].pc \notin {"revoke", "signal"}
    BY <1>1, <1>2 DEF Starts
<1>6. RegisteredIsSignalled'
    BY <1>1, <1>2, <1>3, <1>5, MemoryTyped, ThreadSignalsStay
<1>7. QED BY <1>1, <1>2, <1>3, <1>4, <1>5, <1>6, MemoryTyped, ThreadStepKeeps

-----------------------------------------------------------------------------
(* The start of a Run *)

\* What a step of a thread that starts Run r may do, besides what it does to it.
StartSteps(t, r) ==
    /\ At(r, "none") /\ task'[r].pc \in {"none", "begin"}
    /\ \A s \in Runs : s # r => run'[s] = run[s] /\ task'[s] = task[s]
    /\ \A u \in Threads : u # t => cmd'[u] = cmd[u]
    /\ \A u \in Threads : cmd[u].pc \in Starts /\ cmd[u].run = r => u = t
    /\ cmd[t].pc \in Starts => cmd[t].run = r
    /\ cmd'[t].pc \in Starts => cmd'[t].run = r
    /\ cmd[t].pc \notin {"revoke", "signal"}
    /\ CmdType' /\ TaskType' /\ active' \in {active, r}
    /\ task'[r].pc = "begin" => active' = r
    /\ UNCHANGED <<app, used, token, grant, turn, call, job, jobToken, child, synth, now>>
    /\ t = "exit" => app = "closing"

LEMMA StartStepKeeps ==
    ASSUME CtlInv, NEW t \in Threads, NEW r \in Runs, StartSteps(t, r),
           TaskOK(r)', RowOK(r)', ThreadOK(t)',
           run[r].status = "failed" => run'[r].status = "failed",
           IsActive(r)' => Starting(r)' \/ Driven(r)'
    PROVE  CtlInv'
<1> USE DEF CtlInv, StartSteps
<1>1. MemType' /\ now' \in 0 .. MaxTime
    BY DEF MemType, AppType, SignalType, TurnType, JobType
<1>2. /\ \A s \in Runs : s # r => RunDrifts(s)
      /\ \A c \in Children : ChildDrifts(c)
    BY DEF RunDrifts, ChildDrifts
<1>3. \A s \in Runs : TaskOK(s)' /\ RowOK(s)'
    BY <1>2, TaskDrifts, RowDrifts
<1>4. \A c \in Children : ChildOK(c)'
    BY <1>2, DriftEnds, ChildrenDrift
<1>5. \A u \in Threads : ThreadOK(u)'
    BY <1>2, ThreadDrifts DEF MemType
<1>6. OneStarts'
    BY DEF OneStarts
<1>7. NoOrphan'
  <2>1. \A s \in Runs : s # r => (Starting(s) => Starting(s)') /\ (Driven(s) => Driven(s)')
      BY DEF Starting, Driven, Starts
  <2>2. QED BY <1>2, <2>1, DriftEnds DEF NoOrphan
<1>8. NoGrantOutlivesTask'
    BY DEF NoGrantOutlivesTask, At, MemType, SignalType
<1>9. RegisteredIsSignalled'
  <2>1. \A s \in Runs : SignalPending(s) /\ s # r => SignalPending(s)'
    <3>1. \A s, u \in Runs : task[s].closed = u => s # r \/ u = 0
        BY DEF At, TaskOK
    <3>2. QED BY <3>1 DEF SignalPending
  <2>2. QED BY <2>1 DEF RegisteredIsSignalled, At
<1>10. SoleIsRegistered'
    BY DEF SoleIsRegistered
<1>11. ExitIdle'
    BY DEF ExitIdle, On
<1>12. QED BY <1>1, <1>3, <1>4, <1>5, <1>6, <1>7, <1>8, <1>9, <1>10, <1>11

\* The row of a Run whose task has not begun.
LEMMA UnbegunOK ==
    ASSUME CtlInv, NEW r \in Runs, At(r, "none"), task'[r] = task[r], synth'[r] = synth[r],
           Unsaved(r), run'[r].status \notin {"none", "ready", "cancelled"}
    PROVE  TaskOK(r)' /\ RowOK(r)'
<1>1. TaskOK(r) /\ task[r].pc = "none"
    BY DEF CtlInv, At
<1>2. QED BY <1>1 DEF TaskOK, RowOK, Unsaved, At, Early, Closed

LEMMA CreateKeeps ==
    ASSUME Inv, CtlInv, NEW t \in Threads, Create(t)
    PROVE  CtlInv'
<1>1. ASSUME NEW r \in Runs, CreateRun(r, cmd[t].due),
             cmd' = [cmd EXCEPT ![t].pc = "configure", ![t].run = r]
      PROVE  CtlInv'
  <2>1. /\ run[r].status = "none" /\ run'[r].status = "queued" /\ ~run'[r].codex
        /\ \A s \in Runs : s # r => run'[s] = run[s]
        /\ UNCHANGED <<synth, child, now>>
    <3>1. run \in [Runs -> RunRows]
        BY DEF Inv, StoreTypeOK
    <3>2. QED BY <1>1, <3>1 DEF CreateRun, IsNext, NoRun
  <2>2. /\ CmdType' /\ cmd'[t].pc = "configure" /\ cmd'[t].run = r /\ cmd'[t].due <= now
        /\ \A u \in Threads : u # t => cmd'[u] = cmd[u]
    <3>1. "configure" \in CmdPc
        BY DEF CmdPc
    <3>2. QED BY <1>1, <3>1, MemoryTyped DEF CmdType, CmdRows
  <2>3. At(r, "none") /\ Unsaved(r)
      BY <2>1 DEF CtlInv, TaskOK, RowOK
  <2>4. cmd[t].pc = "create" /\ UNCHANGED <<app, used, task, active, token, grant, turn, call, job, jobToken>>
      BY DEF Create, On
  <2>5. \A u \in Threads : cmd[u].pc \in Starts => cmd[u].run # r
      BY <2>1 DEF CtlInv, ThreadOK
  <2>6. StartSteps(t, r)
    <3>1. TaskType' /\ (t = "exit" => app = "closing")
        BY <2>4, ExitActs DEF CtlInv, MemType, TaskType
    <3>2. QED BY <2>1, <2>2, <2>3, <2>4, <2>5, <3>1 DEF StartSteps, At, Starts
  <2>7. TaskOK(r)' /\ RowOK(r)'
      BY <2>1, <2>3, <2>4, UnbegunOK
  <2>8. ThreadOK(t)'
      BY <2>1, <2>2, <2>3, <2>4 DEF ThreadOK, On, At, Unsaved
  <2>9. Starting(r)'
      BY <2>2 DEF Starting
  <2>10. QED BY <2>1, <2>6, <2>7, <2>8, <2>9, StartStepKeeps
<1>2. CASE UNCHANGED storeVars /\ Return(t)
    BY <1>2, ThreadOnlyMovesKeep
<1>3. QED BY <1>1, <1>2 DEF Create

\* What a thread that starts a Run knows of it.
LEMMA StartsAlone ==
    ASSUME CtlInv, NEW t \in Threads, cmd[t].pc \in Starts
    PROVE  /\ cmd[t].run \in Runs
           /\ At(cmd[t].run, "none") /\ Unsaved(cmd[t].run)
           /\ run[cmd[t].run].status # "none"
           /\ \A u \in Threads : cmd[u].pc \in Starts /\ cmd[u].run = cmd[t].run => u = t
           /\ On(t, "configure") =>
                 run[cmd[t].run].status \in {"queued", "failed"} /\ ~run[cmd[t].run].codex
           /\ On(t, "fail") => run[cmd[t].run].status = "failed"
           /\ cmd[t].due <= now /\ cmd[t].pc \notin {"revoke", "signal"}
           /\ CmdType /\ TaskType
           /\ UNCHANGED app => (t = "exit" => app = "closing")
<1>1. cmd[t].pc \notin {"revoke", "signal", "idle"}
    BY DEF Starts
<1>2. QED BY <1>1, ExitActs DEF CtlInv, MemType, ThreadOK, OneStarts

LEMMA ConfigureKeeps ==
    ASSUME Inv, CtlInv, NEW t \in Threads, Configure(t)
    PROVE  CtlInv'
<1>a. "configure" \in Starts /\ "spawn" \in CmdPc /\ "fail" \in CmdPc
    BY DEF Starts, CmdPc
<1>1. On(t, "configure") /\ cmd[t].pc \in Starts
    BY <1>a DEF Configure, On
<1>b. PICK r \in Runs : cmd[t].run = r
    BY <1>1, StartsAlone
<1>2. /\ At(r, "none") /\ Unsaved(r) /\ run[r].status \in {"queued", "failed"}
      /\ \A u \in Threads : cmd[u].pc \in Starts /\ cmd[u].run = r => u = t
      /\ cmd[t].pc \notin {"revoke", "signal"} /\ cmd[t].due <= now
      /\ CmdType /\ TaskType
      /\ UNCHANGED app => (t = "exit" => app = "closing")
    BY <1>1, <1>b, StartsAlone
<1>3. /\ Proceed(t, "spawn") \/ Proceed(t, "fail")
      /\ UNCHANGED <<app, used, task, active, token, grant, turn, call, job, jobToken>>
    BY <1>b DEF Configure
<1>4. /\ CmdType' /\ \A u \in Threads : u # t => cmd'[u] = cmd[u]
      /\ cmd'[t].pc \in {"spawn", "fail"} /\ cmd'[t].run = r /\ cmd'[t].due <= now
    BY <1>2, <1>3, <1>a, <1>b, ProceedKeeps
<1>5. /\ \A s \in Runs : s # r => run'[s] = run[s]
      /\ UNCHANGED <<synth, child, now>>
      /\ \/ run'[r].status = "planning" /\ cmd'[t].pc = "spawn" /\ run[r].status = "queued"
         \/ run'[r].status = "failed" /\ cmd'[t].pc = "fail"
  <2>1. CASE ConfigureRun(r) /\ Proceed(t, "spawn")
    <3>1. run \in [Runs -> RunRows] /\ run[r] \in RunRows
        BY <1>2 DEF Inv, StoreTypeOK
    <3>2. QED BY <1>2, <1>a, <2>1, <3>1, ProceedKeeps DEF ConfigureRun, RunRows
  <2>2. CASE run[r].status # "queued" /\ UNCHANGED storeVars /\ Proceed(t, "fail")
      BY <1>2, <1>a, <2>2, ProceedKeeps DEF storeVars
  <2>3. QED BY <1>b, <2>1, <2>2 DEF Configure
<1>6. StartSteps(t, r)
  <2>1. TaskType'
      BY <1>2, <1>3 DEF TaskType
  <2>2. QED BY <1>b, <1>2, <1>3, <1>4, <1>5, <2>1 DEF StartSteps, At
<1>7. TaskOK(r)' /\ RowOK(r)'
    BY <1>2, <1>3, <1>5, UnbegunOK
<1>8. ThreadOK(t)'
    BY <1>2, <1>3, <1>4, <1>5 DEF ThreadOK, On, At, Unsaved
<1>9. IsActive(r)' => Starting(r)'
    BY <1>4, <1>5 DEF Starting, IsActive
<1>10. QED BY <1>2, <1>5, <1>6, <1>7, <1>8, <1>9, StartStepKeeps

LEMMA FailStartKeeps ==
    ASSUME Inv, CtlInv, NEW t \in Threads, FailStart(t)
    PROVE  CtlInv'
<1>1. On(t, "fail") /\ cmd[t].pc \in Starts
    BY DEF FailStart, On, Starts
<1>b. PICK r \in Runs : cmd[t].run = r
    BY <1>1, StartsAlone
<1>2. /\ At(r, "none") /\ Unsaved(r) /\ run[r].status = "failed"
      /\ \A u \in Threads : cmd[u].pc \in Starts /\ cmd[u].run = r => u = t
      /\ cmd[t].pc \notin {"revoke", "signal"}
      /\ CmdType /\ TaskType
      /\ UNCHANGED app => (t = "exit" => app = "closing")
    BY <1>1, <1>b, StartsAlone
<1>3. /\ UNCHANGED <<app, used, task, active, token, grant, turn, call, job, jobToken>>
      /\ UNCHANGED <<synth, child, now>>
      /\ FailRun(r) /\ Return(t)
    BY <1>b DEF FailStart, FailRun
<1>4. run'[r].status = "failed" /\ \A s \in Runs : s # r => run'[s] = run[s]
    BY <1>2, <1>3, SetStatusOnly DEF FailRun
<1>5. /\ CmdType' /\ \A u \in Threads : u # t => cmd'[u] = cmd[u]
      /\ cmd'[t].pc = "idle" /\ cmd'[t].due = 0
    BY <1>2, <1>3, ReturnKeeps
<1>6. StartSteps(t, r)
  <2>1. TaskType' /\ "idle" \notin Starts
      BY <1>2, <1>3 DEF TaskType, Starts
  <2>2. QED BY <1>b, <1>2, <1>3, <1>4, <1>5, <2>1 DEF StartSteps, At
<1>7. TaskOK(r)' /\ RowOK(r)'
    BY <1>2, <1>3, <1>4, UnbegunOK
<1>8. ThreadOK(t)'
    BY <1>3, <1>5, MemoryTyped DEF ThreadOK, On, Starts
<1>9. ~IsActive(r)'
    BY <1>4 DEF IsActive, Active, Admitted, Working
<1>10. QED BY <1>2, <1>4, <1>6, <1>7, <1>8, <1>9, StartStepKeeps

LEMMA SpawnKeeps ==
    ASSUME Inv, CtlInv, NEW t \in Threads, Spawn(t)
    PROVE  CtlInv'
<1>1. cmd[t].pc \in Starts
    BY DEF Spawn, On, Starts
<1>b. PICK r \in Runs : cmd[t].run = r
    BY <1>1, StartsAlone
<1>2. /\ At(r, "none") /\ Unsaved(r) /\ run[r].status # "none"
      /\ \A u \in Threads : cmd[u].pc \in Starts /\ cmd[u].run = r => u = t
      /\ cmd[t].pc \notin {"revoke", "signal"}
      /\ CmdType /\ TaskType
      /\ UNCHANGED app => (t = "exit" => app = "closing")
    BY <1>1, <1>b, StartsAlone
<1>3. /\ UNCHANGED <<run, synth, child, now>>
      /\ UNCHANGED <<app, used, token, grant, turn, call, job, jobToken>>
      /\ active' = r /\ Goto(r, "begin") /\ Return(t)
    BY <1>b DEF Spawn, storeVars
<1>4. /\ CmdType' /\ \A u \in Threads : u # t => cmd'[u] = cmd[u]
      /\ cmd'[t].pc = "idle" /\ cmd'[t].due = 0
    BY <1>2, <1>3, ReturnKeeps
<1>5. /\ TaskType' /\ task'[r].pc = "begin" /\ task'[r].closed = task[r].closed
      /\ \A s \in Runs : s # r => task'[s] = task[s]
  <2>1. "begin" \in TaskPc
      BY DEF TaskPc
  <2>2. QED BY <1>2, <1>3, <2>1, GotoKeeps
<1>6. StartSteps(t, r)
  <2>1. "idle" \notin Starts
      BY DEF Starts
  <2>2. QED BY <1>b, <1>2, <1>3, <1>4, <1>5, <2>1 DEF StartSteps
<1>7. TaskOK(r)' /\ RowOK(r)'
  <2>1. TaskOK(r) /\ RowOK(r)
      BY <1>2 DEF CtlInv
  <2>2. TaskOK(r)'
      BY <1>2, <1>3, <1>5, <2>1 DEF TaskOK, At, Unsaved, Closed
  <2>3. Quiet(r)' <=> Quiet(r)
      BY <1>3 DEF Quiet
  <2>4. RowOK(r)'
      BY <1>3, <2>1, <2>3 DEF RowOK, Unsaved
  <2>5. QED BY <2>2, <2>4
<1>8. ThreadOK(t)'
    BY <1>3, <1>4, MemoryTyped DEF ThreadOK, On, Starts
<1>9. Driven(r)'
    BY <1>5 DEF Driven
<1>10. QED BY <1>2, <1>3, <1>6, <1>7, <1>8, <1>9, StartStepKeeps

-----------------------------------------------------------------------------
(* The agents and their child Searches *)

\* A step of an agent or a job: it touches child Searches, and leaves every Run
\* quiet that was, unless the Run is open to new work.
ChildSteps ==
    /\ \A r \in Runs : Quiet(r) /\ run[r].status \notin Open => Quiet(r)'
    /\ UNCHANGED <<run, synth, now, app, used, task, active, token, grant, turn, cmd>>

LEMMA ChildStepKeeps ==
    ASSUME CtlInv, ChildSteps, TurnType', JobType', \A c \in Children : ChildOK(c)'
    PROVE  CtlInv'
<1> USE DEF CtlInv, ChildSteps
<1>1. MemType' /\ now' \in 0 .. MaxTime
    BY DEF MemType, AppType, TaskType, SignalType, CmdType
<1>2. \A r \in Runs : TaskOK(r)' /\ RowOK(r)'
  <2> SUFFICES ASSUME NEW r \in Runs PROVE TaskOK(r)' /\ RowOK(r)'
      OBVIOUS
  <2>1. TaskOK(r) /\ RowOK(r)
      OBVIOUS
  <2>2. TaskOK(r)'
      BY <2>1 DEF TaskOK, At, Unsaved, Closed
  <2>3. RowOK(r)'
      BY <2>1 DEF RowOK, Unsaved, Open, Working
  <2>4. QED BY <2>2, <2>3
<1>3. \A t \in Threads : ThreadOK(t)'
    BY DEF ThreadOK, At, On, Unsaved
<1>4. OneStarts' /\ NoGrantOutlivesTask' /\ SoleIsRegistered' /\ ExitIdle'
    BY DEF OneStarts, NoGrantOutlivesTask, SoleIsRegistered, ExitIdle, On
<1>5. NoOrphan'
    BY DEF NoOrphan, IsActive, Starting, Driven
<1>6. RegisteredIsSignalled'
    BY DEF RegisteredIsSignalled, SignalPending, At
<1>7. QED BY <1>1, <1>2, <1>3, <1>4, <1>5, <1>6

\* What the agents and the jobs find.
LEMMA ChildrenTyped ==
    ASSUME Inv, CtlInv
    PROVE  /\ child \in [Children -> ChildRows] /\ JobType /\ TurnType
           /\ \A c \in Children : ChildOK(c)
           /\ \A c \in Children : child[c].status \in {"none"} \cup ActiveChild \cup Terminal
<1>1. child \in [Children -> ChildRows]
    BY DEF Inv, StoreTypeOK
<1>2. \A c \in Children : child[c] \in ChildRows
    BY <1>1
<1>3. QED BY <1>1, <1>2 DEF CtlInv, MemType, ChildRows

LEMMA SearchStartKeeps ==
    ASSUME Inv, CtlInv, NEW r \in Runs, SearchStart(r)
    PROVE  CtlInv'
<1>1. PICK c \in Children : CreateChild(c, r) /\ call' = [call EXCEPT ![r] = c]
    BY DEF SearchStart
<1>2. /\ child[c].status = "none" /\ run[r].status \in Open
      /\ child' = [child EXCEPT ![c] = [parent |-> r, status |-> "queued", cancel |-> FALSE]]
      /\ UNCHANGED <<run, synth, now, app, used, task, active, token, grant, turn, job, jobToken, cmd>>
    BY <1>1 DEF SearchStart, CreateChild, Open
<1>3. /\ child'[c].parent = r /\ child'[c].status = "queued"
      /\ \A d \in Children : d # c => child'[d] = child[d]
    BY <1>2, ChildrenTyped
<1>4. \A s \in Runs : Quiet(s) /\ run[s].status \notin Open => Quiet(s)'
    BY <1>2, <1>3 DEF Quiet
<1>5. \A d \in Children : ChildOK(d)'
    BY <1>2, <1>3, ChildrenTyped DEF ChildOK, ActiveChild
<1>6. TurnType' /\ JobType'
    BY <1>1, <1>2, ChildrenTyped DEF TurnType, JobType
<1>7. QED BY <1>2, <1>4, <1>5, <1>6, ChildStepKeeps DEF ChildSteps

\* A job that works on a child keeps its Run from being quiet.
LEMMA JobKeeps ==
    ASSUME Inv, CtlInv, NEW c \in Children,
           JobStart(c) \/ JobEnd(c) \/ \E r \in Runs : call[r] = c /\ Enqueue(r)
    PROVE  CtlInv'
<1>1. /\ UNCHANGED <<run, synth, now, app, used, task, active, token, grant, turn, cmd>>
      /\ TurnType'
  <2>1. CASE JobStart(c) \/ JobEnd(c)
      BY <2>1, ChildrenTyped DEF JobStart, JobEnd, SetChildStatus, TurnType
  <2>2. CASE \E r \in Runs : call[r] = c /\ Enqueue(r)
      BY <2>2, ChildrenTyped DEF Enqueue, EndCall, storeVars, TurnType
  <2>3. QED BY <2>1, <2>2
<1>2. /\ JobType'
      /\ \A d \in Children : d # c => child'[d] = child[d] /\ job'[d] = job[d]
      /\ \/ child'[c] = child[c] /\ job'[c] = job[c]
         \/ /\ child[c].status \in ActiveChild \/ job[c] # "none"
            /\ child'[c].parent = child[c].parent /\ child[c].status # "none"
            /\ child'[c].status \in ActiveChild \/ job'[c] = "none"
            /\ child'[c].status # "none"
  <2>1. CASE JobStart(c)
      BY <2>1, ChildrenTyped DEF JobStart, SetChildStatus, JobType, ChildRows, ActiveChild
  <2>2. CASE JobEnd(c)
    <3>1. PICK s \in Terminal : SetChildStatus(c, s)
        BY <2>2 DEF JobEnd, Terminal
    <3>2. /\ job[c] # "none" /\ job' = [job EXCEPT ![c] = "none"]
          /\ jobToken' = jobToken \ {c}
        BY <2>2 DEF JobEnd
    <3>3. s # "none"
        BY DEF Terminal
    <3>4. QED BY <3>1, <3>2, <3>3, ChildrenTyped DEF SetChildStatus, JobType, ChildRows
  <2>3. CASE \E r \in Runs : call[r] = c /\ Enqueue(r)
    <3>1. /\ job' = IF child[c].status = "queued" THEN [job EXCEPT ![c] = "spawned"] ELSE job
          /\ UNCHANGED <<child, jobToken>>
        BY <2>3 DEF Enqueue, storeVars
    <3>2. QED BY <3>1, ChildrenTyped DEF JobType, ActiveChild
  <2>4. QED BY <2>1, <2>2, <2>3
<1>3. \A r \in Runs : Quiet(r) => Quiet(r)'
    BY <1>2 DEF Quiet
<1>4. \A d \in Children : ChildOK(d)'
    BY <1>1, <1>2, ChildrenTyped DEF ChildOK
<1>5. QED BY <1>1, <1>2, <1>3, <1>4, ChildStepKeeps DEF ChildSteps

-----------------------------------------------------------------------------
(* Steps that leave the tasks, the threads and the jobs alone *)

LEMMA BystanderKeeps ==
    ASSUME CtlInv,
           \A r \in Runs : RunDrifts(r) /\ (run'[r].status = "canceling" => run[r].status = "canceling"),
           \A c \in Children : ChildDrifts(c),
           UNCHANGED <<task, active, token, grant, job, cmd>>,
           TurnType', jobToken' \subseteq Children, used' \in UsedRows,
           now' \in 0 .. MaxTime, now <= now',
           \/ UNCHANGED app
           \/ app = "down" /\ app' = "recovering"
           \/ app = "recovering" /\ app' = "up" /\ \A r \in Runs : ~IsActive(r)'
    PROVE  CtlInv'
<1>1. MemType'
    BY DEF CtlInv, MemType, AppType, TaskType, SignalType, JobType, CmdType
<1>2. RegisteredIsSignalled'
    BY SignalsStay DEF CtlInv, At
<1>3. ExitIdle'
    BY DEF CtlInv, ExitIdle, On
<1>4. QED BY <1>1, <1>2, <1>3, WorldKeeps

\* A transaction that writes neither a Run's status nor a child's is a drift.
LEMMA PapersDrift ==
    ASSUME \A r \in Runs : run'[r].status = run[r].status /\ run'[r].codex = run[r].codex,
           UNCHANGED <<synth, child>>
    PROVE  /\ \A r \in Runs : RunDrifts(r) /\ (run'[r].status = "canceling" => run[r].status = "canceling")
           /\ \A c \in Children : ChildDrifts(c)
BY DEF RunDrifts, ChildDrifts

LEMMA CallsTyped ==
    ASSUME CtlInv, NEW r \in Runs, UNCHANGED turn
    PROVE  EndCall(r) => TurnType'
BY DEF CtlInv, MemType, TurnType, EndCall

LEMMA AgentKeeps ==
    ASSUME Inv, CtlInv, NEW r \in Runs, Agent(r)
    PROVE  CtlInv'
<1>1. /\ used \in UsedRows /\ now \in 0 .. MaxTime /\ now <= now /\ TurnType
      /\ UNCHANGED jobToken => jobToken' \subseteq Children
    BY DEF CtlInv, MemType, AppType, JobType
<1>2. ASSUME UNCHANGED <<storeVars, app, used, task, active, token, grant, job, jobToken, cmd>>,
             TurnType'
      PROVE  CtlInv'
  <2>1. UNCHANGED <<run, synth, child, now>>
      BY <1>2 DEF storeVars
  <2>2. QED BY <1>1, <1>2, <2>1, PapersDrift, BystanderKeeps
<1>3. CASE TurnEnds(r)
    BY <1>1, <1>2, <1>3 DEF TurnEnds, TurnType, TurnRows
<1>4. CASE WaitLagged(r)
    BY <1>4, TurnStepsKeep
<1>5. CASE BeginCall(r)
    BY <1>1, <1>2, <1>5 DEF BeginCall, TurnType
<1>6. CASE CallReturns(r)
    BY <1>2, <1>6, CallsTyped DEF CallReturns
<1>7. CASE SearchStart(r)
    BY <1>7, SearchStartKeeps
<1>8. CASE Enqueue(r)
    BY <1>8, JobKeeps DEF Enqueue
<1>9. CASE SearchCancel(r)
  <2>1. PICK c \in Unfinished(r) :
            /\ CancelChildren({c})
            /\ jobToken' = IF job[c] # "none" THEN jobToken \cup {c} ELSE jobToken
      BY <1>9 DEF SearchCancel
  <2>2. jobToken' \subseteq Children
      BY <2>1 DEF CtlInv, MemType, JobType, Unfinished, ChildrenOf
  <2>3. TurnType' /\ UNCHANGED <<app, used, task, active, token, grant, job, cmd>>
      BY <1>9, CallsTyped DEF SearchCancel
  <2>4. QED BY <1>1, <2>1, <2>2, <2>3, CancelChildrenDrifts, BystanderKeeps
<1>10. CASE VaultAddPaper(r) \/ ReaderRead(r)
  <2>1. /\ \E p \in Papers : AddPaper(r, p) \/ ReadPaper(r, p)
        /\ EndCall(r)
        /\ UNCHANGED <<app, used, task, active, token, grant, turn, job, jobToken, cmd>>
      BY <1>10 DEF VaultAddPaper, ReaderRead
  <2>2. /\ \A s \in Runs : run'[s].status = run[s].status /\ run'[s].codex = run[s].codex
        /\ UNCHANGED <<synth, child, now>>
    <3>1. run \in [Runs -> RunRows] /\ \A s \in Runs : run[s] \in RunRows
        BY DEF Inv, StoreTypeOK
    <3>2. PICK p \in Papers : AddPaper(r, p) \/ ReadPaper(r, p)
        BY <2>1
    <3>3. UNCHANGED <<synth, child, now>> /\ \A s \in Runs : s # r => run'[s] = run[s]
        BY <3>1, <3>2 DEF AddPaper, ReadPaper
    <3>4. \/ run'[r] = run[r]
          \/ run'[r] = [run[r] EXCEPT !.seen = run[r].seen \cup {p}]
          \/ run'[r] = [run[r] EXCEPT !.added = run[r].added \cup {p}]
          \/ run'[r] = [run[r] EXCEPT !.read = run[r].read \cup {p}]
        BY <3>1, <3>2 DEF AddPaper, ReadPaper
    <3>5. run'[r].status = run[r].status /\ run'[r].codex = run[r].codex
        BY <3>1, <3>4 DEF RunRows
    <3>6. QED BY <3>3, <3>5
  <2>3. QED BY <1>1, <2>1, <2>2, CallsTyped, PapersDrift, BystanderKeeps
<1>11. QED BY <1>3, <1>4, <1>5, <1>6, <1>7, <1>8, <1>9, <1>10 DEF Agent

\* Of the researcher's steps, of Codex and of time.
LEMMA BystandersKeep ==
    ASSUME Inv, CtlInv, CodexExits \/ ControlHarness \/ Edit \/ Tick \/ Restart \/ Recover
    PROVE  CtlInv'
<1>1. /\ used \in UsedRows /\ now \in 0 .. MaxTime /\ now <= now /\ TurnType
      /\ UNCHANGED jobToken => jobToken' \subseteq Children
    BY DEF CtlInv, MemType, AppType, JobType
<1>2. UNCHANGED <<turn, call>> => TurnType'
    BY <1>1 DEF TurnType
<1>3. CASE CodexExits
  <2>1. UNCHANGED <<run, synth, child, now>>
      BY <1>3 DEF CodexExits, storeVars
  <2>2. TurnType'
      BY <1>1, <1>3 DEF CodexExits, ExitTurns, TurnType, TurnRows
  <2>3. QED BY <1>1, <1>3, <2>1, <2>2, PapersDrift, BystanderKeeps DEF CodexExits
<1>4. CASE ControlHarness
  <2>1. UNCHANGED <<run, synth, child, now, app, memVars>>
      BY <1>4 DEF ControlHarness, SaveConfiguration, PauseHarness, ResumeHarness, SetHarness
  <2>2. used' \in UsedRows
    <3>1. used.controls + 1 \in 0 .. MaxControls
        BY <1>1, <1>4 DEF ControlHarness, Control, UsedRows
    <3>2. used' = [used EXCEPT !.controls = used.controls + 1]
        BY <1>4 DEF ControlHarness, Control
    <3>3. QED BY <1>1, <3>1, <3>2 DEF UsedRows
  <2>3. QED BY <1>1, <1>2, <2>1, <2>2, PapersDrift, BystanderKeeps DEF memVars
<1>5. CASE Edit
  <2>1. /\ \A r \in Runs : run'[r].status = run[r].status /\ run'[r].codex = run[r].codex
        /\ UNCHANGED <<synth, child, now>>
    <3>1. run \in [Runs -> RunRows] /\ \A r \in Runs : run[r] \in RunRows
        BY DEF Inv, StoreTypeOK
    <3>2. CASE EditState \/ \E p \in Papers : EditVault(p)
        BY <3>2 DEF EditState, EditVault
    <3>3. CASE \E p \in Papers : DeletePaper(p)
      <4>1. PICK p \in Papers : DeletePaper(p)
          BY <3>3
      <4>2. \A r \in Runs : run'[r] = [run[r] EXCEPT !.added = run[r].added \ {p},
                                         !.seen = run[r].seen \ {p}, !.read = run[r].read \ {p}]
          BY <4>1 DEF DeletePaper
      <4>3. \A r \in Runs : run'[r].status = run[r].status /\ run'[r].codex = run[r].codex
          BY <3>1, <4>2 DEF RunRows
      <4>4. QED BY <4>1, <4>3 DEF DeletePaper
    <3>4. QED BY <1>5, <3>2, <3>3 DEF Edit
  <2>2. used' \in UsedRows
    <3>1. used.edits + 1 \in 0 .. MaxEdits
        BY <1>1, <1>5 DEF Edit, UsedRows
    <3>2. used' = [used EXCEPT !.edits = used.edits + 1]
        BY <1>5 DEF Edit
    <3>3. QED BY <1>1, <3>1, <3>2 DEF UsedRows
  <2>3. UNCHANGED <<app, memVars>>
      BY <1>5 DEF Edit
  <2>4. QED BY <1>1, <1>2, <2>1, <2>2, <2>3, PapersDrift, BystanderKeeps DEF memVars
<1>6. CASE Tick
  <2>1. UNCHANGED <<run, synth, child, app, memVars, used>> /\ now' = now + 1 /\ now < MaxTime
      BY <1>6 DEF Tick, ClockTick
  <2>2. now' \in 0 .. MaxTime /\ now <= now'
      BY <1>1, <2>1
  <2>3. QED BY <1>1, <1>2, <2>1, <2>2, PapersDrift, BystanderKeeps DEF memVars
<1>7. CASE Restart
  <2>1. RecoverPrepared /\ app = "down" /\ app' = "recovering" /\ UNCHANGED <<memVars, used>>
      BY <1>7 DEF Restart
  <2>2. /\ \A r \in Runs : RunDrifts(r) /\ (run'[r].status = "canceling" => run[r].status = "canceling")
        /\ \A c \in Children : ChildDrifts(c)
        /\ UNCHANGED now
      BY <2>1, RecoverPreparedDrifts DEF ChildDrifts
  <2>3. QED BY <1>1, <1>2, <2>1, <2>2, BystanderKeeps DEF memVars
<1>8. CASE Recover
  <2>1. RecoverInterrupted /\ app = "recovering" /\ app' = "up" /\ UNCHANGED <<memVars, used>>
      BY <1>8 DEF Recover
  <2>2. /\ \A r \in Runs : RunDrifts(r) /\ ~IsActive(r)'
        /\ \A r \in Runs : run'[r].status # "canceling"
        /\ \A c \in Children : ChildDrifts(c)
        /\ UNCHANGED now
      BY <2>1, RecoverInterruptedDrifts DEF IsActive, Active
  <2>3. QED BY <1>1, <1>2, <2>1, <2>2, BystanderKeeps DEF memVars
<1>9. QED BY <1>3, <1>4, <1>5, <1>6, <1>7, <1>8

\* Memory is forgotten: no task, no thread, no job, no signal is left.
LEMMA DownKeeps ==
    ASSUME Inv, CtlInv, Crash \/ \E t \in Threads : Quit(t)
    PROVE  CtlInv'
<1>1. /\ UNCHANGED <<run, synth, child, now>> /\ app' = "down" /\ EmptyMemory
      /\ used' \in UsedRows
  <2>1. CASE Crash
    <3>1. used \in UsedRows
        BY DEF CtlInv, MemType, AppType
    <3>2. used.crashes + 1 \in 0 .. MaxCrashes
        BY <2>1, <3>1 DEF Crash, UsedRows
    <3>3. used' = [used EXCEPT !.crashes = used.crashes + 1]
        BY <2>1 DEF Crash
    <3>4. used' \in UsedRows
        BY <3>1, <3>2, <3>3 DEF UsedRows
    <3>5. QED BY <2>1, <3>4 DEF Crash, storeVars
  <2>2. CASE \E t \in Threads : Quit(t)
      BY <2>2 DEF Quit, storeVars, CtlInv, MemType, AppType
  <2>3. QED BY <2>1, <2>2
<1>2. /\ \A r \in Runs : task'[r] = Asleep
      /\ \A c \in Children : job'[c] = "none"
      /\ \A t \in Threads : cmd'[t] = Idle
      /\ active' = 0 /\ token' = {} /\ grant' = {} /\ jobToken' = {}
    BY <1>1 DEF EmptyMemory
<1>3. MemType' /\ now' \in 0 .. MaxTime
  <2>1. Asleep \in TaskRows
      BY DEF Asleep, TaskRows, TaskPc
  <2>2. Idle \in CmdRows
      BY DEF Idle, CmdRows, CmdPc
  <2>3. TaskType' /\ CmdType'
      BY <1>1, <2>1, <2>2 DEF EmptyMemory, TaskType, CmdType
  <2>4. SignalType' /\ TurnType' /\ JobType'
      BY <1>1 DEF EmptyMemory, SignalType, TurnType, TurnRows, JobType
  <2>5. AppType' /\ now' \in 0 .. MaxTime
      BY <1>1 DEF AppType, CtlInv
  <2>6. QED BY <2>3, <2>4, <2>5 DEF MemType
<1>4. ASSUME NEW r \in Runs PROVE TaskOK(r)' /\ RowOK(r)'
  <2>1. TaskOK(r)'
      BY <1>2 DEF TaskOK, Asleep, At, Early, Closed
  <2>2. Quiet(r) => Quiet(r)'
      BY <1>1, <1>2 DEF Quiet
  <2>3. RowOK(r)'
      BY <1>1, <2>2 DEF CtlInv, RowOK, Unsaved
  <2>4. QED BY <2>1, <2>3
<1>5. \A c \in Children : ChildOK(c)'
    BY <1>1, <1>2 DEF CtlInv, ChildOK
<1>6. \A t \in Threads : ThreadOK(t)'
    BY <1>1, <1>2 DEF ThreadOK, Idle, Starts, On, CtlInv
<1>7. /\ OneStarts' /\ NoOrphan' /\ NoGrantOutlivesTask'
      /\ RegisteredIsSignalled' /\ SoleIsRegistered' /\ ExitIdle'
    BY <1>1, <1>2 DEF OneStarts, NoOrphan, NoGrantOutlivesTask, RegisteredIsSignalled, At,
       SoleIsRegistered, ExitIdle, On, Asleep, Idle, Starts
<1>8. QED BY <1>3, <1>4, <1>5, <1>6, <1>7 DEF CtlInv

-----------------------------------------------------------------------------
(* The invariant, for every step *)

LEMMA InitCtl == Init => CtlInv
<1> SUFFICES ASSUME Init PROVE CtlInv
    OBVIOUS
<1>1. /\ \A r \in Runs : run[r] = NoRun /\ synth[r] = NoSynth /\ task[r] = Asleep
      /\ \A c \in Children : child[c] = NoChild /\ job[c] = "none"
      /\ \A t \in Threads : cmd[t] = Idle
      /\ now = 0 /\ app = "up" /\ active = 0 /\ grant = {} /\ token = {}
    BY DEF Init, StoreInit
<1>2. MemType /\ now \in 0 .. MaxTime
  <2>1. Asleep \in TaskRows
      BY DEF Asleep, TaskRows, TaskPc
  <2>2. Idle \in CmdRows
      BY DEF Idle, CmdRows, CmdPc
  <2>3. TaskType /\ CmdType
      BY <2>1, <2>2 DEF Init, TaskType, CmdType
  <2>4. SignalType /\ TurnType /\ JobType
      BY DEF Init, SignalType, TurnType, TurnRows, JobType
  <2>5. used \in UsedRows
      BY DEF Init, UsedRows
  <2>6. QED BY <1>1, <2>3, <2>4, <2>5 DEF MemType, AppType
<1>3. \A r \in Runs : TaskOK(r) /\ RowOK(r)
    BY <1>1 DEF TaskOK, RowOK, Asleep, At, Early, Closed, NoRun, NoSynth, Unsaved
<1>4. \A c \in Children : ChildOK(c)
    BY <1>1 DEF ChildOK, NoChild
<1>5. \A t \in Threads : ThreadOK(t)
    BY <1>1 DEF ThreadOK, Idle, Starts, On
<1>6. /\ OneStarts /\ NoOrphan /\ NoGrantOutlivesTask
      /\ RegisteredIsSignalled /\ SoleIsRegistered /\ ExitIdle
    BY <1>1 DEF OneStarts, NoOrphan, NoGrantOutlivesTask, RegisteredIsSignalled, At,
       SoleIsRegistered, ExitIdle, On, Asleep, Idle, Starts, NoRun, IsActive, Active, Admitted, Working
<1>7. QED BY <1>2, <1>3, <1>4, <1>5, <1>6 DEF CtlInv

LEMMA ThreadKeeps ==
    ASSUME Inv, CtlInv, NEW t \in Threads, Thread(t)
    PROVE  CtlInv'
BY ThreadOnlyMovesKeep, HarnessThreadKeeps, CreateKeeps, ConfigureKeeps, FailStartKeeps, SpawnKeeps,
   CancelThreadKeeps, ExitThreadKeeps, DownKeeps DEF Thread

LEMMA EnvironmentKeeps ==
    ASSUME Inv, CtlInv, Environment
    PROVE  CtlInv'
<1>1. CASE SchedulerTick
    BY <1>1, HarnessThreadKeeps
<1>2. CASE ~SchedulerTick
    BY <1>2, CommandsKeep, BystandersKeep, DownKeeps DEF Environment
<1>3. QED BY <1>1, <1>2

LEMMA StutterKeeps ==
    ASSUME CtlInv, UNCHANGED vars
    PROVE  CtlInv'
<1>1. /\ UNCHANGED <<run, synth, child, now>>
      /\ UNCHANGED <<app, used, task, active, token, grant, turn, call, job, jobToken, cmd>>
    BY DEF vars, storeVars, memVars
<1>2. /\ used \in UsedRows /\ now \in 0 .. MaxTime /\ now <= now
      /\ TurnType' /\ jobToken' \subseteq Children
    BY <1>1 DEF CtlInv, MemType, AppType, TurnType, JobType
<1>3. QED BY <1>1, <1>2, PapersDrift, BystanderKeeps

LEMMA NextCtl ==
    ASSUME Inv, CtlInv, [Next]_vars
    PROVE  CtlInv'
<1>1. CASE \E c \in Children : Job(c)
    BY <1>1, JobKeeps DEF Job
<1>2. CASE ~ \E c \in Children : Job(c)
    BY <1>2, ThreadKeeps, ExecuteKeeps, AgentKeeps, EnvironmentKeeps, StutterKeeps DEF Next
<1>3. QED BY <1>1, <1>2

-----------------------------------------------------------------------------
(* Every step is a transaction of the store, and complies with what StoreSpec *)
(* asks of its caller                                                         *)

LEMMA RunTransaction ==
    ASSUME NEW r \in Runs, RunStep(r)
    PROVE  StoreNext
BY DEF StoreNext

LEMMA SignalIsStore ==
    ASSUME NEW r, SignalChildren(r)
    PROVE  StoreNext
<1>1. Unfinished(r) \in SUBSET Children /\ CancelChildren(Unfinished(r))
    BY DEF SignalChildren, Unfinished, ChildrenOf
<1>2. QED BY <1>1 DEF StoreNext, ProjectStep

\* A scheduled Run is created for an occurrence that is over; a start is failed
\* only if its Run has failed already.
LEMMA ThreadIsStore ==
    ASSUME Inv, CtlInv, NEW t \in Threads, Thread(t)
    PROVE  [StoreNext]_storeVars
<1>1. CASE Create(t)
  <2>1. cmd[t].due \in 0 .. now
    <3>1. cmd[t].due \in 0 .. MaxTime /\ cmd[t].due <= now /\ now \in Nat
        BY DEF CtlInv, MemType, CmdType, CmdRows, ThreadOK
    <3>2. QED BY <3>1
  <2>2. CASE \E r \in Runs : CreateRun(r, cmd[t].due)
      BY <2>1, <2>2, RunTransaction DEF RunStep
  <2>3. CASE UNCHANGED storeVars
      BY <2>3
  <2>4. QED BY <1>1, <2>2, <2>3 DEF Create
<1>2. CASE Configure(t) \/ FailStart(t)
  <2>1. cmd[t].run \in Runs /\ (On(t, "fail") => run[cmd[t].run].status = "failed")
      BY <1>2, StartsAlone DEF Configure, FailStart, On, Starts
  <2>2. CASE ConfigureRun(cmd[t].run)
      BY <2>1, <2>2, RunTransaction DEF RunStep
  <2>3. CASE FailStart(t)
      BY <2>1, <2>3, RunTransaction DEF FailStart, RunStep
  <2>4. QED BY <1>2, <2>2, <2>3 DEF Configure
<1>3. CASE Halt(t) \/ Stop(t)
    BY <1>3 DEF Halt, Stop, StoreNext, ProjectStep
<1>4. CASE Cancel(t)
  <2>1. CASE \E r \in Runs : RequestCancel(r)
      BY <2>1, RunTransaction DEF RunStep
  <2>2. QED BY <1>4, <2>1 DEF Cancel
<1>5. CASE Signal(t)
    BY <1>5, SignalIsStore DEF Signal
<1>6. CASE RecoverOnExit(t)
  <2>1. CASE \E r \in Runs : FinalizeSynthesis(r)
      BY <2>1, RunTransaction DEF RunStep
  <2>2. CASE RecoverInterrupted
      BY <2>2 DEF StoreNext, ProjectStep
  <2>3. QED BY <1>6, <2>1, <2>2 DEF RecoverOnExit, RecoverPrepared
<1>7. CASE Ensure(t) \/ Spawn(t) \/ CheckStop(t) \/ Revoke(t) \/ ShutdownRuntime(t) \/ Quit(t)
    BY <1>7 DEF Ensure, Spawn, CheckStop, Revoke, ShutdownRuntime, Quit
<1>8. QED BY <1>1, <1>2, <1>3, <1>4, <1>5, <1>6, <1>7 DEF Thread

\* No attempt is saved once the synthesis has committed, and fail_harness_run
\* is not reached for a Run that has ended otherwise.
LEMMA ExecuteIsStore ==
    ASSUME Inv, CtlInv, NEW r \in Runs, Execute(r)
    PROVE  [StoreNext]_storeVars
<1>1. TaskOK(r) /\ task[r] \in TaskRows
    BY DEF CtlInv, MemType, TaskType
<1>2. CASE Attach(r) \/ Reconcile(r) \/ Commit(r)
  <2>1. CASE AttachTurn(r) \/ BeginFinalization(r) \/ FinalizeSynthesis(r)
      BY <2>1, RunTransaction DEF RunStep
  <2>2. QED BY <1>2, <2>1 DEF Attach, Reconcile, Commit
<1>3. CASE WaitDeadline(r)
  <2>1. CASE \E s \in Runs : RequestCancel(s)
      BY <2>1, RunTransaction DEF RunStep
  <2>2. QED BY <1>3, <2>1 DEF WaitDeadline
<1>4. CASE Deadline(r) \/ Settle(r) \/ ErrorSettle(r)
  <2>1. SignalChildren(task[r].closed) \/ SignalChildren(r)
      BY <1>4 DEF Deadline, Settle, ErrorSettle
  <2>2. QED BY <2>1, SignalIsStore
<1>5. CASE Save(r)
  <2>1. ~synth[r].committed /\ task[r].attempt \in {"first", "correction"}
      BY <1>1, <1>5 DEF Save, TaskOK, At, Early, Unsaved, TaskRows
  <2>2. \E p \in Proposals : SaveAttempt(r, task[r].attempt, p)
      BY <1>5 DEF Save
  <2>3. RunStep(r)
      BY <2>1, <2>2 DEF RunStep
  <2>4. QED BY <2>3, RunTransaction
<1>6. CASE Record(r)
  <2>1. (task[r].then = "commit") \in BOOLEAN /\ RecordIssues(r, task[r].then = "commit")
      BY <1>6 DEF Record
  <2>2. RunStep(r)
      BY <2>1 DEF RunStep
  <2>3. QED BY <2>2, RunTransaction
<1>7. CASE FinishOk(r) \/ FinishError(r)
  <2>1. CASE FinishRun(r, task[r].then)
    <3>1. task[r].then \in Terminal
        BY <2>1 DEF FinishRun
    <3>2. RunStep(r)
        BY <2>1, <3>1 DEF RunStep
    <3>3. QED BY <3>2, RunTransaction
  <2>2. QED BY <1>7, <2>1 DEF FinishOk, FinishError, Finish
<1>8. CASE Fail(r)
  <2>1. run[r].status \notin {"ready", "cancelled"} /\ FailRun(r)
      BY <1>1, <1>8 DEF Fail, TaskOK
  <2>2. QED BY <2>1, RunTransaction DEF RunStep
<1>9. CASE \/ Begin(r) \/ IssueGrant(r) \/ StartTurn(r) \/ WaitTurn(r) \/ WaitToken(r)
           \/ Interrupt(r) \/ Settled(r) \/ Preflight(r) \/ Correct(r) \/ Correcting(r)
           \/ Error(r) \/ ErrorSettled(r) \/ Cleanup(r) \/ Remove(r)
    BY <1>9 DEF Begin, IssueGrant, StartTurn, WaitTurn, WaitToken, Interrupt, Settled, Preflight,
       Correct, Correcting, Error, ErrorSettled, Cleanup, Remove
<1>10. QED BY <1>2, <1>3, <1>4, <1>5, <1>6, <1>7, <1>8, <1>9 DEF Execute

LEMMA AgentIsStore ==
    ASSUME NEW r \in Runs, Agent(r)
    PROVE  [StoreNext]_storeVars
<1>1. CASE TurnEnds(r) \/ WaitLagged(r) \/ BeginCall(r) \/ Enqueue(r) \/ CallReturns(r)
    BY <1>1 DEF TurnEnds, WaitLagged, BeginCall, Enqueue, CallReturns
<1>2. CASE SearchStart(r)
    BY <1>2, RunTransaction DEF SearchStart, RunStep
<1>3. CASE SearchCancel(r)
  <2>1. PICK c \in Unfinished(r) : CancelChildren({c})
      BY <1>3 DEF SearchCancel
  <2>2. {c} \in SUBSET Children
      BY DEF Unfinished, ChildrenOf
  <2>3. QED BY <2>1, <2>2 DEF StoreNext, ProjectStep
<1>4. CASE VaultAddPaper(r) \/ ReaderRead(r)
    BY <1>4, RunTransaction DEF VaultAddPaper, ReaderRead, RunStep
<1>5. QED BY <1>1, <1>2, <1>3, <1>4 DEF Agent

LEMMA JobIsStore ==
    ASSUME NEW c \in Children, Job(c)
    PROVE  [StoreNext]_storeVars
<1>1. \E s \in ActiveChild \cup Terminal : SetChildStatus(c, s)
    BY DEF Job, JobStart, JobEnd, ActiveChild, Terminal
<1>2. QED BY <1>1 DEF StoreNext, ProjectStep

LEMMA EnvironmentIsStore ==
    ASSUME Environment
    PROVE  [StoreNext]_storeVars
<1>1. CASE SchedulerTick \/ ControlHarness \/ Tick
    BY <1>1 DEF SchedulerTick, ControlHarness, Tick, StoreNext, ProjectStep
<1>2. CASE Edit
    BY <1>2 DEF Edit, StoreNext, ProjectStep
<1>3. CASE Restart
    BY <1>3, RunTransaction DEF Restart, RecoverPrepared, RunStep
<1>4. CASE Recover
    BY <1>4 DEF Recover, StoreNext, ProjectStep
<1>5. CASE RunProjectResearch \/ CancelProjectResearch \/ StopResearchHarness \/ CodexExits
           \/ ExitRequested \/ Crash
    BY <1>5 DEF RunProjectResearch, CancelProjectResearch, StopResearchHarness, CodexExits,
       ExitRequested, Crash
<1>6. QED BY <1>1, <1>2, <1>3, <1>4, <1>5 DEF Environment

LEMMA StepIsStore ==
    ASSUME Inv, CtlInv, [Next]_vars
    PROVE  [StoreNext]_storeVars
<1>1. CASE UNCHANGED vars
    BY <1>1 DEF vars
<1>2. CASE Next
    BY <1>2, ThreadIsStore, ExecuteIsStore, AgentIsStore, JobIsStore, EnvironmentIsStore DEF Next
<1>3. QED BY <1>1, <1>2

-----------------------------------------------------------------------------
(* What holds of the controller *)

LEMMA SpecInv == Spec => [](Inv /\ CtlInv)
<1>1. Init => Inv /\ CtlInv
    BY InitInv, InitCtl DEF Init
<1>2. Inv /\ CtlInv /\ [Next]_vars => Inv' /\ CtlInv'
    BY NextCtl, StepIsStore, NextInv
<1>3. QED BY <1>1, <1>2, PTL DEF Spec

\* Every step of controller.rs, of the agents' tools and of the jobs is one
\* transaction of the store or none, made in a state the store allows it in:
\* no interleaving, crash or restart makes the controller break the rules that
\* StoreSpec leaves to its caller (an attempt saved after the commit, a Run
\* failed after it has ended ready or cancelled).
THEOREM ControllerImplementsStore == Spec => ImplementsStore
<1>1. Init => StoreInit
    BY DEF Init
<1>2. Inv /\ CtlInv /\ [Next]_vars => [StoreNext]_storeVars
    BY StepIsStore
<1>3. QED BY <1>1, <1>2, SpecInv, PTL DEF Spec, ImplementsStore, StoreSpec

\* Hence the controller keeps the lifecycle's promise too.
THEOREM ControllerImplementsLifecycle == Spec => ImplementsLifecycle
BY ControllerImplementsStore, StoreImplementsLifecycle, PTL DEF ImplementsStore

\* The memory of the controller stays well formed, whatever it forgets in a crash.
THEOREM ResearchRunTypeCorrect == Spec => []ResearchRunTypeOK
<1>1. Inv /\ CtlInv => ResearchRunTypeOK
  <2> SUFFICES ASSUME Inv, CtlInv PROVE ResearchRunTypeOK
      OBVIOUS
  <2>1. StoreTypeOK /\ MemType
      BY DEF Inv, CtlInv
  <2>2. QED BY <2>1 DEF ResearchRunTypeOK, MemType, AppType, TaskType, SignalType, TurnType,
           JobType, CmdType, TaskRows, TurnRows, CmdRows, UsedRows
<1>2. QED BY <1>1, SpecInv, PTL

\* While the application is up, every active Run has a thread that is about to
\* start it or a task that has yet to end it (start, execute).
THEOREM NoOrphanRunHolds == Spec => []NoOrphanRun
<1>1. CtlInv => NoOrphanRun
    BY DEF CtlInv, NoOrphan, NoOrphanRun
<1>2. QED BY <1>1, SpecInv, PTL

\* Every way out of execute revokes the Run's MCP grant before the task is over.
THEOREM NoGrantOutlivesTaskHolds == Spec => []NoGrantOutlivesTask
<1>1. CtlInv => NoGrantOutlivesTask
    BY DEF CtlInv
<1>2. QED BY <1>1, SpecInv, PTL

\* A Run that ended ready or cancelled has no unfinished child Search, and none
\* comes back to life: not through a search_start or an enqueue in flight, nor
\* through a job that starts late.
THEOREM ChildrenSettledHolds == Spec => []ChildrenSettled
<1>1. CtlInv => ChildrenSettled
    BY DEF CtlInv, RowOK, Quiet, ChildrenSettled, HasActiveChild
<1>2. QED BY <1>1, SpecInv, PTL

\* Close one managed Run to new work and interrupt its active workers: the task
\* that waits for the turn of the registered Run gets its signal.
THEOREM RegisteredIsSignalledHolds == Spec => []RegisteredIsSignalled
<1>1. CtlInv => RegisteredIsSignalled
    BY DEF CtlInv
<1>2. QED BY <1>1, SpecInv, PTL

\* While no second Run can start, the task of a cancelled Run is signalled: it
\* takes another Run's task to unregister it.
THEOREM CanceledRunIsSignalledHolds ==
    ASSUME MaxRuns = 1
    PROVE  Spec => []CanceledRunIsSignalled
<1>1. CtlInv => CanceledRunIsSignalled
    BY DEF CtlInv, RegisteredIsSignalled, SoleIsRegistered, CanceledRunIsSignalled, At
<1>2. QED BY <1>1, SpecInv, PTL

=============================================================================
