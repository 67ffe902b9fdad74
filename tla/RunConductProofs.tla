---------------------------- MODULE RunConductProofs ----------------------------
(***************************************************************************)
(* How execute goes about its Run: what it asks of the store the store can *)
(* do, and every step brings it nearer to its end.                         *)
(***************************************************************************)
EXTENDS ResearchRunProofs

Unattempted == {"none", "begin", "grant", "turn", "attach", "wait", "deadline", "interrupt",
                "settle", "settling", "reconcile"}

\* What a task has done of its synthesis so far, and what it has resolved to do.
ConductOK(r) ==
    /\ ~At(r, "none") => run[r].codex
    /\ run[r].status = "none" => synth[r].attempt = "none"
    /\ task[r].pc \in Unattempted => task[r].attempt = "first"
    /\ task[r].pc \in Unattempted \ {"none"} => synth[r].attempt = "none"
    /\ At(r, "save") =>
          synth[r].attempt = (IF task[r].attempt = "first" THEN "none" ELSE "first")
    /\ task[r].pc \in {"preflight", "record"} => synth[r].attempt = task[r].attempt
    /\ task[r].pc \in {"correct", "correcting"} =>
          task[r].attempt = "first" /\ synth[r].attempt = "first"
    /\ At(r, "record") /\ task[r].then = "correct" => task[r].attempt = "first"
    /\ task[r].pc \in {"settle", "settling", "finish"} => task[r].then \in Terminal
    /\ task[r].pc \in {"errorSettle", "errorSettling", "errorFinish"} =>
          task[r].then \in {"cancelled", "failed"}
    /\ At(r, "finish") /\ task[r].then = "ready" => synth[r].committed

\* And a start: the Run it spawns is managed, and nothing has been saved for it.
StartOK(t) ==
    cmd[t].pc \in Starts =>
        /\ synth[cmd[t].run].attempt = "none"
        /\ On(t, "spawn") => run[cmd[t].run].codex

Conduct == (\A r \in Runs : ConductOK(r)) /\ (\A t \in Threads : StartOK(t))

-----------------------------------------------------------------------------
(* What all transactions but save_synthesis_attempt leave of a Run *)

RowKept(r) ==
    /\ synth'[r].attempt = synth[r].attempt
    /\ synth[r].committed => synth'[r].committed
    /\ run'[r].status = "none" => run[r].status = "none"
    /\ run[r].status # "none" /\ run[r].codex => run'[r].codex

RowsKept == \A r \in Runs : RowKept(r)

LEMMA UnwrittenKept ==
    ASSUME UNCHANGED <<run, synth>>
    PROVE  RowsKept
BY DEF RowsKept, RowKept

LEMMA StatusKept ==
    ASSUME run \in [Runs -> RunRows], NEW r \in Runs, NEW status, status # "none",
           SetStatus(r, status), UNCHANGED synth
    PROVE  RowsKept
BY DEF RowsKept, RowKept, SetStatus, RunRows

LEMMA StartKept ==
    ASSUME run \in [Runs -> RunRows], NEW r \in Runs,
           ConfigureRun(r) \/ \E due \in Nat : CreateRun(r, due)
    PROVE  RowsKept
BY DEF RowsKept, RowKept, ConfigureRun, CreateRun, IsNext, NoRun, RunRows

LEMMA TurnKept ==
    ASSUME run \in [Runs -> RunRows], NEW r \in Runs,
           \/ AttachTurn(r) \/ RequestCancel(r) \/ BeginFinalization(r) \/ FailRun(r)
           \/ \E s \in Terminal : FinishRun(r, s)
    PROVE  RowsKept
<1>1. UNCHANGED synth /\ \E s \in Active \cup Terminal : SetStatus(r, s)
    BY DEF AttachTurn, RequestCancel, BeginFinalization, FailRun, FinishRun, Active, Terminal,
       Admitted, Working
<1>2. QED BY <1>1, StatusKept DEF Active, Terminal, Admitted, Working

LEMMA SynthesisKept ==
    ASSUME run \in [Runs -> RunRows], synth \in [Runs -> SynthRows], NEW r \in Runs,
           FinalizeSynthesis(r) \/ \E b \in BOOLEAN : RecordIssues(r, b)
    PROVE  RowsKept
<1>1. CASE FinalizeSynthesis(r)
    BY <1>1 DEF RowsKept, RowKept, FinalizeSynthesis, SetStatus, RunRows, SynthRows
<1>2. CASE \E b \in BOOLEAN : RecordIssues(r, b)
    BY <1>2 DEF RowsKept, RowKept, RecordIssues, SynthRows
<1>3. QED BY <1>1, <1>2

LEMMA PapersKept ==
    ASSUME run \in [Runs -> RunRows], NEW p,
           DeletePaper(p) \/ \E r \in Runs : AddPaper(r, p) \/ ReadPaper(r, p)
    PROVE  RowsKept
<1>1. CASE DeletePaper(p)
    BY <1>1 DEF RowsKept, RowKept, DeletePaper, RunRows
<1>2. CASE \E r \in Runs : AddPaper(r, p)
    BY <1>2 DEF RowsKept, RowKept, AddPaper, RunRows
<1>3. CASE \E r \in Runs : ReadPaper(r, p)
    BY <1>3 DEF RowsKept, RowKept, ReadPaper, RunRows
<1>4. QED BY <1>1, <1>2, <1>3

LEMMA ChildrenKept ==
    ASSUME \/ \E S \in SUBSET Children : CancelChildren(S)
           \/ \E c \in Children, r \in Runs : CreateChild(c, r)
           \/ \E c \in Children, s \in ActiveChild \cup Terminal : SetChildStatus(c, s)
    PROVE  RowsKept
BY UnwrittenKept DEF CancelChildren, CreateChild, SetChildStatus

LEMMA HarnessKept ==
    ASSUME \/ \E b \in BOOLEAN : SaveConfiguration(b)
           \/ PauseHarness \/ ResumeHarness \/ StopHarness \/ HaltHarness \/ ClaimDue
           \/ EditState \/ ClockTick \/ \E p : EditVault(p)
    PROVE  RowsKept
BY UnwrittenKept DEF SaveConfiguration, PauseHarness, ResumeHarness, StopHarness, HaltHarness,
   ClaimDue, SetHarness, EditState, ClockTick, EditVault

LEMMA RecoveryKept ==
    ASSUME run \in [Runs -> RunRows], RecoverInterrupted
    PROVE  RowsKept
BY DEF RowsKept, RowKept, RecoverInterrupted, RunRows, IsActive, Active, Admitted, Working

LEMMA SignalKept ==
    ASSUME NEW r, SignalChildren(r)
    PROVE  RowsKept
BY UnwrittenKept DEF SignalChildren, CancelChildren

-----------------------------------------------------------------------------
(* Whoever steps, the rows of the Runs are kept, but for the attempt that a *)
(* task saves                                                               *)

LEMMA RowTypesHold ==
    ASSUME Inv
    PROVE  run \in [Runs -> RunRows] /\ synth \in [Runs -> SynthRows]
BY DEF Inv, StoreTypeOK

LEMMA TaskKeepsRows ==
    ASSUME Inv, NEW r \in Runs, Execute(r), ~Save(r)
    PROVE  RowsKept
<1> USE RowTypesHold
<1>1. CASE Attach(r)
    BY <1>1, TurnKept, UnwrittenKept DEF Attach, storeVars
<1>2. CASE WaitDeadline(r)
    BY <1>2, TurnKept, UnwrittenKept DEF WaitDeadline, storeVars
<1>3. CASE Deadline(r) \/ Settle(r) \/ ErrorSettle(r)
    BY <1>3, SignalKept DEF Deadline, Settle, ErrorSettle
<1>4. CASE Reconcile(r)
    BY <1>4, TurnKept, UnwrittenKept DEF Reconcile, storeVars
<1>5. CASE Record(r)
  <2>1. (task[r].then = "commit") \in BOOLEAN /\ RecordIssues(r, task[r].then = "commit")
      BY <1>5 DEF Record
  <2>2. QED BY <2>1, SynthesisKept
<1>6. CASE Commit(r)
    BY <1>6, SynthesisKept, UnwrittenKept DEF Commit, storeVars
<1>7. CASE FinishOk(r) \/ FinishError(r)
  <2>1. CASE FinishRun(r, task[r].then)
      BY <2>1, TurnKept DEF FinishRun
  <2>2. CASE UNCHANGED storeVars
      BY <2>2, UnwrittenKept DEF storeVars
  <2>3. QED BY <1>7, <2>1, <2>2 DEF FinishOk, FinishError, Finish
<1>8. CASE Fail(r)
    BY <1>8, TurnKept DEF Fail
<1>9. CASE \/ Begin(r) \/ IssueGrant(r) \/ StartTurn(r) \/ WaitTurn(r) \/ WaitToken(r)
           \/ Interrupt(r) \/ Settled(r) \/ Preflight(r) \/ Correct(r) \/ Correcting(r)
           \/ Error(r) \/ ErrorSettled(r) \/ Cleanup(r) \/ Remove(r)
  <2>1. UNCHANGED storeVars
      BY <1>9 DEF Begin, IssueGrant, StartTurn, WaitTurn, WaitToken, Interrupt, Settled, Preflight,
         Correct, Correcting, Error, ErrorSettled, Cleanup, Remove
  <2>2. QED BY <2>1, UnwrittenKept DEF storeVars
<1>10. QED
    BY <1>1, <1>2, <1>3, <1>4, <1>5, <1>6, <1>7, <1>8, <1>9 DEF Execute

LEMMA ThreadKeepsRows ==
    ASSUME Inv, CtlInv, NEW t \in Threads, Thread(t)
    PROVE  RowsKept
<1> USE RowTypesHold
<1>1. CASE Create(t)
  <2>1. cmd[t].due \in Nat
      BY DEF CtlInv, MemType, CmdType, CmdRows
  <2>2. CASE \E r \in Runs : CreateRun(r, cmd[t].due)
      BY <2>1, <2>2, StartKept
  <2>3. CASE UNCHANGED storeVars
      BY <2>3, UnwrittenKept DEF storeVars
  <2>4. QED BY <1>1, <2>2, <2>3 DEF Create
<1>2. CASE Configure(t) \/ FailStart(t)
  <2>1. cmd[t].run \in Runs
      BY <1>2, StartsAlone DEF Configure, FailStart, On, Starts
  <2>2. CASE UNCHANGED storeVars
      BY <2>2, UnwrittenKept DEF storeVars
  <2>3. QED BY <1>2, <2>1, <2>2, StartKept, TurnKept DEF Configure, FailStart
<1>3. CASE Halt(t) \/ Stop(t)
    BY <1>3, HarnessKept DEF Halt, Stop
<1>4. CASE Cancel(t)
    BY <1>4, TurnKept, UnwrittenKept DEF Cancel, storeVars
<1>5. CASE Signal(t)
    BY <1>5, SignalKept DEF Signal
<1>6. CASE RecoverOnExit(t)
  <2>1. CASE UNCHANGED storeVars
      BY <2>1, UnwrittenKept DEF storeVars
  <2>2. QED BY <1>6, <2>1, SynthesisKept, RecoveryKept DEF RecoverOnExit, RecoverPrepared
<1>7. CASE Ensure(t) \/ Spawn(t) \/ CheckStop(t) \/ Revoke(t) \/ ShutdownRuntime(t) \/ Quit(t)
  <2>1. UNCHANGED storeVars
      BY <1>7 DEF Ensure, Spawn, CheckStop, Revoke, ShutdownRuntime, Quit
  <2>2. QED BY <2>1, UnwrittenKept DEF storeVars
<1>8. QED BY <1>1, <1>2, <1>3, <1>4, <1>5, <1>6, <1>7 DEF Thread

LEMMA AgentKeepsRows ==
    ASSUME Inv, NEW r \in Runs, Agent(r)
    PROVE  RowsKept
<1> USE RowTypesHold
<1>1. CASE TurnEnds(r) \/ WaitLagged(r) \/ BeginCall(r) \/ Enqueue(r) \/ CallReturns(r)
  <2>1. UNCHANGED storeVars
      BY <1>1 DEF TurnEnds, WaitLagged, BeginCall, Enqueue, CallReturns
  <2>2. QED BY <2>1, UnwrittenKept DEF storeVars
<1>2. CASE SearchStart(r)
    BY <1>2, ChildrenKept DEF SearchStart
<1>3. CASE SearchCancel(r)
  <2>1. PICK c \in Unfinished(r) : CancelChildren({c})
      BY <1>3 DEF SearchCancel
  <2>2. {c} \in SUBSET Children
      BY DEF Unfinished, ChildrenOf
  <2>3. QED BY <2>1, <2>2, ChildrenKept
<1>4. CASE VaultAddPaper(r) \/ ReaderRead(r)
    BY <1>4, PapersKept DEF VaultAddPaper, ReaderRead
<1>5. QED BY <1>1, <1>2, <1>3, <1>4 DEF Agent

LEMMA JobKeepsRows ==
    ASSUME NEW c \in Children, Job(c)
    PROVE  RowsKept
<1>1. \E s \in ActiveChild \cup Terminal : SetChildStatus(c, s)
    BY DEF Job, JobStart, JobEnd, ActiveChild, Terminal
<1>2. QED BY <1>1, ChildrenKept

LEMMA EnvironmentKeepsRows ==
    ASSUME Inv, Environment
    PROVE  RowsKept
<1> USE RowTypesHold
<1>1. CASE SchedulerTick \/ ControlHarness \/ Tick
    BY <1>1, HarnessKept DEF SchedulerTick, ControlHarness, Tick
<1>2. CASE Edit
    BY <1>2, HarnessKept, PapersKept DEF Edit
<1>3. CASE Restart
    BY <1>3, SynthesisKept, UnwrittenKept DEF Restart, RecoverPrepared, storeVars
<1>4. CASE Recover
    BY <1>4, RecoveryKept DEF Recover
<1>5. CASE RunProjectResearch \/ CancelProjectResearch \/ StopResearchHarness \/ CodexExits
           \/ ExitRequested \/ Crash
  <2>1. UNCHANGED storeVars
      BY <1>5 DEF RunProjectResearch, CancelProjectResearch, StopResearchHarness, CodexExits,
         ExitRequested, Crash
  <2>2. QED BY <2>1, UnwrittenKept DEF storeVars
<1>6. QED BY <1>1, <1>2, <1>3, <1>4, <1>5 DEF Environment

-----------------------------------------------------------------------------
(* Nearer to the end *)

LEMMA StepsAre ==
    /\ StepsLeft.begin = 24 /\ StepsLeft.grant = 23 /\ StepsLeft.turn = 22
    /\ StepsLeft.attach = 21 /\ StepsLeft.wait = 20 /\ StepsLeft.deadline = 19
    /\ StepsLeft.interrupt = 18 /\ StepsLeft.settle = 17 /\ StepsLeft.settling = 16
    /\ StepsLeft.reconcile = 15 /\ StepsLeft.save = 14 /\ StepsLeft.preflight = 13
    /\ StepsLeft.record = 12 /\ StepsLeft.correct = 11 /\ StepsLeft.correcting = 10
    /\ StepsLeft.commit = 9 /\ StepsLeft.finish = 8 /\ StepsLeft.error = 7
    /\ StepsLeft.errorSettle = 6 /\ StepsLeft.errorSettling = 5 /\ StepsLeft.errorFinish = 4
    /\ StepsLeft.fail = 3 /\ StepsLeft.cleanup = 2 /\ StepsLeft.remove = 1
BY DEF StepsLeft

LEMMA RankFalls ==
    ASSUME NEW r \in Runs, task[r].pc \notin {"none", "done"}, task'[r].pc \notin {"none", "done"},
           task'[r].attempt = task[r].attempt,
           StepsLeft[task[r].pc] \in Nat, StepsLeft[task'[r].pc] \in Nat,
           StepsLeft[task'[r].pc] < StepsLeft[task[r].pc]
    PROVE  Rank(r)' < Rank(r)
BY DEF Rank, StepsLeft

\* The task alone moves, and moves on.
Advances(r) ==
    /\ \A s \in Runs : s # r => task'[s] = task[s]
    /\ UNCHANGED cmd
    /\ ConductOK(r)'
    /\ Rank(r)' < Rank(r)

\* A step of a task from one place to another.
Passes(r, from, to) ==
    /\ \A s \in Runs : s # r => task'[s] = task[s]
    /\ UNCHANGED cmd
    /\ task[r].pc = from /\ task'[r].pc = to
    /\ task'[r].attempt = task[r].attempt

LEMMA GotoPasses ==
    ASSUME CtlInv, NEW r \in Runs, NEW pc \in TaskPc, Goto(r, pc), UNCHANGED cmd
    PROVE  Passes(r, task[r].pc, pc) /\ task'[r].then = task[r].then
BY GotoKeeps DEF CtlInv, MemType, Passes

LEMMA GotoThenPasses ==
    ASSUME CtlInv, NEW r \in Runs, NEW pc \in TaskPc,
           NEW then \in {"none", "ready", "cancelled", "failed", "commit", "correct", "error"},
           GotoThen(r, pc, then), UNCHANGED cmd
    PROVE  Passes(r, task[r].pc, pc) /\ task'[r].then = then
BY GotoThenKeeps DEF CtlInv, MemType, Passes

LEMMA TurnAdvances ==
    ASSUME Inv, CtlInv, Conduct, NEW r \in Runs,
           \/ Begin(r) \/ IssueGrant(r) \/ StartTurn(r) \/ Attach(r)
           \/ WaitTurn(r) \/ WaitLagged(r) \/ WaitToken(r) \/ Interrupt(r)
    PROVE  Advances(r)
<1>1. RowKept(r) /\ ConductOK(r) /\ TaskOK(r)
  <2>1. RowsKept
      BY TaskKeepsRows, AgentKeepsRows DEF Execute, Agent, Save, At, Begin, IssueGrant, StartTurn,
         Attach, WaitTurn, WaitToken, Interrupt
  <2>2. QED BY <2>1 DEF RowsKept, Conduct, CtlInv
<1>2. UNCHANGED cmd
    BY DEF Begin, IssueGrant, StartTurn, Attach, WaitTurn, WaitLagged, WaitToken, Interrupt
<1>3. \/ At(r, "begin") /\ (Goto(r, "grant") \/ GotoThen(r, "settle", "cancelled"))
      \/ At(r, "grant") /\ Goto(r, "turn")
      \/ At(r, "turn") /\ (Goto(r, "attach") \/ Goto(r, "error"))
      \/ At(r, "attach") /\ (Goto(r, "wait") \/ Goto(r, "error"))
      \/ /\ task[r].pc \in {"wait", "interrupt"}
         /\ \/ Goto(r, "error")
            \/ \E then \in Terminal : GotoThen(r, "settle", then)
    BY DEF Begin, IssueGrant, StartTurn, Attach, WaitTurn, WaitLagged, WaitToken, Interrupt, At,
       Terminal
<1>4. \/ Passes(r, "begin", "grant") \/ Passes(r, "grant", "turn") \/ Passes(r, "turn", "attach")
      \/ Passes(r, "attach", "wait")
      \/ \E from \in {"turn", "attach", "wait", "interrupt"} : Passes(r, from, "error")
      \/ \E from \in {"begin", "wait", "interrupt"} :
            Passes(r, from, "settle") /\ task'[r].then \in Terminal
    BY <1>2, <1>3, GotoPasses, GotoThenPasses DEF TaskPc, At, Terminal
<1>5. ConductOK(r)'
    BY <1>1, <1>4 DEF Passes, ConductOK, RowKept, TaskOK, At, Unattempted
<1>6. Rank(r)' < Rank(r)
    BY <1>4, StepsAre, RankFalls DEF Passes
<1>7. QED BY <1>4, <1>5, <1>6 DEF Advances, Passes

LEMMA CloseAdvances ==
    ASSUME Inv, CtlInv, Conduct, NEW r \in Runs, WaitDeadline(r) \/ Deadline(r)
    PROVE  Advances(r)
<1>1. RowKept(r) /\ ConductOK(r) /\ TaskOK(r)
  <2>1. RowsKept
      BY TaskKeepsRows DEF Execute, Save, At, WaitDeadline, Deadline
  <2>2. QED BY <2>1 DEF RowsKept, Conduct, CtlInv
<1>2. \/ Passes(r, "wait", "deadline") \/ Passes(r, "wait", "interrupt")
      \/ Passes(r, "deadline", "interrupt")
  <2>1. task \in [Runs -> TaskRows]
      BY DEF CtlInv, MemType, TaskType
  <2>2. CASE WaitDeadline(r) /\ \E s \in Runs : task' = [task EXCEPT ![r].pc = "deadline", ![r].closed = s]
      BY <2>1, <2>2 DEF WaitDeadline, Passes, At, TaskRows
  <2>3. CASE WaitDeadline(r) /\ Goto(r, "interrupt")
      BY <2>3, GotoPasses DEF WaitDeadline, At, TaskPc
  <2>4. CASE Deadline(r)
      BY <2>1, <2>4 DEF Deadline, Passes, At, TaskRows
  <2>5. QED BY <2>2, <2>3, <2>4 DEF WaitDeadline
<1>3. ConductOK(r)'
    BY <1>1, <1>2 DEF Passes, ConductOK, RowKept, TaskOK, At, Unattempted
<1>4. Rank(r)' < Rank(r)
    BY <1>2, StepsAre, RankFalls DEF Passes
<1>5. QED BY <1>2, <1>3, <1>4 DEF Advances, Passes

LEMMA SettleAdvances ==
    ASSUME Inv, CtlInv, Conduct, NEW r \in Runs, Settle(r) \/ Settled(r) \/ Reconcile(r)
    PROVE  Advances(r)
<1>1. RowKept(r) /\ ConductOK(r) /\ TaskOK(r)
  <2>1. RowsKept
      BY TaskKeepsRows DEF Execute, Save, At, Settle, Settled, Reconcile
  <2>2. QED BY <2>1 DEF RowsKept, Conduct, CtlInv
<1>2. UNCHANGED cmd
    BY DEF Settle, Settled, Reconcile
<1>3. \/ At(r, "settle") /\ Goto(r, "settling")
      \/ /\ At(r, "settling")
         /\ \/ task[r].then = "ready" /\ Goto(r, "reconcile")
            \/ task[r].then # "ready" /\ Goto(r, "finish")
            \/ Goto(r, "error")
      \/ At(r, "reconcile") /\ (Goto(r, "save") \/ Goto(r, "error"))
    BY DEF Settle, Settled, Reconcile, At
<1>4. /\ task'[r].then = task[r].then
      /\ \/ Passes(r, "settle", "settling")
         \/ Passes(r, "settling", "reconcile")
         \/ task[r].then # "ready" /\ Passes(r, "settling", "finish")
         \/ Passes(r, "settling", "error")
         \/ Passes(r, "reconcile", "save") \/ Passes(r, "reconcile", "error")
    BY <1>2, <1>3, GotoPasses DEF TaskPc, At
<1>5. ConductOK(r)'
    BY <1>1, <1>4 DEF Passes, ConductOK, RowKept, TaskOK, At, Unattempted
<1>6. Rank(r)' < Rank(r)
    BY <1>4, StepsAre, RankFalls DEF Passes
<1>7. QED BY <1>4, <1>5, <1>6 DEF Advances, Passes

\* Only the task itself saves an attempt of its Run.
LEMMA SaveWrites ==
    ASSUME Inv, NEW r \in Runs, Save(r)
    PROVE  /\ UNCHANGED run
           /\ synth'[r].attempt = task[r].attempt /\ synth'[r].committed = synth[r].committed
           /\ \A s \in Runs : s # r => synth'[s] = synth[s]
<1>1. PICK p \in Proposals : SaveAttempt(r, task[r].attempt, p)
    BY DEF Save
<1>2. QED BY <1>1, RowTypesHold DEF SaveAttempt

LEMMA AttemptAdvances ==
    ASSUME Inv, CtlInv, Conduct, NEW r \in Runs, Save(r) \/ Preflight(r)
    PROVE  Advances(r)
<1>1. ConductOK(r) /\ TaskOK(r)
    BY DEF Conduct, CtlInv
<1>2. task[r].attempt \in {"first", "correction"}
    BY DEF CtlInv, MemType, TaskType, TaskRows
<1>3. CASE Save(r)
  <2>1. UNCHANGED cmd /\ At(r, "save") /\ Goto(r, "preflight")
      BY <1>3 DEF Save
  <2>2. Passes(r, "save", "preflight")
      BY <2>1, GotoPasses DEF TaskPc, At
  <2>3. ConductOK(r)'
      BY <1>1, <1>3, <2>2, SaveWrites DEF Passes, ConductOK, TaskOK, At, Unattempted
  <2>4. Rank(r)' < Rank(r)
      BY <2>2, StepsAre, RankFalls DEF Passes
  <2>5. QED BY <2>2, <2>3, <2>4 DEF Advances, Passes
<1>4. CASE Preflight(r)
  <2>1. UNCHANGED <<cmd, run, synth>> /\ At(r, "preflight")
      BY <1>4 DEF Preflight, storeVars
  <2>2. \/ GotoThen(r, "record", "commit") \/ GotoThen(r, "record", "error")
        \/ task[r].attempt = "first" /\ GotoThen(r, "record", "correct")
      BY <1>4 DEF Preflight
  <2>3. /\ Passes(r, "preflight", "record")
        /\ task'[r].then = "correct" => task[r].attempt = "first"
      BY <2>1, <2>2, GotoThenPasses DEF TaskPc, At
  <2>4. ConductOK(r)'
      BY <1>1, <2>1, <2>3 DEF Passes, ConductOK, TaskOK, At, Unattempted
  <2>5. Rank(r)' < Rank(r)
      BY <2>3, StepsAre, RankFalls DEF Passes
  <2>6. QED BY <2>3, <2>4, <2>5 DEF Advances, Passes
<1>5. QED BY <1>3, <1>4

LEMMA RecordAdvances ==
    ASSUME Inv, CtlInv, Conduct, NEW r \in Runs, Record(r) \/ Correct(r)
    PROVE  Advances(r)
<1>1. RowKept(r) /\ ConductOK(r) /\ TaskOK(r)
  <2>1. RowsKept
      BY TaskKeepsRows DEF Execute, Save, At, Record, Correct
  <2>2. QED BY <2>1 DEF RowsKept, Conduct, CtlInv
<1>2. UNCHANGED cmd
    BY DEF Record, Correct
<1>3. \/ At(r, "record") /\ Goto(r, task[r].then)
      \/ At(r, "correct") /\ (Goto(r, "correcting") \/ Goto(r, "error"))
    BY DEF Record, Correct
<1>4. \/ \E pc \in {"commit", "correct", "error"} : pc = task[r].then /\ Passes(r, "record", pc)
      \/ Passes(r, "correct", "correcting") \/ Passes(r, "correct", "error")
    BY <1>1, <1>2, <1>3, GotoPasses DEF TaskPc, At, TaskOK
<1>5. ConductOK(r)'
    BY <1>1, <1>4 DEF Passes, ConductOK, RowKept, TaskOK, At, Unattempted
<1>6. Rank(r)' < Rank(r)
    BY <1>4, StepsAre, RankFalls DEF Passes
<1>7. QED BY <1>4, <1>5, <1>6 DEF Advances, Passes

\* The one step back: the correction is worth less than the way it has to go again.
LEMMA CorrectingAdvances ==
    ASSUME Inv, CtlInv, Conduct, NEW r \in Runs, Correcting(r)
    PROVE  Advances(r)
<1>1. ConductOK(r) /\ TaskOK(r) /\ task \in [Runs -> TaskRows] /\ UNCHANGED <<cmd, run, synth>>
    BY DEF Conduct, CtlInv, MemType, TaskType, Correcting, storeVars
<1>2. At(r, "correcting") /\ task[r].attempt = "first" /\ synth[r].attempt = "first"
    BY <1>1 DEF Correcting, ConductOK, At
<1>3. CASE task' = [task EXCEPT ![r].pc = "save", ![r].attempt = "correction"]
  <2>1. /\ \A s \in Runs : s # r => task'[s] = task[s]
        /\ task'[r].pc = "save" /\ task'[r].attempt = "correction"
      BY <1>1, <1>3 DEF TaskRows
  <2>2. ConductOK(r)'
      BY <1>1, <1>2, <2>1 DEF ConductOK, TaskOK, At, Unattempted
  <2>3. Rank(r) = 15 /\ Rank(r)' = 14
      BY <1>2, <2>1, StepsAre DEF Rank, At
  <2>4. QED BY <1>1, <2>1, <2>2, <2>3 DEF Advances
<1>4. CASE Goto(r, "error")
  <2>1. Passes(r, "correcting", "error")
      BY <1>1, <1>2, <1>4, GotoPasses DEF TaskPc, At
  <2>2. ConductOK(r)'
      BY <1>1, <2>1 DEF Passes, ConductOK, TaskOK, At, Unattempted
  <2>3. Rank(r)' < Rank(r)
      BY <2>1, StepsAre, RankFalls DEF Passes
  <2>4. QED BY <2>1, <2>2, <2>3 DEF Advances, Passes
<1>5. QED BY <1>3, <1>4 DEF Correcting

\* `ready' is asked for only after the commit.
LEMMA CommitAdvances ==
    ASSUME Inv, CtlInv, Conduct, NEW r \in Runs, Commit(r)
    PROVE  Advances(r)
<1>1. RowKept(r) /\ ConductOK(r) /\ TaskOK(r)
  <2>1. RowsKept
      BY TaskKeepsRows DEF Execute, Save, At, Commit
  <2>2. QED BY <2>1 DEF RowsKept, Conduct, CtlInv
<1>2. UNCHANGED cmd /\ At(r, "commit")
    BY DEF Commit
<1>3. CASE FinalizeSynthesis(r) /\ GotoThen(r, "finish", "ready")
  <2>1. synth'[r].committed
      BY <1>3, RowTypesHold DEF FinalizeSynthesis, SynthRows
  <2>2. Passes(r, "commit", "finish") /\ task'[r].then = "ready"
      BY <1>2, <1>3, GotoThenPasses DEF TaskPc, At
  <2>3. ConductOK(r)'
      BY <1>1, <2>1, <2>2 DEF Passes, ConductOK, RowKept, TaskOK, At, Unattempted, Terminal
  <2>4. Rank(r)' < Rank(r)
      BY <2>2, StepsAre, RankFalls DEF Passes
  <2>5. QED BY <2>2, <2>3, <2>4 DEF Advances, Passes
<1>4. CASE Goto(r, "error")
  <2>1. Passes(r, "commit", "error")
      BY <1>2, <1>4, GotoPasses DEF TaskPc, At
  <2>2. ConductOK(r)'
      BY <1>1, <2>1 DEF Passes, ConductOK, RowKept, TaskOK, At, Unattempted
  <2>3. Rank(r)' < Rank(r)
      BY <2>1, StepsAre, RankFalls DEF Passes
  <2>4. QED BY <2>1, <2>2, <2>3 DEF Advances, Passes
<1>5. QED BY <1>3, <1>4 DEF Commit

LEMMA EndAdvances ==
    ASSUME Inv, CtlInv, Conduct, NEW r \in Runs,
           \/ FinishOk(r) \/ Error(r) \/ ErrorSettle(r) \/ ErrorSettled(r) \/ FinishError(r)
           \/ Fail(r) \/ Cleanup(r)
    PROVE  Advances(r)
<1>1. RowKept(r) /\ ConductOK(r) /\ TaskOK(r)
  <2>1. RowsKept
      BY TaskKeepsRows DEF Execute, Save, At, FinishOk, Error, ErrorSettle, ErrorSettled,
         FinishError, Fail, Cleanup
  <2>2. QED BY <2>1 DEF RowsKept, Conduct, CtlInv
<1>2. UNCHANGED cmd
    BY DEF FinishOk, Error, ErrorSettle, ErrorSettled, FinishError, Fail, Cleanup
<1>3. \/ At(r, "finish") /\ (Goto(r, "cleanup") \/ Goto(r, "error"))
      \/ /\ At(r, "error")
         /\ \E then \in {"cancelled", "failed"} : GotoThen(r, "errorSettle", then)
      \/ At(r, "errorSettle") /\ Goto(r, "errorSettling")
      \/ At(r, "errorSettling") /\ (Goto(r, "errorFinish") \/ Goto(r, "fail"))
      \/ At(r, "errorFinish") /\ (Goto(r, "cleanup") \/ Goto(r, "fail"))
      \/ At(r, "fail") /\ Goto(r, "cleanup")
      \/ At(r, "cleanup") /\ Goto(r, "remove")
    BY DEF FinishOk, Error, ErrorSettle, ErrorSettled, FinishError, Fail, Cleanup, Finish, At
<1>4. \/ Passes(r, "finish", "cleanup") \/ Passes(r, "finish", "error")
      \/ Passes(r, "error", "errorSettle") /\ task'[r].then \in {"cancelled", "failed"}
      \/ Passes(r, "errorSettle", "errorSettling") /\ task'[r].then = task[r].then
      \/ Passes(r, "errorSettling", "errorFinish") /\ task'[r].then = task[r].then
      \/ \E from \in {"errorSettling", "errorFinish"} : Passes(r, from, "fail")
      \/ \E from \in {"errorFinish", "fail"} : Passes(r, from, "cleanup")
      \/ Passes(r, "cleanup", "remove")
    BY <1>2, <1>3, GotoPasses, GotoThenPasses DEF TaskPc, At
<1>5. ConductOK(r)'
    BY <1>1, <1>4 DEF Passes, ConductOK, RowKept, TaskOK, At, Unattempted
<1>6. Rank(r)' < Rank(r)
    BY <1>4, StepsAre, RankFalls DEF Passes
<1>7. QED BY <1>4, <1>5, <1>6 DEF Advances, Passes

LEMMA RemoveAdvances ==
    ASSUME Inv, CtlInv, Conduct, NEW r \in Runs, Remove(r)
    PROVE  Advances(r)
<1>1. ConductOK(r) /\ TaskOK(r) /\ task \in [Runs -> TaskRows] /\ UNCHANGED <<cmd, run, synth>>
    BY DEF Conduct, CtlInv, MemType, TaskType, Remove, storeVars
<1>2. task[r].pc = "remove" /\ task' = [task EXCEPT ![r] = [Asleep EXCEPT !.pc = "done"]]
    BY DEF Remove, At
<1>3. task'[r].pc = "done" /\ \A s \in Runs : s # r => task'[s] = task[s]
    BY <1>1, <1>2 DEF Asleep
<1>4. ConductOK(r)'
    BY <1>1, <1>2, <1>3 DEF ConductOK, TaskOK, At, Unattempted
<1>5. Rank(r)' = 0 /\ Rank(r) > 0
    BY <1>2, <1>3, StepsAre DEF Rank
<1>6. QED BY <1>1, <1>3, <1>4, <1>5 DEF Advances

LEMMA ExecuteAdvances ==
    ASSUME Inv, CtlInv, Conduct, NEW r \in Runs, Execute(r) \/ WaitLagged(r)
    PROVE  Advances(r)
BY TurnAdvances, CloseAdvances, SettleAdvances, AttemptAdvances, RecordAdvances, CorrectingAdvances,
   CommitAdvances, EndAdvances, RemoveAdvances DEF Execute

-----------------------------------------------------------------------------
(* Everybody else leaves a task where it is, starts it, or forgets it *)

LEMMA ConductKept ==
    ASSUME NEW r \in Runs, ConductOK(r), TaskOK(r), RowKept(r), task'[r] = task[r]
    PROVE  ConductOK(r)'
BY DEF ConductOK, TaskOK, RowKept, At, Unattempted

LEMMA StartsKept ==
    ASSUME CtlInv, Conduct, RowsKept,
           \A t \in Threads : cmd'[t] = cmd[t] \/ cmd'[t].pc \notin Starts
    PROVE  \A t \in Threads : StartOK(t)'
<1> SUFFICES ASSUME NEW t \in Threads, cmd'[t] = cmd[t], cmd[t].pc \in Starts
             PROVE  StartOK(t)'
    BY DEF StartOK
<1>1. ThreadOK(t) /\ StartOK(t)
    BY DEF CtlInv, Conduct
<1>2. cmd[t].run \in Runs /\ run[cmd[t].run].status # "none"
    BY <1>1 DEF ThreadOK
<1>3. PICK r \in Runs : r = cmd[t].run
    BY <1>2
<1>4. RowKept(r)
    BY DEF RowsKept
<1>5. QED BY <1>1, <1>2, <1>3, <1>4 DEF StartOK, RowKept, On

LEMMA OthersConduct ==
    ASSUME CtlInv, Conduct, RowsKept, UNCHANGED task,
           \A t \in Threads : cmd'[t] = cmd[t] \/ cmd'[t].pc \notin Starts
    PROVE  Conduct'
<1>1. \A r \in Runs : ConductOK(r)'
    BY ConductKept DEF Conduct, CtlInv, RowsKept
<1>2. QED BY <1>1, StartsKept DEF Conduct

LEMMA DownConduct ==
    ASSUME CtlInv, Conduct, RowsKept, EmptyMemory
    PROVE  Conduct'
<1>1. \A r \in Runs : task'[r] = Asleep
    BY DEF EmptyMemory
<1>2. \A r \in Runs : ConductOK(r)'
    BY <1>1 DEF Conduct, ConductOK, RowsKept, RowKept, At, Asleep, Unattempted
<1>3. \A t \in Threads : cmd'[t].pc \notin Starts
    BY DEF EmptyMemory, Idle, Starts
<1>4. QED BY <1>2, <1>3, StartsKept DEF Conduct

LEMMA TaskConduct ==
    ASSUME Inv, CtlInv, Conduct, NEW r \in Runs, Execute(r) \/ WaitLagged(r)
    PROVE  Conduct'
<1>1. Advances(r)
    BY ExecuteAdvances
<1>2. CASE ~Save(r)
  <2>1. RowsKept
      BY <1>2, TaskKeepsRows, AgentKeepsRows DEF Agent
  <2>2. \A s \in Runs : ConductOK(s)'
      BY <1>1, <2>1, ConductKept DEF Advances, Conduct, CtlInv, RowsKept
  <2>3. QED BY <1>1, <2>1, <2>2, StartsKept DEF Advances, Conduct
<1>3. CASE Save(r)
  <2>1. \A s \in Runs : s # r => RowKept(s)
      BY <1>3, SaveWrites DEF RowKept
  <2>2. \A s \in Runs : ConductOK(s)'
      BY <1>1, <2>1, ConductKept DEF Advances, Conduct, CtlInv
  <2>3. ASSUME NEW t \in Threads, cmd[t].pc \in Starts
        PROVE  cmd[t].run # r /\ cmd[t].run \in Runs
      BY <1>3, <2>3 DEF CtlInv, ThreadOK, Save, At
  <2>4. \A t \in Threads : StartOK(t)'
      BY <1>1, <1>3, <2>3, SaveWrites DEF Advances, Conduct, StartOK, On
  <2>5. QED BY <2>2, <2>4 DEF Conduct
<1>4. QED BY <1>2, <1>3

LEMMA CreateConduct ==
    ASSUME Inv, CtlInv, Conduct, NEW t \in Threads, Create(t)
    PROVE  Conduct'
<1>1. RowsKept /\ UNCHANGED task /\ cmd \in [Threads -> CmdRows]
    BY ThreadKeepsRows DEF Thread, Create, CtlInv, MemType, CmdType
<1>2. CASE \E r \in Runs : /\ CreateRun(r, cmd[t].due)
                           /\ cmd' = [cmd EXCEPT ![t].pc = "configure", ![t].run = r]
  <2>1. PICK r \in Runs : /\ CreateRun(r, cmd[t].due)
                          /\ cmd' = [cmd EXCEPT ![t].pc = "configure", ![t].run = r]
      BY <1>2
  <2>2. ConductOK(r) /\ run[r].status = "none" /\ UNCHANGED synth
      BY <2>1 DEF Conduct, CreateRun, IsNext
  <2>3. synth'[r].attempt = "none"
      BY <2>2 DEF ConductOK
  <2>4. /\ cmd'[t].run = r /\ cmd'[t].pc = "configure"
        /\ \A u \in Threads : u # t => cmd'[u] = cmd[u]
      BY <1>1, <2>1 DEF CmdRows
  <2>5. StartOK(t)'
      BY <2>3, <2>4 DEF StartOK, On
  <2>6. \A u \in Threads : StartOK(u) /\ ThreadOK(u)
      BY DEF Conduct, CtlInv
  <2>7. \A u \in Threads : u # t => StartOK(u)'
      BY <1>1, <2>2, <2>4, <2>6 DEF StartOK, ThreadOK, RowsKept, RowKept, On
  <2>8. \A s \in Runs : ConductOK(s)'
      BY <1>1, ConductKept DEF Conduct, CtlInv, RowsKept
  <2>9. QED BY <2>5, <2>7, <2>8 DEF Conduct
<1>3. CASE Return(t)
  <2>1. \A u \in Threads : cmd'[u] = cmd[u] \/ cmd'[u].pc \notin Starts
      BY <1>1, <1>3 DEF Return, Idle, Starts
  <2>2. QED BY <1>1, <2>1, OthersConduct
<1>4. QED BY <1>2, <1>3 DEF Create

LEMMA ConfigureConduct ==
    ASSUME Inv, CtlInv, Conduct, NEW t \in Threads, Configure(t)
    PROVE  Conduct'
<1>1. RowsKept /\ UNCHANGED <<task, synth>> /\ cmd \in [Threads -> CmdRows]
    BY ThreadKeepsRows DEF Thread, Configure, ConfigureRun, storeVars, CtlInv, MemType, CmdType
<1>2. \A r \in Runs : ConductOK(r)'
    BY <1>1, ConductKept DEF Conduct, CtlInv, RowsKept
<1>3. /\ On(t, "configure") /\ cmd'[t].run = cmd[t].run /\ cmd'[t].pc \in {"spawn", "fail"}
      /\ \A u \in Threads : u # t => cmd'[u] = cmd[u]
      /\ cmd'[t].pc = "spawn" => ConfigureRun(cmd[t].run)
    BY <1>1 DEF Configure, Proceed, CmdRows
<1>4. \A u \in Threads : StartOK(u) /\ ThreadOK(u)
    BY DEF Conduct, CtlInv
<1>5. cmd[t].run \in Runs /\ synth[cmd[t].run].attempt = "none"
    BY <1>3, <1>4 DEF StartOK, ThreadOK, On, Starts
<1>6. PICK r \in Runs : r = cmd[t].run
    BY <1>5
<1>7. cmd'[t].pc = "spawn" => run'[r].codex
    BY <1>3, <1>6, RowTypesHold DEF ConfigureRun, RunRows
<1>8. StartOK(t)'
    BY <1>1, <1>3, <1>5, <1>6, <1>7 DEF StartOK, On
<1>9. \A u \in Threads : u # t => StartOK(u)'
    BY <1>1, <1>3, <1>4 DEF StartOK, ThreadOK, RowsKept, RowKept, On
<1>10. QED BY <1>2, <1>8, <1>9 DEF Conduct

LEMMA SpawnConduct ==
    ASSUME Inv, CtlInv, Conduct, NEW t \in Threads, Spawn(t)
    PROVE  Conduct'
<1>1. /\ RowsKept /\ UNCHANGED <<run, synth>> /\ cmd \in [Threads -> CmdRows]
      /\ On(t, "spawn") /\ Goto(cmd[t].run, "begin") /\ Return(t)
    BY ThreadKeepsRows DEF Thread, Spawn, storeVars, CtlInv, MemType, CmdType
<1>2. /\ cmd[t].run \in Runs /\ At(cmd[t].run, "none") /\ run[cmd[t].run].codex
      /\ run[cmd[t].run].status # "none" /\ synth[cmd[t].run].attempt = "none"
    BY <1>1 DEF CtlInv, ThreadOK, Conduct, StartOK, On, Starts
<1>3. PICK r \in Runs : r = cmd[t].run
    BY <1>2
<1>4. /\ \A s \in Runs : s # r => task'[s] = task[s]
      /\ task'[r].pc = "begin" /\ task'[r].attempt = task[r].attempt
    BY <1>1, <1>3, GotoKeeps DEF CtlInv, MemType, TaskPc
<1>5. ConductOK(r) /\ TaskOK(r)
    BY DEF Conduct, CtlInv
<1>6. ConductOK(r)'
    BY <1>1, <1>2, <1>3, <1>4, <1>5 DEF ConductOK, At, Unattempted
<1>7. \A s \in Runs : s # r => ConductOK(s)'
    BY <1>1, <1>4, ConductKept DEF Conduct, CtlInv, RowsKept
<1>8. \A u \in Threads : cmd'[u] = cmd[u] \/ cmd'[u].pc \notin Starts
    BY <1>1 DEF Return, Idle, Starts
<1>9. QED BY <1>1, <1>6, <1>7, <1>8, StartsKept DEF Conduct

LEMMA ThreadConduct ==
    ASSUME Inv, CtlInv, Conduct, NEW t \in Threads, Thread(t)
    PROVE  Conduct'
<1>1. RowsKept /\ cmd \in [Threads -> CmdRows]
    BY ThreadKeepsRows DEF CtlInv, MemType, CmdType
<1>2. CASE \/ Ensure(t) \/ Halt(t) \/ FailStart(t) \/ Stop(t) \/ CheckStop(t) \/ Cancel(t)
           \/ Revoke(t) \/ Signal(t) \/ ShutdownRuntime(t) \/ RecoverOnExit(t)
  <2>1. UNCHANGED task
      BY <1>2 DEF Ensure, Halt, FailStart, Stop, CheckStop, Cancel, Revoke, Signal,
         ShutdownRuntime, RecoverOnExit
  <2>2. \/ Return(t)
        \/ \E pc \in CmdPc \ Starts : Proceed(t, pc)
        \/ \E r \in Runs : cmd' = [cmd EXCEPT ![t].pc = "revoke", ![t].run = r]
      BY <1>2 DEF Ensure, Halt, FailStart, Stop, CheckStop, Cancel, Revoke, Signal,
         ShutdownRuntime, RecoverOnExit, AfterCancel, CmdPc, Starts
  <2>3. \A u \in Threads : cmd'[u] = cmd[u] \/ cmd'[u].pc \notin Starts
      BY <1>1, <2>2 DEF Return, Proceed, Idle, Starts, CmdRows
  <2>4. QED BY <1>1, <2>1, <2>3, OthersConduct
<1>3. CASE Quit(t)
    BY <1>1, <1>3, DownConduct DEF Quit
<1>4. QED BY <1>2, <1>3, CreateConduct, ConfigureConduct, SpawnConduct DEF Thread

LEMMA AgentConduct ==
    ASSUME Inv, CtlInv, Conduct, NEW r \in Runs, Agent(r)
    PROVE  Conduct'
<1>1. CASE WaitLagged(r)
    BY <1>1, TaskConduct
<1>2. CASE ~WaitLagged(r)
  <2>1. UNCHANGED <<task, cmd>>
      BY <1>2 DEF Agent, TurnEnds, BeginCall, SearchStart, Enqueue, SearchCancel, VaultAddPaper,
         ReaderRead, CallReturns
  <2>2. QED BY <2>1, AgentKeepsRows, OthersConduct
<1>3. QED BY <1>1, <1>2

LEMMA JobConduct ==
    ASSUME CtlInv, Conduct, NEW c \in Children, Job(c)
    PROVE  Conduct'
<1>1. UNCHANGED <<task, cmd>>
    BY DEF Job, JobStart, JobEnd
<1>2. QED BY <1>1, JobKeepsRows, OthersConduct

LEMMA EnvironmentConduct ==
    ASSUME Inv, CtlInv, Conduct, Environment
    PROVE  Conduct'
<1>1. RowsKept /\ cmd \in [Threads -> CmdRows]
    BY EnvironmentKeepsRows DEF CtlInv, MemType, CmdType
<1>2. CASE Crash
    BY <1>1, <1>2, DownConduct DEF Crash
<1>3. CASE SchedulerTick
  <2>1. UNCHANGED task
      BY <1>3 DEF SchedulerTick
  <2>2. \A u \in Threads : cmd'[u] = cmd[u] \/ cmd'[u].pc \notin Starts
      BY <1>1, <1>3 DEF SchedulerTick, Starts, CmdRows
  <2>3. QED BY <1>1, <2>1, <2>2, OthersConduct
<1>4. CASE RunProjectResearch \/ CancelProjectResearch \/ StopResearchHarness \/ ExitRequested
  <2>1. UNCHANGED task /\ \E t \in Threads, pc \in CmdPc \ Starts : Proceed(t, pc)
      BY <1>4 DEF RunProjectResearch, CancelProjectResearch, StopResearchHarness, ExitRequested,
         Threads, CmdPc, Starts
  <2>2. \A u \in Threads : cmd'[u] = cmd[u] \/ cmd'[u].pc \notin Starts
      BY <1>1, <2>1 DEF Proceed, CmdRows
  <2>3. QED BY <1>1, <2>1, <2>2, OthersConduct
<1>5. CASE ControlHarness \/ CodexExits \/ Restart \/ Recover \/ Edit \/ Tick
  <2>1. UNCHANGED <<task, cmd>>
      BY <1>5 DEF ControlHarness, CodexExits, Restart, Recover, Edit, Tick, memVars
  <2>2. QED BY <1>1, <2>1, OthersConduct
<1>6. QED BY <1>2, <1>3, <1>4, <1>5 DEF Environment

LEMMA InitConduct == Init => Conduct
<1> SUFFICES ASSUME Init PROVE Conduct
    OBVIOUS
<1>1. \A r \in Runs : task[r] = Asleep /\ synth[r] = NoSynth
    BY DEF Init, StoreInit
<1>2. \A t \in Threads : cmd[t] = Idle
    BY DEF Init
<1>3. QED BY <1>1, <1>2 DEF Conduct, ConductOK, StartOK, At, Asleep, NoSynth, Idle, Starts,
         Unattempted

LEMMA NextConduct ==
    ASSUME Inv, CtlInv, Conduct, [Next]_vars
    PROVE  Conduct'
<1>1. CASE UNCHANGED vars
  <2>1. UNCHANGED <<task, cmd, run, synth>>
      BY <1>1 DEF vars, storeVars, memVars
  <2>2. QED BY <2>1, UnwrittenKept, OthersConduct
<1>2. CASE Next
    BY <1>2, ThreadConduct, TaskConduct, AgentConduct, JobConduct, EnvironmentConduct DEF Next
<1>3. QED BY <1>1, <1>2

LEMMA SpecConduct == Spec => [](Inv /\ CtlInv /\ Conduct)
<1>1. Init => Conduct
    BY InitConduct
<1>2. Inv /\ CtlInv /\ Conduct /\ [Next]_vars => Conduct'
    BY NextConduct
<1>3. QED BY <1>1, <1>2, SpecInv, PTL DEF Spec

-----------------------------------------------------------------------------
(* What holds of execute *)

\* No task is left waiting at a transaction that the store refuses: attempts are
\* saved in order and none twice, issues belong to an attempt, a Run is asked to
\* end in a way that exists, and `ready' is asked for after the commit only.
THEOREM NoTaskRefusedHolds == Spec => []NoTaskRefused
<1>1. Inv /\ CtlInv /\ Conduct => NoTaskRefused
  <2> SUFFICES ASSUME Inv, CtlInv, Conduct, NEW r \in Runs
               PROVE  /\ task[r].pc \in {"attach", "reconcile", "save"} => run[r].codex
                      /\ At(r, "save") =>
                            synth[r].attempt =
                               (IF task[r].attempt = "first" THEN "none" ELSE "first")
                      /\ At(r, "record") => synth[r].attempt # "none"
                      /\ task[r].pc \in {"finish", "errorFinish"} =>
                            /\ task[r].then \in Terminal
                            /\ task[r].then = "ready" => synth[r].committed
      BY DEF NoTaskRefused
  <2>1. ConductOK(r) /\ task[r].attempt \in {"first", "correction"}
      BY DEF Conduct, CtlInv, MemType, TaskType, TaskRows
  <2>2. QED BY <2>1 DEF ConductOK, At, Terminal
<1>2. QED BY <1>1, SpecConduct, PTL

\* Every step that moves a task, once it is spawned and until the application
\* goes down, lowers its rank: no sequence of turns, cancellations, deadlines,
\* errors and corrections keeps execute from its end.
THEOREM TasksAdvanceHolds == Spec => TasksAdvance
<1> DEFINE Advance == \A r \in Runs :
              task'[r] # task[r] => At(r, "none") \/ app' = "down" \/ Rank(r)' < Rank(r)
<1>1. Inv /\ CtlInv /\ Conduct /\ [Next]_vars => [Advance]_vars
  <2> SUFFICES ASSUME Inv, CtlInv, Conduct, Next PROVE Advance
      OBVIOUS
  <2>1. CASE \E r \in Runs : Execute(r) \/ WaitLagged(r)
      BY <2>1, ExecuteAdvances DEF Advances
  <2>2. CASE \E t \in Threads : Spawn(t)
    <3>1. PICK t \in Threads : Spawn(t)
        BY <2>2
    <3>2. cmd[t].run \in Runs /\ At(cmd[t].run, "none") /\ Goto(cmd[t].run, "begin")
        BY <3>1 DEF Spawn, CtlInv, ThreadOK, On, Starts
    <3>3. PICK r \in Runs : r = cmd[t].run
        BY <3>2
    <3>4. \A s \in Runs : s # r => task'[s] = task[s]
        BY <3>2, <3>3, GotoKeeps DEF CtlInv, MemType, TaskPc
    <3>5. QED BY <3>2, <3>3, <3>4
  <2>3. CASE Crash \/ \E t \in Threads : Quit(t)
      BY <2>3 DEF Crash, Quit
  <2>4. CASE UNCHANGED task
      BY <2>4
  <2>5. CASE \E t \in Threads : Thread(t)
      BY <2>2, <2>3, <2>4, <2>5 DEF Thread, Ensure, Halt, Create, Configure, FailStart, Stop,
         CheckStop, Cancel, Revoke, Signal, ShutdownRuntime, RecoverOnExit
  <2>6. CASE \E r \in Runs : Agent(r)
      BY <2>1, <2>4, <2>6 DEF Agent, TurnEnds, BeginCall, SearchStart, Enqueue, SearchCancel,
         VaultAddPaper, ReaderRead, CallReturns
  <2>7. CASE \E c \in Children : Job(c)
      BY <2>4, <2>7 DEF Job, JobStart, JobEnd
  <2>8. CASE Environment
      BY <2>3, <2>4, <2>8 DEF Environment, RunProjectResearch, SchedulerTick, CancelProjectResearch,
         StopResearchHarness, ControlHarness, CodexExits, ExitRequested, Restart, Recover, Edit,
         Tick, memVars
  <2>9. QED BY <2>1, <2>5, <2>6, <2>7, <2>8 DEF Next
<1>2. QED BY <1>1, SpecConduct, PTL DEF Spec, TasksAdvance

=============================================================================
