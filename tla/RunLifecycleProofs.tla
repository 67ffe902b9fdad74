------------------------- MODULE RunLifecycleProofs -------------------------
(***************************************************************************)
(* The store keeps the promise RunLifecycle makes: under the mapping of    *)
(* RunStore, every transaction is a step of the lifecycle or stutters.     *)
(***************************************************************************)
EXTENDS RunStoreProofs

Phases == [r \in Runs |-> Phase(r)]
Bases == [r \in Runs |-> run[r].start]

LEMMA PhaseOf ==
    ASSUME NEW r \in Runs, run[r] \in RunRows
    PROVE  /\ run[r].status = "none" => Phase(r) = "new"
           /\ run[r].status \in Admitted => Phase(r) = "open"
           /\ run[r].status = "canceling" => Phase(r) = "closing"
           /\ run[r].status \in Terminal => Phase(r) = run[r].status
           /\ IsActive(r) <=> Phase(r) \in {"open", "closing"}
BY DEF Phase, RunRows, IsActive, Active, Admitted, Working, Terminal

\* A transaction that touches one Run moves that Run's phase only.
LEMMA OneMoves ==
    ASSUME NEW r \in Runs, \A s \in Runs : s # r => run'[s] = run[s]
    PROVE  /\ Phases' = [Phases EXCEPT ![r] = Phase(r)']
           /\ Bases' = [Bases EXCEPT ![r] = run'[r].start]
<1>1. \A s \in Runs : s # r => Phase(s)' = Phase(s)
    BY DEF Phase
<1>2. Phases' = [Phases EXCEPT ![r] = Phase(r)']
    BY <1>1 DEF Phases
<1>3. Bases' = [Bases EXCEPT ![r] = run'[r].start]
    BY DEF Bases
<1>4. QED BY <1>2, <1>3

\* One that touches no status and no start moves none.
LEMMA NoneMoves ==
    ASSUME \A r \in Runs : run'[r].status = run[r].status /\ run'[r].start = run[r].start
    PROVE  Phases' = Phases /\ Bases' = Bases
BY DEF Phases, Bases, Phase

-----------------------------------------------------------------------------
\* The steps of the lifecycle, read in terms of the store.
LEMMA LifecycleSteps ==
    /\ Lifecycle!lifecycleVars = <<Phases, Bases, stateRev>>
    /\ \A r \in Runs :
         /\ /\ Phases[r] = "new"
            /\ \A s \in Runs : Phases[s] \notin {"open", "closing"}
            /\ Phases' = [Phases EXCEPT ![r] = "open"]
            /\ Bases' = [Bases EXCEPT ![r] = stateRev]
            /\ stateRev' = stateRev
            => Lifecycle!Open(r)
         /\ /\ Phases[r] = "open"
            /\ Phases' = [Phases EXCEPT ![r] = "closing"]
            /\ Bases' = Bases /\ stateRev' = stateRev
            => Lifecycle!Close(r)
         /\ /\ Phases[r] = "open" /\ stateRev = Bases[r]
            /\ Phases' = [Phases EXCEPT ![r] = "ready"]
            /\ stateRev' \in {stateRev, stateRev + 1}
            /\ Bases' = Bases
            => Lifecycle!Commit(r)
         /\ /\ Phases[r] \in {"open", "closing"}
            /\ Phases' = [Phases EXCEPT ![r] = "cancelled"]
            /\ Bases' = Bases /\ stateRev' = stateRev
            => Lifecycle!Cancel(r)
         /\ /\ Phases[r] \in {"open", "closing"}
            /\ Phases' = [Phases EXCEPT ![r] = "failed"]
            /\ Bases' = Bases /\ stateRev' = stateRev
            => Lifecycle!Fail(r)
BY DEF Lifecycle!lifecycleVars, Lifecycle!Open, Lifecycle!Close, Lifecycle!Commit,
       Lifecycle!Cancel, Lifecycle!Fail, Lifecycle!Running, Phases, Bases

LEMMA InitLifecycle == StoreInit => Lifecycle!Init
<1> SUFFICES ASSUME StoreInit PROVE Lifecycle!Init
    OBVIOUS
<1>1. \A r \in Runs : run[r] \in RunRows /\ run[r].status = "none" /\ run[r].start = 0
    BY RowTypes DEF StoreInit, NoRun
<1>2. \A r \in Runs : Phase(r) = "new"
    BY <1>1, PhaseOf
<1>3. QED BY <1>1, <1>2 DEF StoreInit, Lifecycle!Init

-----------------------------------------------------------------------------
(* One lemma for each way in which a transaction moves a Run *)

LEMMA InvPhases ==
    ASSUME Inv
    PROVE  /\ stateRev \in Nat
           /\ \A r \in Runs : /\ run[r] \in RunRows
                              /\ Phases[r] = Phase(r) /\ Bases[r] = run[r].start
                              /\ Phases[r] \in {"open", "closing"} <=> IsActive(r)
<1>1. stateRev \in Nat /\ \A r \in Runs : run[r] \in RunRows
    BY DEF Inv, StoreTypeOK
<1>2. \A r \in Runs : Phases[r] = Phase(r) /\ Bases[r] = run[r].start
    BY DEF Phases, Bases
<1>3. QED BY <1>1, <1>2, PhaseOf

\* A transaction that gives Run r another status, and no other Run.
LEMMA StatusMoves ==
    ASSUME Inv, NEW r \in Runs, NEW row \in RunRows,
           run' = [run EXCEPT ![r] = row], row.start = run[r].start
    PROVE  Phases' = [Phases EXCEPT ![r] = Phase(r)'] /\ Bases' = Bases
           /\ run'[r] = row
<1>1. run \in [Runs -> RunRows]
    BY DEF Inv, StoreTypeOK
<1>2. run'[r] = row /\ \A s \in Runs : s # r => run'[s] = run[s]
    BY <1>1
<1>3. Phases' = [Phases EXCEPT ![r] = Phase(r)']
    BY <1>2, OneMoves
<1>4. \A s \in Runs : run'[s].start = run[s].start
    BY <1>2
<1>5. Bases' = Bases
    BY <1>4 DEF Bases
<1>6. QED BY <1>2, <1>3, <1>5

LEMMA CreateRunOpens ==
    ASSUME Inv, NEW r \in Runs, NEW due \in Nat, CreateRun(r, due)
    PROVE  Lifecycle!Open(r)
<1> DEFINE row == [NoRun EXCEPT !.status = "queued", !.start = stateRev, !.due = due]
<1>1. row \in RunRows /\ row.status = "queued" /\ row.start = stateRev
    BY DEF NoRun, RunRows, Inv, StoreTypeOK, Active, Admitted, Working
<1>2. /\ run' = [run EXCEPT ![r] = row] /\ stateRev' = stateRev
      /\ run[r].status = "none" /\ \A s \in Runs : ~IsActive(s)
    BY DEF CreateRun, IsNext, CanCreate, SomeActive
<1> HIDE DEF row
<1>3. run'[r] = row /\ \A s \in Runs : s # r => run'[s] = run[s]
    BY <1>2 DEF Inv, StoreTypeOK
<1>4. Phase(r)' = "open"
    BY <1>1, <1>3 DEF Phase, Admitted, Working
<1>5. Phases' = [Phases EXCEPT ![r] = "open"] /\ Bases' = [Bases EXCEPT ![r] = stateRev]
    BY <1>1, <1>3, <1>4, OneMoves
<1>6. Phases[r] = "new" /\ \A s \in Runs : Phases[s] \notin {"open", "closing"}
    BY <1>2, InvPhases, PhaseOf
<1>7. QED BY <1>2, <1>5, <1>6, LifecycleSteps

\* A transaction that only sets the status of Run r.
LEMMA SetStatusMoves ==
    ASSUME Inv, NEW r \in Runs, NEW status \in Active \cup Terminal, SetStatus(r, status)
    PROVE  /\ Phases' = [Phases EXCEPT ![r] = Phase(r)'] /\ Bases' = Bases
           /\ run'[r].status = status /\ run'[r] \in RunRows
<1> DEFINE row == [run[r] EXCEPT !.status = status]
<1>1. run \in [Runs -> RunRows]
    BY DEF Inv, StoreTypeOK
<1>2. row \in RunRows /\ row.start = run[r].start /\ row.status = status
    BY <1>1 DEF RunRows
<1>3. run' = [run EXCEPT ![r] = row]
    BY <1>1 DEF SetStatus
<1> HIDE DEF row
<1>4. QED BY <1>2, <1>3, StatusMoves

\* The Run stays open while the controller drives it.
LEMMA DrivesStutter ==
    ASSUME Inv, NEW r \in Runs,
           ConfigureRun(r) \/ AttachTurn(r) \/ BeginFinalization(r)
    PROVE  UNCHANGED Lifecycle!lifecycleVars
<1>1. run[r] \in RunRows /\ run \in [Runs -> RunRows]
    BY DEF Inv, StoreTypeOK
<1>2. /\ Phases' = [Phases EXCEPT ![r] = Phase(r)'] /\ Bases' = Bases
      /\ run'[r].status \in Admitted
  <2>1. CASE ConfigureRun(r)
    <3> DEFINE row == [run[r] EXCEPT !.status = "planning", !.codex = TRUE]
    <3>1. row \in RunRows /\ row.start = run[r].start /\ row.status = "planning"
        BY <1>1 DEF RunRows, Active, Admitted, Working
    <3>2. run' = [run EXCEPT ![r] = row]
        BY <1>1, <2>1 DEF ConfigureRun
    <3> HIDE DEF row
    <3>3. QED BY <3>1, <3>2, StatusMoves DEF Admitted, Working
  <2>2. CASE AttachTurn(r)
      BY <2>2, SetStatusMoves DEF AttachTurn, Active, Admitted, Working
  <2>3. CASE BeginFinalization(r)
      BY <2>3, SetStatusMoves DEF BeginFinalization, Active, Admitted, Working
  <2>4. QED BY <2>1, <2>2, <2>3
<1>3. Phase(r)' = "open"
    BY <1>2 DEF Phase, Admitted, Working
<1>4. run[r].status \in Admitted
    BY DEF ConfigureRun, AttachTurn, BeginFinalization, Admitted, Working
<1>5. Phases[r] = "open"
    BY <1>1, <1>4, InvPhases, PhaseOf
<1>6. Phases' = Phases
    BY <1>2, <1>3, <1>5 DEF Phases
<1>7. stateRev' = stateRev
    BY DEF ConfigureRun, AttachTurn, BeginFinalization
<1>8. QED BY <1>2, <1>6, <1>7 DEF Lifecycle!lifecycleVars, Phases, Bases

LEMMA RequestCancelCloses ==
    ASSUME Inv, NEW r \in Runs, RequestCancel(r)
    PROVE  Lifecycle!Close(r)
<1>1. /\ SetStatus(r, "canceling") /\ run[r].status \in Admitted
      /\ run[r] \in RunRows /\ stateRev' = stateRev
    BY DEF RequestCancel, Inv, StoreTypeOK
<1>2. /\ Phases' = [Phases EXCEPT ![r] = Phase(r)'] /\ Bases' = Bases
      /\ run'[r].status = "canceling"
    BY <1>1, SetStatusMoves DEF Active
<1>3. Phase(r)' = "closing"
    BY <1>2 DEF Phase, Admitted, Working
<1>4. Phases[r] = "open"
    BY <1>1, InvPhases, PhaseOf
<1>5. QED BY <1>1, <1>2, <1>3, <1>4, LifecycleSteps

LEMMA FinalizeSynthesisCommits ==
    ASSUME Inv, NEW r \in Runs, FinalizeSynthesis(r)
    PROVE  Lifecycle!Commit(r)
<1>1. /\ SetStatus(r, "ready") /\ run[r].status = "reconciling"
      /\ run[r] \in RunRows /\ stateRev = run[r].start
      /\ stateRev' \in {stateRev, stateRev + 1}
    BY DEF FinalizeSynthesis, CanCommit, Unconflicted, Inv, StoreTypeOK
<1>2. /\ Phases' = [Phases EXCEPT ![r] = Phase(r)'] /\ Bases' = Bases
      /\ run'[r].status = "ready"
    BY <1>1, SetStatusMoves DEF Terminal
<1>3. Phase(r)' = "ready"
    BY <1>2 DEF Phase, Admitted, Working
<1>4. Phases[r] = "open" /\ Bases[r] = stateRev
    BY <1>1, InvPhases, PhaseOf DEF Admitted
<1>5. QED BY <1>1, <1>2, <1>3, <1>4, LifecycleSteps

\* A Run ends cancelled or failed; only a commit ends it ready.
LEMMA EndRunEnds ==
    ASSUME Inv, NEW r \in Runs,
           \/ \E s \in Terminal : FinishRun(r, s)
           \/ run[r].status \notin {"ready", "cancelled"} /\ FailRun(r)
    PROVE  Lifecycle!Cancel(r) \/ Lifecycle!Fail(r) \/ UNCHANGED Lifecycle!lifecycleVars
<1>1. run[r] \in RunRows /\ stateRev' = stateRev
    BY DEF FinishRun, FailRun, Inv, StoreTypeOK
<1>2. PICK s \in {"cancelled", "failed"} :
        SetStatus(r, s) /\ (IsActive(r) \/ (run[r].status = "failed" /\ s = "failed"))
  <2>1. CASE \E s \in Terminal : FinishRun(r, s)
    <3>1. PICK s \in Terminal : FinishRun(r, s)
        BY <2>1
    <3>2. run[r].status # "ready" /\ IsActive(r) /\ SetStatus(r, s)
        BY <3>1 DEF FinishRun, IsActive, Active, Admitted, Working
    <3>3. s # "ready"
        BY <3>1, <3>2 DEF FinishRun, Inv, ReadyIsComplete
    <3>4. s \in {"cancelled", "failed"}
        BY <3>3 DEF Terminal
    <3>5. QED BY <3>2, <3>4
  <2>2. CASE run[r].status \notin {"ready", "cancelled"} /\ FailRun(r)
      BY <1>1, <2>2 DEF FailRun, RunRows, Terminal, IsActive
  <2>3. QED BY <2>1, <2>2
<1>3. /\ Phases' = [Phases EXCEPT ![r] = Phase(r)'] /\ Bases' = Bases
      /\ run'[r].status = s
    BY <1>2, SetStatusMoves DEF Terminal
<1>4. Phase(r)' = s
    BY <1>3 DEF Phase, Admitted, Working
<1>5. CASE IsActive(r)
    BY <1>1, <1>3, <1>4, <1>5, InvPhases, LifecycleSteps
<1>6. CASE ~IsActive(r)
  <2>1. run[r].status = "failed" /\ s = "failed"
      BY <1>2, <1>6
  <2>2. Phases[r] = "failed"
      BY <1>1, <2>1, InvPhases, PhaseOf DEF Terminal
  <2>3. Phases' = Phases
      BY <1>3, <1>4, <2>1, <2>2 DEF Phases
  <2>4. QED BY <1>1, <1>3, <2>3 DEF Lifecycle!lifecycleVars, Phases, Bases
<1>7. QED BY <1>5, <1>6

\* The startup recovery fails the one Run it finds active.
LEMMA RecoverInterruptedFails ==
    ASSUME Inv, RecoverInterrupted
    PROVE  (\E r \in Runs : Lifecycle!Fail(r)) \/ UNCHANGED Lifecycle!lifecycleVars
<1>1. /\ \A r \in Runs : run[r] \in RunRows
      /\ run' = [r \in Runs |-> IF IsActive(r) THEN [run[r] EXCEPT !.status = "failed"]
                                               ELSE run[r]]
      /\ stateRev' = stateRev
    BY DEF RecoverInterrupted, Inv, StoreTypeOK
<1>2. CASE SomeActive
  <2>1. PICK r \in Runs : IsActive(r)
      BY <1>2 DEF SomeActive
  <2>2. \A s \in Runs : s # r => run'[s] = run[s]
      BY <1>1, <2>1 DEF Inv, OneActiveRun
  <2>3. run'[r].status = "failed" /\ run'[r].start = run[r].start
      BY <1>1, <2>1 DEF RunRows
  <2>4. Phase(r)' = "failed"
      BY <2>3 DEF Phase, Admitted, Working
  <2>5. Phases' = [Phases EXCEPT ![r] = "failed"]
      BY <2>2, <2>4, OneMoves
  <2>6. Bases' = Bases
      BY <2>2, <2>3 DEF Bases
  <2>7. Phases[r] \in {"open", "closing"}
      BY <2>1, InvPhases
  <2>8. Lifecycle!Fail(r)
      BY <1>1, <2>5, <2>6, <2>7, LifecycleSteps
  <2>9. QED BY <2>8
<1>3. CASE ~SomeActive
  <2>1. \A r \in Runs : run'[r] = run[r]
      BY <1>1, <1>3 DEF SomeActive
  <2>2. QED
      BY <1>1, <2>1, NoneMoves DEF Lifecycle!lifecycleVars, Phases, Bases
<1>4. QED BY <1>2, <1>3

\* Transactions that leave every status alone.
LEMMA QuietStutter ==
    ASSUME Inv, stateRev' = stateRev,
           \A r \in Runs : run'[r].status = run[r].status /\ run'[r].start = run[r].start
    PROVE  UNCHANGED Lifecycle!lifecycleVars
BY NoneMoves DEF Lifecycle!lifecycleVars, Phases, Bases

LEMMA PapersStutter ==
    ASSUME Inv, NEW p \in Papers,
           (\E r \in Runs : AddPaper(r, p) \/ ReadPaper(r, p)) \/ DeletePaper(p)
    PROVE  UNCHANGED Lifecycle!lifecycleVars
<1>1. run \in [Runs -> RunRows]
    BY DEF Inv, StoreTypeOK
<1>2. \A s \in Runs : run'[s].status = run[s].status /\ run'[s].start = run[s].start
  <2>1. CASE \E r \in Runs : AddPaper(r, p) \/ ReadPaper(r, p)
      BY <1>1, <2>1 DEF AddPaper, ReadPaper, RunRows
  <2>2. CASE DeletePaper(p)
    <3> SUFFICES ASSUME NEW s \in Runs
                 PROVE  run'[s].status = run[s].status /\ run'[s].start = run[s].start
        OBVIOUS
    <3>1. run[s] \in RunRows
        BY <1>1
    <3>2. run'[s] = [run[s] EXCEPT !.added = run[s].added \ {p},
                                   !.seen = run[s].seen \ {p}, !.read = run[s].read \ {p}]
        BY <2>2 DEF DeletePaper
    <3>3. QED BY <3>1, <3>2 DEF RunRows
  <2>3. QED BY <2>1, <2>2
<1>3. stateRev' = stateRev
    BY DEF AddPaper, ReadPaper, DeletePaper
<1>4. QED BY <1>2, <1>3, QuietStutter

-----------------------------------------------------------------------------
LEMMA NextLifecycle ==
    Inv /\ [StoreNext]_storeVars => [Lifecycle!Next]_Lifecycle!lifecycleVars
<1> SUFFICES ASSUME Inv, [StoreNext]_storeVars
             PROVE  Lifecycle!Next \/ UNCHANGED Lifecycle!lifecycleVars
    OBVIOUS
<1>1. ASSUME NEW r \in Runs, RunStep(r)
      PROVE  Lifecycle!Next \/ UNCHANGED Lifecycle!lifecycleVars
  <2>1. ASSUME NEW due \in 0 .. now, CreateRun(r, due) PROVE Lifecycle!Next
    <3>1. due \in Nat
        BY DEF Inv, StoreTypeOK
    <3>2. QED BY <2>1, <3>1, CreateRunOpens DEF Lifecycle!Next
  <2>2. CASE ConfigureRun(r) \/ AttachTurn(r) \/ BeginFinalization(r)
      BY <2>2, DrivesStutter
  <2>3. CASE RequestCancel(r)
      BY <2>3, RequestCancelCloses DEF Lifecycle!Next
  <2>4. CASE FinalizeSynthesis(r)
      BY <2>4, FinalizeSynthesisCommits DEF Lifecycle!Next
  <2>5. CASE \/ \E s \in Terminal : FinishRun(r, s)
             \/ run[r].status \notin {"ready", "cancelled"} /\ FailRun(r)
      BY <2>5, EndRunEnds DEF Lifecycle!Next
  <2>6. CASE \E p \in Papers : AddPaper(r, p) \/ ReadPaper(r, p)
      BY <2>6, PapersStutter
  <2>7. CASE \/ /\ ~synth[r].committed
                /\ \E p \in Proposals, a \in {"first", "correction"} : SaveAttempt(r, a, p)
             \/ \E b \in BOOLEAN : RecordIssues(r, b)
             \/ \E c \in Children : CreateChild(c, r)
      BY <2>7, QuietStutter DEF SaveAttempt, RecordIssues, CreateChild
  <2>8. QED BY <1>1, <2>1, <2>2, <2>3, <2>4, <2>5, <2>6, <2>7 DEF RunStep
<1>2. CASE ProjectStep
  <2>1. CASE RecoverInterrupted
      BY <2>1, RecoverInterruptedFails DEF Lifecycle!Next
  <2>2. CASE EditState
    <3>1. Phases' = Phases /\ Bases' = Bases /\ stateRev' = stateRev + 1
        BY <2>2, NoneMoves DEF EditState
    <3>2. Lifecycle!Revise
        BY <3>1 DEF Lifecycle!Revise, Phases, Bases
    <3>3. QED BY <3>2 DEF Lifecycle!Next
  <2>3. CASE \/ \E S \in SUBSET Children : CancelChildren(S)
             \/ \E c \in Children, s \in ActiveChild \cup Terminal : SetChildStatus(c, s)
             \/ \E p \in Papers : EditVault(p)
             \/ ClockTick
      BY <2>3, QuietStutter DEF CancelChildren, SetChildStatus, EditVault, ClockTick
  <2>4. CASE Controlled
      BY <2>4, QuietStutter DEF Controlled, SaveConfiguration, PauseHarness, ResumeHarness,
         StopHarness, HaltHarness, ClaimDue, SetHarness
  <2>5. CASE \E p \in Papers : DeletePaper(p)
      BY <2>5, PapersStutter
  <2>6. QED BY <1>2, <2>1, <2>2, <2>3, <2>4, <2>5 DEF ProjectStep, Controlled
<1>3. CASE UNCHANGED storeVars
    BY <1>3, QuietStutter DEF storeVars
<1>4. QED BY <1>1, <1>2, <1>3 DEF StoreNext

\* Whatever order the transactions come in, the store keeps the promise of
\* RunLifecycle: a Run being cancelled never commits, a commit builds on the
\* Research State the Run started from (apply_agent_state_update_on), and an
\* ended Run keeps its outcome.
THEOREM StoreImplementsLifecycle == StoreSpec => ImplementsLifecycle
<1>1. StoreInit => Lifecycle!Init
    BY InitLifecycle
<1>2. Inv /\ [StoreNext]_storeVars => [Lifecycle!Next]_Lifecycle!lifecycleVars
    BY NextLifecycle
<1>3. QED BY <1>1, <1>2, StoreInv, PTL DEF StoreSpec, ImplementsLifecycle, Lifecycle!Spec

=============================================================================
