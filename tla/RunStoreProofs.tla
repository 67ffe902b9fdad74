--------------------------- MODULE RunStoreProofs ---------------------------
(***************************************************************************)
(* What holds of the store for any number of Runs, child Searches, papers  *)
(* and limits, whoever calls its transactions and in whatever order.       *)
(***************************************************************************)
EXTENDS RunStore, FiniteSetTheorems, TLAPS

-----------------------------------------------------------------------------
(* Harness rows *)

\* Every operator of Harness yields a row, and none of them makes a Harness
\* run but RunStarted, or un-pauses one behind its requested status.
Sound(h) ==
    /\ h \in HarnessRows
    /\ h.requested = "paused" => h.status \in {"paused", "running"}

LEMMA NewHarnessSound == Sound(NewHarness) /\ NewHarness.status # "running"
BY DEF Sound, NewHarness, HarnessRows, PostRunStatuses

LEMMA ControlsSound ==
    ASSUME NEW h, Sound(h), NEW t \in Nat, NEW b \in BOOLEAN
    PROVE  /\ Sound(Configured(h, b, t))
           /\ Sound(Paused(h))
           /\ Sound(Resumed(h, t))
           /\ Sound(Stopped(h))
           /\ Sound(Halted(h, "limit"))
           /\ Sound(Claimed(h, t))
<1> USE DEF Sound, HarnessRows, PostRunStatuses
<1>a. NextOccurrence(t) \in Nat /\ NextRunAt(b, t) \in Nat /\ NextRunAt(h.wanted, t) \in Nat
    BY DEF NextOccurrence, NextRunAt
<1>1. Sound(Configured(h, b, t)) BY <1>a DEF Configured
<1>2. Sound(Paused(h)) BY DEF Paused, UnlessRunning
<1>3. Sound(Resumed(h, t)) BY <1>a DEF Resumed, UnlessRunning
<1>4. Sound(Stopped(h)) BY DEF Stopped, Halted, UnlessRunning
<1>5. Sound(Halted(h, "limit")) BY DEF Halted
<1>6. Sound(Claimed(h, t)) BY <1>a DEF Claimed, Halted
<1>7. QED BY <1>1, <1>2, <1>3, <1>4, <1>5, <1>6

LEMMA ControlsStartNothing ==
    ASSUME NEW h, Sound(h), NEW t \in Nat, NEW b \in BOOLEAN, h.status # "running"
    PROVE  /\ Configured(h, b, t).status # "running"
           /\ Paused(h).status # "running"
           /\ Resumed(h, t).status # "running"
           /\ Stopped(h).status # "running"
           /\ Halted(h, "limit").status # "running"
           /\ Claimed(h, t).status # "running"
<1> USE DEF Sound, HarnessRows, PostRunStatuses, Halted, UnlessRunning
<1>1. Configured(h, b, t).status # "running" BY DEF Configured
<1>2. Paused(h).status # "running" BY DEF Paused
<1>3. Resumed(h, t).status # "running" BY DEF Resumed
<1>4. Stopped(h).status # "running" BY DEF Stopped
<1>5. Halted(h, "limit").status # "running" OBVIOUS
<1>6. Claimed(h, t).status # "running" BY DEF Claimed
<1>7. QED BY <1>1, <1>2, <1>3, <1>4, <1>5, <1>6

LEMMA HaltedSound ==
    ASSUME NEW h, Sound(h)
    PROVE  Sound(Halted(h, "limit")) /\ Halted(h, "limit").status # "running"
BY DEF Sound, HarnessRows, PostRunStatuses, Halted

LEMMA RunStartedSound ==
    ASSUME NEW h, Sound(h) PROVE Sound(RunStarted(h))
BY DEF Sound, HarnessRows, PostRunStatuses, RunStarted

LEMMA RunEndedSound ==
    ASSUME NEW h, Sound(h)
    PROVE  Sound(RunEnded(h)) /\ RunEnded(h).status # "running"
BY DEF Sound, HarnessRows, PostRunStatuses, RunEnded

LEMMA RunCompletedSound ==
    ASSUME NEW h, Sound(h), NEW b \in BOOLEAN, NEW t \in Nat
    PROVE  Sound(RunCompleted(h, b, t)) /\ RunCompleted(h, b, t).status # "running"
<1> DEFINE counted == [RunEnded(h) EXCEPT !.cycles = h.cycles + 1,
                         !.unproductive = IF b THEN 0 ELSE h.unproductive + 1]
<1>a. h.cycles + 1 \in Nat /\ (IF b THEN 0 ELSE h.unproductive + 1) \in Nat
    BY DEF Sound, HarnessRows
<1>1. Sound(counted) /\ counted.status # "running"
    BY <1>a, RunEndedSound DEF Sound, HarnessRows, PostRunStatuses
<1>2. Sound(Halted(counted, "limit")) /\ Halted(counted, "limit").status # "running"
  <2> HIDE DEF counted
  <2> QED BY <1>1, HaltedSound
<1>3. RunCompleted(h, b, t) = IF LimitReached(counted, t) THEN Halted(counted, "limit") ELSE counted
    BY DEF RunCompleted
<1>4. QED BY <1>1, <1>2, <1>3

-----------------------------------------------------------------------------
(* The store *)

\* Inductive only together: ReadyIsComplete is what forbids a Run to end
\* `ready' or to fail after its commit, and OneActiveRun rests on the types.
Inv ==
    /\ StoreTypeOK
    /\ OneActiveRun
    /\ RunningHasRun
    /\ ReadyIsComplete
    /\ PauseHolds

LEMMA RowTypes ==
    NoRun \in RunRows /\ NoSynth \in SynthRows /\ NoChild \in ChildRows
<1>1. NoRun \in RunRows BY DEF NoRun, RunRows
<1>2. NoSynth \in SynthRows BY DEF NoSynth, SynthRows, Proposals, Malformed
<1>3. NoChild \in ChildRows BY StoreAssumption DEF NoChild, ChildRows
<1>4. QED BY <1>1, <1>2, <1>3

LEMMA InitInv == StoreInit => Inv
<1> SUFFICES ASSUME StoreInit PROVE Inv
    OBVIOUS
<1>1. StoreTypeOK
    BY NewHarnessSound, RowTypes DEF StoreInit, StoreTypeOK, Sound
<1>2. OneActiveRun
    BY DEF StoreInit, OneActiveRun, IsActive, Active, Admitted, Working, NoRun
<1>3. RunningHasRun
    BY NewHarnessSound DEF StoreInit, RunningHasRun
<1>4. ReadyIsComplete
    BY DEF StoreInit, ReadyIsComplete, NoRun, NoSynth
<1>5. PauseHolds
    BY NewHarnessSound DEF StoreInit, PauseHolds, Sound
<1>6. QED BY <1>1, <1>2, <1>3, <1>4, <1>5 DEF Inv

\* The Harness of a state that satisfies Inv.
LEMMA InvSound == ASSUME Inv PROVE Sound(harness) /\ now \in Nat
BY DEF Inv, StoreTypeOK, PauseHolds, Sound

-----------------------------------------------------------------------------
(* Transactions that start, drive and cancel a Run *)

LEMMA CreateRunInv ==
    ASSUME Inv, NEW r \in Runs, NEW due \in Nat, CreateRun(r, due)
    PROVE  Inv'
<1> DEFINE row == [NoRun EXCEPT !.status = "queued", !.start = stateRev, !.due = due]
<1> USE DEF Inv
<1>1. row \in RunRows /\ row.status = "queued"
    BY DEF NoRun, RunRows, StoreTypeOK, Active, Admitted, Working
<1>2. /\ run' = [run EXCEPT ![r] = row]
      /\ harness' = RunStarted(harness)
      /\ UNCHANGED <<synth, child, stateRev, vault, vaultRev, now>>
      /\ run[r].status = "none"
      /\ \A s \in Runs : ~IsActive(s)
    BY DEF CreateRun, IsNext, CanCreate, SomeActive
<1> HIDE DEF row
<1>3. \A s \in Runs : run'[s] = IF s = r THEN row ELSE run[s]
    BY <1>2 DEF StoreTypeOK
<1>4. Sound(harness')
    BY <1>2, InvSound, RunStartedSound
<1>5. StoreTypeOK'
    BY <1>1, <1>2, <1>4 DEF StoreTypeOK, Sound
<1>6. OneActiveRun'
    BY <1>1, <1>2, <1>3 DEF OneActiveRun, IsActive
<1>7. RunningHasRun'
    BY <1>1, <1>3 DEF RunningHasRun, SomeActive, IsActive, Active, Admitted
<1>8. ReadyIsComplete'
    BY <1>1, <1>2, <1>3 DEF ReadyIsComplete, Covered
<1>9. PauseHolds'
    BY <1>4 DEF PauseHolds, Sound
<1>10. QED BY <1>5, <1>6, <1>7, <1>8, <1>9

\* A Run that stays active, keeps its papers or changes them before it has
\* committed, disturbs nothing.
LEMMA StaysActiveInv ==
    ASSUME Inv, NEW r \in Runs, NEW row \in RunRows,
           run[r].status \in Active, row.status \in Active,
           run' = [run EXCEPT ![r] = row],
           UNCHANGED <<harness, synth, stateRev, now>>,
           child' \in [Children -> ChildRows], vault' \in SUBSET Papers, vaultRev' \in Nat
    PROVE  Inv'
<1> USE DEF Inv
<1>1. \A s \in Runs : run'[s] = IF s = r THEN row ELSE run[s]
    BY DEF StoreTypeOK
<1>2. StoreTypeOK'
    BY DEF StoreTypeOK
<1>3. \A s \in Runs : IsActive(s)' <=> IsActive(s)
    BY <1>1 DEF IsActive
<1>4. OneActiveRun'
    BY <1>3 DEF OneActiveRun
<1>5. RunningHasRun'
    BY <1>3 DEF RunningHasRun, SomeActive
<1>6. ReadyIsComplete'
  <2>1. ~synth[r].committed
      BY DEF ReadyIsComplete, Active, Admitted, Working
  <2>2. QED
      BY <1>1, <2>1 DEF ReadyIsComplete, Covered, Active, Admitted, Working
<1>7. PauseHolds'
    BY DEF PauseHolds
<1>8. QED BY <1>2, <1>4, <1>5, <1>6, <1>7

LEMMA DriveInv ==
    ASSUME Inv, NEW r \in Runs,
           \/ ConfigureRun(r) \/ AttachTurn(r) \/ RequestCancel(r) \/ BeginFinalization(r)
           \/ \E p \in Papers : AddPaper(r, p) \/ ReadPaper(r, p)
    PROVE  Inv'
<1> USE DEF Active, Admitted, Working
<1>0. run[r] \in RunRows /\ child \in [Children -> ChildRows] /\ vault \in SUBSET Papers
      /\ vaultRev \in Nat /\ run \in [Runs -> RunRows]
    BY DEF Inv, StoreTypeOK
<1>1. CASE ConfigureRun(r)
  <2> DEFINE row == [run[r] EXCEPT !.status = "planning", !.codex = TRUE]
  <2>1. row \in RunRows /\ row.status \in Active
      BY <1>0 DEF RunRows
  <2>2. /\ run' = [run EXCEPT ![r] = row] /\ run[r].status \in Active
        /\ UNCHANGED <<harness, synth, child, stateRev, vault, vaultRev, now>>
      BY <1>1, <1>0 DEF ConfigureRun
  <2>3. QED BY <1>0, <2>1, <2>2, StaysActiveInv
<1>2. CASE AttachTurn(r)
  <2> DEFINE row == [run[r] EXCEPT !.status = "searching"]
  <2>1. row \in RunRows /\ row.status \in Active
      BY <1>0 DEF RunRows
  <2>2. /\ run' = [run EXCEPT ![r] = row] /\ run[r].status \in Active
        /\ UNCHANGED <<harness, synth, child, stateRev, vault, vaultRev, now>>
      BY <1>2, <1>0 DEF AttachTurn, SetStatus
  <2>3. QED BY <1>0, <2>1, <2>2, StaysActiveInv
<1>3. CASE RequestCancel(r)
  <2> DEFINE row == [run[r] EXCEPT !.status = "canceling"]
  <2>1. row \in RunRows /\ row.status \in Active
      BY <1>0 DEF RunRows
  <2>2. /\ run' = [run EXCEPT ![r] = row] /\ run[r].status \in Active
        /\ UNCHANGED <<harness, synth, stateRev, vault, vaultRev, now>>
      BY <1>3, <1>0 DEF RequestCancel, SetStatus
  <2>3. child' \in [Children -> ChildRows]
      BY <1>3, <1>0 DEF RequestCancel, ChildRows
  <2>4. QED BY <1>0, <2>1, <2>2, <2>3, StaysActiveInv
<1>4. CASE BeginFinalization(r)
  <2> DEFINE row == [run[r] EXCEPT !.status = "reconciling"]
  <2>1. row \in RunRows /\ row.status \in Active
      BY <1>0 DEF RunRows
  <2>2. /\ run' = [run EXCEPT ![r] = row] /\ run[r].status \in Active
        /\ UNCHANGED <<harness, synth, child, stateRev, vault, vaultRev, now>>
      BY <1>4, <1>0 DEF BeginFinalization, SetStatus
  <2>3. QED BY <1>0, <2>1, <2>2, StaysActiveInv
<1>5. ASSUME NEW p \in Papers, AddPaper(r, p) PROVE Inv'
  <2> DEFINE row == IF p \in run[r].added \cup run[r].seen THEN run[r]
                    ELSE IF p \in vault THEN [run[r] EXCEPT !.seen = run[r].seen \cup {p}]
                    ELSE [run[r] EXCEPT !.added = run[r].added \cup {p}]
  <2>1. row \in RunRows /\ row.status = run[r].status /\ run[r].status \in Active
      BY <1>5, <1>0 DEF RunRows, AddPaper
  <2>2. run' = [run EXCEPT ![r] = row]
      BY <1>5, <1>0 DEF AddPaper
  <2>3. UNCHANGED <<harness, synth, child, stateRev, now>>
        /\ vault' \in SUBSET Papers /\ vaultRev' \in Nat
      BY <1>5, <1>0 DEF AddPaper
  <2>4. QED BY <1>0, <2>1, <2>2, <2>3, StaysActiveInv
<1>6. ASSUME NEW p \in Papers, ReadPaper(r, p) PROVE Inv'
  <2> DEFINE row == [run[r] EXCEPT !.read = run[r].read \cup {p}]
  <2>1. row \in RunRows /\ row.status = run[r].status /\ run[r].status \in Active
      BY <1>6, <1>0 DEF RunRows, ReadPaper
  <2>2. /\ run' = [run EXCEPT ![r] = row]
        /\ UNCHANGED <<harness, synth, child, stateRev, vault, vaultRev, now>>
      BY <1>6, <1>0 DEF ReadPaper
  <2>3. QED BY <1>0, <2>1, <2>2, StaysActiveInv
<1>7. QED BY <1>1, <1>2, <1>3, <1>4, <1>5, <1>6

-----------------------------------------------------------------------------
(* Synthesis *)

\* A synthesis that has not committed may be replaced by another.
LEMMA AttemptInv ==
    ASSUME Inv, NEW r \in Runs,
           \/ /\ ~synth[r].committed
              /\ \E p \in Proposals, a \in {"first", "correction"} : SaveAttempt(r, a, p)
           \/ \E b \in BOOLEAN : RecordIssues(r, b)
    PROVE  Inv'
<1> USE DEF Inv
<1> DEFINE Replaced(row) ==
             /\ synth' = [synth EXCEPT ![r] = row]
             /\ row.committed = synth[r].committed
             /\ synth[r].committed => row.proposal = synth[r].proposal
<1>1. \E row \in SynthRows : Replaced(row)
  <2>0. synth[r] \in SynthRows /\ synth \in [Runs -> SynthRows] /\ vaultRev \in Nat
      BY DEF StoreTypeOK
  <2>1. ASSUME NEW p \in Proposals, NEW a \in {"first", "correction"},
               ~synth[r].committed, SaveAttempt(r, a, p)
        PROVE  \E row \in SynthRows : Replaced(row)
    <3> DEFINE row == [attempt |-> a, proposal |-> p,
                       vaultRev |-> IF a = "first" THEN vaultRev ELSE synth[r].vaultRev,
                       prepared |-> FALSE, committed |-> synth[r].committed]
    <3>1. row \in SynthRows
        BY <2>0 DEF SynthRows
    <3>2. synth' = [synth EXCEPT ![r] = row]
        BY <2>1 DEF SaveAttempt
    <3>3. QED BY <2>1, <3>1, <3>2
  <2>2. ASSUME NEW b \in BOOLEAN, RecordIssues(r, b)
        PROVE  \E row \in SynthRows : Replaced(row)
    <3> DEFINE row == [synth[r] EXCEPT !.prepared = b]
    <3>1. row \in SynthRows
        BY <2>0 DEF SynthRows
    <3>2. synth' = [synth EXCEPT ![r] = row]
        BY <2>0, <2>2 DEF RecordIssues
    <3>3. row.committed = synth[r].committed /\ row.proposal = synth[r].proposal
        BY <2>0 DEF SynthRows
    <3>4. QED BY <3>1, <3>2, <3>3
  <2>3. QED BY <2>1, <2>2
<1>2. UNCHANGED <<harness, run, child, stateRev, vault, vaultRev, now>>
    BY DEF SaveAttempt, RecordIssues
<1>3. StoreTypeOK'
    BY <1>1, <1>2 DEF StoreTypeOK
<1>4. OneActiveRun' /\ RunningHasRun' /\ PauseHolds'
    BY <1>2 DEF OneActiveRun, RunningHasRun, SomeActive, IsActive, PauseHolds
<1>5. ReadyIsComplete'
    BY <1>1, <1>2 DEF ReadyIsComplete, Covered, StoreTypeOK
<1>6. QED BY <1>3, <1>4, <1>5

\* A transaction that ends the active Run r, or fails it again, and settles
\* the Harness.
LEMMA EndedInv ==
    ASSUME Inv, NEW r \in Runs, NEW status \in Terminal, NEW h, NEW row \in SynthRows,
           run' = [run EXCEPT ![r].status = status],
           synth' = [synth EXCEPT ![r] = row],
           status = "ready" <=> row.committed,
           row.proposal = synth[r].proposal,
           row.committed => row.proposal.shape = "valid" /\ Covered(r),
           harness' = h, Sound(h), h.status # "running",
           UNCHANGED <<child, now>>,
           stateRev' \in Nat, vault' \in SUBSET Papers, vaultRev' \in Nat
    PROVE  Inv'
<1> USE DEF Inv
<1>1. \A s \in Runs : run'[s] = IF s = r THEN [run[r] EXCEPT !.status = status] ELSE run[s]
    BY DEF StoreTypeOK
<1>2. \A s \in Runs : synth'[s] = IF s = r THEN row ELSE synth[s]
    BY DEF StoreTypeOK
<1>3. StoreTypeOK'
  <2>1. [run[r] EXCEPT !.status = status] \in RunRows
      BY DEF StoreTypeOK, RunRows
  <2>2. run' = [run EXCEPT ![r] = [run[r] EXCEPT !.status = status]]
      BY DEF StoreTypeOK
  <2>3. QED BY <2>1, <2>2 DEF StoreTypeOK, Sound
<1>4. \A s \in Runs : IsActive(s)' => IsActive(s)
    BY <1>1 DEF IsActive, Active, Admitted, Working, Terminal, StoreTypeOK, RunRows
<1>5. OneActiveRun'
    BY <1>4 DEF OneActiveRun
<1>6. RunningHasRun' /\ PauseHolds'
    BY DEF RunningHasRun, PauseHolds, Sound
<1>7. ReadyIsComplete'
  <2> SUFFICES ASSUME NEW s \in Runs
               PROVE  /\ run'[s].status = "ready" <=> synth'[s].committed
                      /\ synth'[s].committed => synth'[s].proposal.shape = "valid" /\ Covered(s)'
      BY DEF ReadyIsComplete
  <2>1. CASE s = r
    <3>1. /\ run'[s].status = status /\ run'[s].added = run[s].added
          /\ run'[s].read = run[s].read
        BY <1>1, <2>1 DEF StoreTypeOK, RunRows
    <3>2. QED BY <1>2, <2>1, <3>1 DEF Covered
  <2>2. CASE s # r
      BY <1>1, <1>2, <2>2 DEF ReadyIsComplete, Covered
  <2>3. QED BY <2>1, <2>2
<1>8. QED BY <1>3, <1>5, <1>6, <1>7

LEMMA FinalizeSynthesisInv ==
    ASSUME Inv, NEW r \in Runs, FinalizeSynthesis(r)
    PROVE  Inv'
<1> DEFINE p == synth[r].proposal
           row == [synth[r] EXCEPT !.committed = TRUE, !.prepared = TRUE]
           h == RunCompleted(harness, Productive(r), now)
<1>1. synth[r] \in SynthRows /\ stateRev \in Nat /\ vaultRev \in Nat /\ vault \in SUBSET Papers
      /\ synth \in [Runs -> SynthRows]
    BY DEF Inv, StoreTypeOK
<1>2. row \in SynthRows /\ row.committed /\ row.proposal = synth[r].proposal
    BY <1>1 DEF SynthRows
<1>3. /\ run' = [run EXCEPT ![r].status = "ready"]
      /\ synth' = [synth EXCEPT ![r] = row]
      /\ harness' = h /\ UNCHANGED <<child, now>>
      /\ vault' = vault \ p.drop
      /\ stateRev' = IF p.changes THEN stateRev + 1 ELSE stateRev
      /\ vaultRev' = IF p.drop \cap vault = {} THEN vaultRev ELSE vaultRev + 1
    BY <1>1 DEF FinalizeSynthesis, SetStatus
<1>4. p.shape = "valid" /\ Covered(r)
    BY DEF FinalizeSynthesis, CanCommit, Disposed
<1>5. Productive(r) \in BOOLEAN
    BY <1>1 DEF Productive, SynthRows, Proposals, Malformed
<1>6. Sound(h) /\ h.status # "running"
    BY <1>5, InvSound, RunCompletedSound
<1>7. stateRev' \in Nat /\ vaultRev' \in Nat /\ vault' \in SUBSET Papers
    BY <1>1, <1>3
<1> HIDE DEF row, h, p
<1>8. "ready" \in Terminal
    BY DEF Terminal
<1>9. row.proposal.shape = "valid"
    BY <1>2, <1>4 DEF p
<1>10. QED BY <1>2, <1>3, <1>4, <1>6, <1>7, <1>8, <1>9, EndedInv

LEMMA EndRunInv ==
    ASSUME Inv, NEW r \in Runs,
           \/ \E s \in Terminal : FinishRun(r, s)
           \/ run[r].status \notin {"ready", "cancelled"} /\ FailRun(r)
    PROVE  Inv'
<1>1. synth[r] \in SynthRows /\ synth \in [Runs -> SynthRows]
    BY DEF Inv, StoreTypeOK
<1>2. Sound(RunEnded(harness)) /\ RunEnded(harness).status # "running"
    BY InvSound, RunEndedSound
<1>3. synth' = [synth EXCEPT ![r] = synth[r]]
    BY <1>1 DEF FinishRun, FailRun
<1>4. run[r].status # "ready" => ~synth[r].committed
    BY DEF Inv, ReadyIsComplete
<1>5. stateRev' \in Nat /\ vaultRev' \in Nat /\ vault' \in SUBSET Papers
    BY DEF FinishRun, FailRun, Inv, StoreTypeOK
<1>6. ASSUME NEW s \in Terminal, FinishRun(r, s) PROVE Inv'
  <2>1. ~synth[r].committed /\ s # "ready"
      BY <1>4, <1>6 DEF FinishRun, Active, Admitted, Working
  <2>2. /\ run' = [run EXCEPT ![r].status = s] /\ harness' = RunEnded(harness)
        /\ UNCHANGED <<child, now>>
      BY <1>6 DEF FinishRun, SetStatus
  <2>3. QED BY <1>1, <1>2, <1>3, <1>5, <2>1, <2>2, EndedInv
<1>7. CASE run[r].status \notin {"ready", "cancelled"} /\ FailRun(r)
  <2>1. /\ run' = [run EXCEPT ![r].status = "failed"] /\ harness' = RunEnded(harness)
        /\ UNCHANGED <<child, now>>
      BY <1>7 DEF FailRun, SetStatus
  <2>2. ~synth[r].committed /\ "failed" \in Terminal
      BY <1>4, <1>7 DEF Terminal
  <2>3. QED BY <1>1, <1>2, <1>3, <1>5, <2>1, <2>2, EndedInv
<1>8. QED BY <1>6, <1>7

LEMMA RecoverInterruptedInv ==
    ASSUME Inv, RecoverInterrupted
    PROVE  Inv'
<1> USE DEF Inv
<1>1. \A r \in Runs :
        /\ run'[r] \in RunRows
        /\ run'[r].status = IF IsActive(r) THEN "failed" ELSE run[r].status
        /\ run'[r].added = run[r].added /\ run'[r].read = run[r].read
    BY DEF RecoverInterrupted, StoreTypeOK, RunRows, Active, Admitted, Working, Terminal
<1>2. child' \in [Children -> ChildRows]
  <2>1. \A c \in Children : child[c] \in ChildRows
      BY DEF StoreTypeOK
  <2>2. \A c \in Children : child'[c] \in ChildRows
      BY <2>1 DEF RecoverInterrupted, ChildRows, Terminal
  <2>3. QED BY <2>2 DEF RecoverInterrupted
<1>3. Sound(harness') /\ harness'.status # "running"
    BY InvSound, RunEndedSound DEF RecoverInterrupted
<1>4. UNCHANGED <<synth, stateRev, vault, vaultRev, now>>
    BY DEF RecoverInterrupted
<1>5. StoreTypeOK'
    BY <1>1, <1>2, <1>3, <1>4 DEF StoreTypeOK, Sound, RecoverInterrupted
<1>6. \A r \in Runs : ~IsActive(r)'
    BY <1>1 DEF IsActive, Active, Admitted, Working
<1>7. OneActiveRun' /\ RunningHasRun' /\ PauseHolds'
    BY <1>3, <1>6 DEF OneActiveRun, RunningHasRun, PauseHolds, Sound
<1>8. ReadyIsComplete'
  <2> SUFFICES ASSUME NEW r \in Runs
               PROVE  /\ run'[r].status = "ready" <=> synth[r].committed
                      /\ synth[r].committed => synth[r].proposal.shape = "valid" /\ Covered(r)'
      BY <1>4 DEF ReadyIsComplete
  <2>1. run'[r].status = "ready" <=> run[r].status = "ready"
      BY <1>1 DEF IsActive, Active, Admitted, Working
  <2>2. Covered(r)' <=> Covered(r)
      BY <1>1, <1>4 DEF Covered
  <2>3. QED BY <2>1, <2>2 DEF ReadyIsComplete
<1>9. QED BY <1>5, <1>7, <1>8

-----------------------------------------------------------------------------
(* Child Searches, the researcher's edits, the clock and the Harness *)

LEMMA ChildInv ==
    ASSUME Inv,
           \/ \E c \in Children, r \in Runs : CreateChild(c, r)
           \/ \E S \in SUBSET Children : CancelChildren(S)
           \/ \E c \in Children, s \in ActiveChild \cup Terminal : SetChildStatus(c, s)
    PROVE  Inv'
<1> USE DEF Inv
<1>1. \A c \in Children : child[c] \in ChildRows
    BY DEF StoreTypeOK
<1>2. child' \in [Children -> ChildRows]
  <2>1. ASSUME NEW c \in Children, NEW r \in Runs, CreateChild(c, r)
        PROVE  child' \in [Children -> ChildRows]
    <3>1. [parent |-> r, status |-> "queued", cancel |-> FALSE] \in ChildRows
        BY StoreAssumption DEF ChildRows, ActiveChild, Runs
    <3>2. QED BY <2>1, <3>1 DEF CreateChild, StoreTypeOK
  <2>2. ASSUME NEW S \in SUBSET Children, CancelChildren(S)
        PROVE  child' \in [Children -> ChildRows]
      BY <1>1, <2>2 DEF CancelChildren, ChildRows
  <2>3. ASSUME NEW c \in Children, NEW s \in ActiveChild \cup Terminal, SetChildStatus(c, s)
        PROVE  child' \in [Children -> ChildRows]
    <3>1. [child[c] EXCEPT !.status = s] \in ChildRows
        BY <1>1 DEF ChildRows
    <3>2. child' = [child EXCEPT ![c] = [child[c] EXCEPT !.status = s]]
        BY <2>3 DEF SetChildStatus, StoreTypeOK
    <3>3. QED BY <3>1, <3>2 DEF StoreTypeOK
  <2>4. QED BY <2>1, <2>2, <2>3
<1>3. UNCHANGED <<harness, run, synth, stateRev, vault, vaultRev, now>>
    BY DEF CreateChild, CancelChildren, SetChildStatus
<1>4. StoreTypeOK'
    BY <1>2, <1>3 DEF StoreTypeOK
<1>5. OneActiveRun' /\ RunningHasRun' /\ PauseHolds' /\ ReadyIsComplete'
    BY <1>3 DEF OneActiveRun, RunningHasRun, SomeActive, IsActive, PauseHolds, ReadyIsComplete,
       Covered
<1>6. QED BY <1>4, <1>5

LEMMA EditInv ==
    ASSUME Inv, EditState \/ (\E p \in Papers : EditVault(p)) \/ ClockTick
    PROVE  Inv'
<1> USE DEF Inv
<1>1. UNCHANGED <<harness, run, synth, child>>
    BY DEF EditState, EditVault, ClockTick
<1>2. stateRev' \in Nat /\ vault' \in SUBSET Papers /\ vaultRev' \in Nat /\ now' \in Nat
    BY DEF EditState, EditVault, ClockTick, StoreTypeOK
<1>3. StoreTypeOK'
    BY <1>1, <1>2 DEF StoreTypeOK
<1>4. OneActiveRun' /\ RunningHasRun' /\ PauseHolds' /\ ReadyIsComplete'
    BY <1>1 DEF OneActiveRun, RunningHasRun, SomeActive, IsActive, PauseHolds, ReadyIsComplete,
       Covered
<1>5. QED BY <1>3, <1>4

LEMMA DeletePaperInv ==
    ASSUME Inv, NEW p \in Papers, DeletePaper(p)
    PROVE  Inv'
<1> USE DEF Inv
<1>1. run \in [Runs -> RunRows]
    BY DEF StoreTypeOK
<1>2. \A r \in Runs :
        /\ run'[r] \in RunRows /\ run'[r].status = run[r].status
        /\ run'[r].added = run[r].added \ {p} /\ run'[r].read = run[r].read \ {p}
  <2> SUFFICES ASSUME NEW r \in Runs
               PROVE  /\ run'[r] \in RunRows /\ run'[r].status = run[r].status
                      /\ run'[r].added = run[r].added \ {p}
                      /\ run'[r].read = run[r].read \ {p}
      OBVIOUS
  <2>1. run[r] \in RunRows
      BY <1>1
  <2>2. run'[r] = [run[r] EXCEPT !.added = run[r].added \ {p},
                                 !.seen = run[r].seen \ {p}, !.read = run[r].read \ {p}]
      BY DEF DeletePaper
  <2>3. QED BY <2>1, <2>2 DEF RunRows
<1>3. vault' \in SUBSET Papers /\ vaultRev' \in Nat
  <2>1. vault \in SUBSET Papers /\ vaultRev \in Nat
      BY DEF StoreTypeOK
  <2>2. vault' = vault \ {p} /\ vaultRev' = IF p \in vault THEN vaultRev + 1 ELSE vaultRev
      BY DEF DeletePaper
  <2>3. QED BY <2>1, <2>2
<1>4. UNCHANGED <<harness, synth, child, stateRev, now>>
    BY DEF DeletePaper
<1>5. StoreTypeOK'
  <2>1. run' = [r \in Runs |-> run'[r]]
      BY DEF DeletePaper
  <2>2. run' \in [Runs -> RunRows]
      BY <1>2, <2>1
  <2>3. QED BY <1>3, <1>4, <2>2 DEF StoreTypeOK
<1>6. OneActiveRun' /\ RunningHasRun' /\ PauseHolds'
    BY <1>2, <1>4 DEF OneActiveRun, RunningHasRun, SomeActive, IsActive, PauseHolds
<1>7. ReadyIsComplete'
    BY <1>2, <1>4 DEF ReadyIsComplete, Covered
<1>8. QED BY <1>5, <1>6, <1>7

\* The disjuncts of ProjectStep that write the Harness row alone.
Controlled ==
    \/ \E b \in BOOLEAN : SaveConfiguration(b)
    \/ PauseHarness \/ ResumeHarness \/ StopHarness \/ HaltHarness \/ ClaimDue

LEMMA ControlledInv ==
    ASSUME Inv, Controlled
    PROVE  Inv'
<1> USE DEF Inv
<1>1. Sound(harness) /\ now \in Nat
    BY InvSound
<1>2. UNCHANGED <<run, synth, child, stateRev, vault, vaultRev, now>>
    BY DEF Controlled, SaveConfiguration, PauseHarness, ResumeHarness, StopHarness,
       HaltHarness, ClaimDue, SetHarness
<1>3. Sound(harness')
    BY <1>1, ControlsSound DEF Controlled, SaveConfiguration, PauseHarness, ResumeHarness,
       StopHarness, HaltHarness, ClaimDue, SetHarness
<1>4. harness.status # "running" => harness'.status # "running"
  <2> SUFFICES ASSUME harness.status # "running" PROVE harness'.status # "running"
      OBVIOUS
  <2>1. \A b \in BOOLEAN : Configured(harness, b, now).status # "running"
      BY <1>1, ControlsStartNothing
  <2>2. /\ Paused(harness).status # "running"
        /\ Resumed(harness, now).status # "running"
        /\ Stopped(harness).status # "running"
        /\ Halted(harness, "limit").status # "running"
        /\ Claimed(harness, now).status # "running"
      BY <1>1, TRUE \in BOOLEAN, ControlsStartNothing
  <2>3. QED
      BY <2>1, <2>2 DEF Controlled, SaveConfiguration, PauseHarness, ResumeHarness,
         StopHarness, HaltHarness, ClaimDue, SetHarness
<1>5. StoreTypeOK'
    BY <1>2, <1>3 DEF StoreTypeOK, Sound
<1>6. OneActiveRun' /\ ReadyIsComplete' /\ PauseHolds'
    BY <1>2, <1>3 DEF OneActiveRun, IsActive, ReadyIsComplete, Covered, PauseHolds, Sound
<1>7. RunningHasRun'
    BY <1>2, <1>4 DEF RunningHasRun, SomeActive, IsActive
<1>8. QED BY <1>5, <1>6, <1>7

-----------------------------------------------------------------------------
(* Every transaction *)

LEMMA NextInv == Inv /\ [StoreNext]_storeVars => Inv'
<1> SUFFICES ASSUME Inv, [StoreNext]_storeVars PROVE Inv'
    OBVIOUS
<1>1. ASSUME NEW r \in Runs, RunStep(r) PROVE Inv'
  <2>1. ASSUME NEW due \in 0 .. now, CreateRun(r, due) PROVE Inv'
    <3>1. due \in Nat
        BY DEF Inv, StoreTypeOK
    <3>2. QED BY <2>1, <3>1, CreateRunInv
  <2>2. CASE \/ ConfigureRun(r) \/ AttachTurn(r) \/ RequestCancel(r) \/ BeginFinalization(r)
             \/ \E p \in Papers : AddPaper(r, p) \/ ReadPaper(r, p)
      BY <2>2, DriveInv
  <2>3. CASE \/ /\ ~synth[r].committed
                /\ \E p \in Proposals, a \in {"first", "correction"} : SaveAttempt(r, a, p)
             \/ \E b \in BOOLEAN : RecordIssues(r, b)
      BY <2>3, AttemptInv
  <2>4. CASE FinalizeSynthesis(r)
      BY <2>4, FinalizeSynthesisInv
  <2>5. CASE \/ \E s \in Terminal : FinishRun(r, s)
             \/ run[r].status \notin {"ready", "cancelled"} /\ FailRun(r)
      BY <2>5, EndRunInv
  <2>6. CASE \E c \in Children : CreateChild(c, r)
      BY <2>6, ChildInv
  <2>7. QED BY <1>1, <2>1, <2>2, <2>3, <2>4, <2>5, <2>6 DEF RunStep
<1>2. CASE ProjectStep
  <2>1. CASE RecoverInterrupted
      BY <2>1, RecoverInterruptedInv
  <2>2. CASE \/ \E S \in SUBSET Children : CancelChildren(S)
             \/ \E c \in Children, s \in ActiveChild \cup Terminal : SetChildStatus(c, s)
      BY <2>2, ChildInv
  <2>3. CASE EditState \/ (\E p \in Papers : EditVault(p)) \/ ClockTick
      BY <2>3, EditInv
  <2>4. CASE Controlled
      BY <2>4, ControlledInv
  <2>5. CASE \E p \in Papers : DeletePaper(p)
      BY <2>5, DeletePaperInv
  <2>6. QED BY <1>2, <2>1, <2>2, <2>3, <2>4, <2>5 DEF ProjectStep, Controlled
<1>3. CASE UNCHANGED storeVars
    BY <1>3 DEF storeVars, Inv, StoreTypeOK, OneActiveRun, RunningHasRun, SomeActive, IsActive,
       ReadyIsComplete, Covered, PauseHolds
<1>4. QED BY <1>1, <1>2, <1>3 DEF StoreNext

LEMMA StoreInv == StoreSpec => []Inv
BY InitInv, NextInv, PTL DEF StoreSpec

-----------------------------------------------------------------------------
(* The cycles *)

Ready == {r \in Runs : run[r].status = "ready"}

LEMMA ReadyFinite == IsFiniteSet(Ready)
<1>1. IsFiniteSet(Runs)
    BY StoreAssumption, FS_Interval DEF Runs
<1>2. QED BY <1>1, FS_Subset DEF Ready

\* None of the operators of Harness counts a cycle, but RunCompleted.
LEMMA CyclesKept ==
    ASSUME NEW h, Sound(h), NEW t \in Nat, NEW b \in BOOLEAN
    PROVE  /\ Configured(h, b, t).cycles = h.cycles
           /\ Paused(h).cycles = h.cycles
           /\ Resumed(h, t).cycles = h.cycles
           /\ Stopped(h).cycles = h.cycles
           /\ Halted(h, "limit").cycles = h.cycles
           /\ Claimed(h, t).cycles = h.cycles
           /\ RunStarted(h).cycles = h.cycles
           /\ RunEnded(h).cycles = h.cycles
           /\ RunCompleted(h, b, t).cycles = h.cycles + 1
BY DEF Sound, HarnessRows, Configured, Paused, Resumed, Stopped, Halted, Claimed, RunStarted,
       RunEnded, RunCompleted

\* A transaction that makes no Run ready, and none less so, must count none.
LEMMA SameReady ==
    ASSUME CyclesCounted, harness'.cycles = harness.cycles,
           \A r \in Runs : run'[r].status = "ready" <=> run[r].status = "ready"
    PROVE  CyclesCounted'
<1>1. Ready' = Ready
    BY DEF Ready
<1>2. QED BY <1>1 DEF CyclesCounted, Ready

\* Only finalize_synthesis makes a Run ready: finish_codex_harness_run refuses
\* `ready' to a Run whose synthesis has not committed, and one whose synthesis
\* has is over.
LEMMA RunStepReady ==
    ASSUME Inv, NEW r \in Runs, RunStep(r), ~FinalizeSynthesis(r)
    PROVE  \A s \in Runs : run'[s].status = "ready" <=> run[s].status = "ready"
<1>1. run \in [Runs -> RunRows]
    BY DEF Inv, StoreTypeOK
<1>2. CASE \E s \in Terminal : FinishRun(r, s)
  <2>1. PICK status \in Terminal : FinishRun(r, status)
      BY <1>2
  <2>2. run[r].status # "ready" /\ ~synth[r].committed
      BY <2>1 DEF FinishRun, Inv, ReadyIsComplete, Active, Admitted, Working
  <2>3. status # "ready"
      BY <2>1, <2>2 DEF FinishRun
  <2>4. QED BY <1>1, <2>1, <2>2, <2>3 DEF FinishRun, SetStatus, RunRows
<1>3. CASE \E due \in 0 .. now : CreateRun(r, due)
    BY <1>1, <1>3 DEF CreateRun, IsNext, NoRun, RunRows
<1>4. CASE ConfigureRun(r) \/ AttachTurn(r) \/ RequestCancel(r) \/ BeginFinalization(r)
    BY <1>1, <1>4 DEF ConfigureRun, AttachTurn, RequestCancel, BeginFinalization, SetStatus,
       RunRows, Admitted, Working
<1>5. CASE run[r].status \notin {"ready", "cancelled"} /\ FailRun(r)
    BY <1>1, <1>5 DEF FailRun, SetStatus, RunRows
<1>6. CASE \E p \in Papers : AddPaper(r, p) \/ ReadPaper(r, p)
    BY <1>1, <1>6 DEF AddPaper, ReadPaper, RunRows
<1>7. CASE UNCHANGED run
    BY <1>7
<1>8. (\E p \in Proposals, a \in {"first", "correction"} : SaveAttempt(r, a, p))
      \/ (\E b \in BOOLEAN : RecordIssues(r, b)) \/ (\E c \in Children : CreateChild(c, r))
      => UNCHANGED run
    BY DEF SaveAttempt, RecordIssues, CreateChild
<1>9. QED BY <1>2, <1>3, <1>4, <1>5, <1>6, <1>7, <1>8 DEF RunStep

LEMMA RunStepCycles ==
    ASSUME Inv, NEW r \in Runs, RunStep(r), ~FinalizeSynthesis(r)
    PROVE  harness'.cycles = harness.cycles
<1>1. Sound(harness) /\ now \in Nat /\ TRUE \in BOOLEAN
    BY InvSound
<1>2. harness' \in {harness, RunStarted(harness), RunEnded(harness)}
    BY DEF RunStep, CreateRun, ConfigureRun, AttachTurn, RequestCancel, BeginFinalization,
       SaveAttempt, RecordIssues, FinishRun, FailRun, CreateChild, AddPaper, ReadPaper
<1>3. QED BY <1>1, <1>2, CyclesKept

LEMMA FinalizeSynthesisCycles ==
    ASSUME Inv, CyclesCounted, NEW r \in Runs, FinalizeSynthesis(r)
    PROVE  CyclesCounted'
<1>1. Sound(harness) /\ now \in Nat
    BY InvSound
<1>2. Productive(r) \in BOOLEAN
    BY DEF Productive, Inv, StoreTypeOK, SynthRows, Proposals, Malformed
<1>3. harness'.cycles = harness.cycles + 1
    BY <1>1, <1>2, CyclesKept DEF FinalizeSynthesis
<1>4. r \notin Ready
    BY DEF Ready, FinalizeSynthesis, CanCommit, Unconflicted
<1>5. Ready' = Ready \cup {r}
    BY DEF Ready, FinalizeSynthesis, SetStatus, Inv, StoreTypeOK, RunRows
<1>6. Cardinality(Ready') = Cardinality(Ready) + 1
    BY <1>4, <1>5, ReadyFinite, FS_AddElement
<1>7. QED BY <1>3, <1>6 DEF CyclesCounted, Ready

LEMMA ProjectStepCycles ==
    ASSUME Inv, CyclesCounted, ProjectStep
    PROVE  CyclesCounted'
<1>1. Sound(harness) /\ now \in Nat /\ TRUE \in BOOLEAN /\ run \in [Runs -> RunRows]
    BY InvSound DEF Inv, StoreTypeOK
<1>2. CASE Controlled
  <2>1. UNCHANGED run
      BY <1>2 DEF Controlled, SaveConfiguration, PauseHarness, ResumeHarness, StopHarness,
         HaltHarness, ClaimDue, SetHarness
  <2>2. harness'.cycles = harness.cycles
    <3>1. \A b \in BOOLEAN : Configured(harness, b, now).cycles = harness.cycles
        BY <1>1, CyclesKept
    <3>2. /\ Paused(harness).cycles = harness.cycles
          /\ Resumed(harness, now).cycles = harness.cycles
          /\ Stopped(harness).cycles = harness.cycles
          /\ Halted(harness, "limit").cycles = harness.cycles
          /\ Claimed(harness, now).cycles = harness.cycles
        BY <1>1, CyclesKept
    <3>3. \/ \E b \in BOOLEAN : harness' = Configured(harness, b, now)
          \/ harness' \in {Paused(harness), Resumed(harness, now), Stopped(harness),
                           Halted(harness, "limit"), Claimed(harness, now)}
        BY <1>2 DEF Controlled, SaveConfiguration, PauseHarness, ResumeHarness, StopHarness,
           HaltHarness, ClaimDue, SetHarness
    <3>4. QED BY <3>1, <3>2, <3>3
  <2>3. QED BY <2>1, <2>2, SameReady
<1>3. CASE RecoverInterrupted
  <2>1. harness'.cycles = harness.cycles
      BY <1>1, <1>3, CyclesKept DEF RecoverInterrupted
  <2>2. \A r \in Runs : run'[r].status = "ready" <=> run[r].status = "ready"
      BY <1>1, <1>3 DEF RecoverInterrupted, RunRows, IsActive, Active, Admitted, Working
  <2>3. QED BY <2>1, <2>2, SameReady
<1>4. CASE \E p \in Papers : DeletePaper(p)
  <2>1. UNCHANGED harness
      BY <1>4 DEF DeletePaper
  <2>2. \A r \in Runs : run'[r].status = run[r].status
      BY <1>1, <1>4 DEF DeletePaper, RunRows
  <2>3. QED BY <2>1, <2>2, SameReady
<1>5. CASE \/ \E S \in SUBSET Children : CancelChildren(S)
           \/ \E c \in Children, s \in ActiveChild \cup Terminal : SetChildStatus(c, s)
           \/ EditState \/ (\E p \in Papers : EditVault(p)) \/ ClockTick
  <2>1. UNCHANGED <<harness, run>>
      BY <1>5 DEF CancelChildren, SetChildStatus, EditState, EditVault, ClockTick
  <2>2. QED BY <2>1, SameReady
<1>6. QED BY <1>2, <1>3, <1>4, <1>5 DEF ProjectStep, Controlled

LEMMA NextCycles == Inv /\ CyclesCounted /\ [StoreNext]_storeVars => CyclesCounted'
<1> SUFFICES ASSUME Inv, CyclesCounted, [StoreNext]_storeVars PROVE CyclesCounted'
    OBVIOUS
<1>1. ASSUME NEW r \in Runs, RunStep(r) PROVE CyclesCounted'
  <2>1. CASE FinalizeSynthesis(r)
      BY <2>1, FinalizeSynthesisCycles
  <2>2. CASE ~FinalizeSynthesis(r)
      BY <1>1, <2>2, RunStepReady, RunStepCycles, SameReady
  <2>3. QED BY <2>1, <2>2
<1>2. CASE ProjectStep
    BY <1>2, ProjectStepCycles
<1>3. CASE UNCHANGED storeVars
    BY <1>3, SameReady DEF storeVars
<1>4. QED BY <1>1, <1>2, <1>3 DEF StoreNext

LEMMA InitCycles == StoreInit => CyclesCounted
<1> SUFFICES ASSUME StoreInit PROVE CyclesCounted
    OBVIOUS
<1>1. Ready = {}
    BY DEF Ready, StoreInit, NoRun
<1>2. Cardinality(Ready) = 0
    BY <1>1, FS_EmptySet
<1>3. QED BY <1>2 DEF CyclesCounted, Ready, StoreInit, NewHarness

\* Each ready Run, and no other, is counted once against maximum_cycles
\* (settle_harness_after_run), whichever way the other Runs end.
THEOREM CyclesCountedHolds == StoreSpec => []CyclesCounted
BY InitCycles, NextCycles, StoreInv, PTL DEF StoreSpec

-----------------------------------------------------------------------------
(* The properties *)

\* Every row of the store stays within its type.
THEOREM StoreTypeCorrect == StoreSpec => []StoreTypeOK
BY StoreInv, PTL DEF Inv

\* The Project never has two active Runs (create_harness_run_with_trigger and
\* its unique index), whatever ends, fails or recovers Runs.
THEOREM OneActiveRunHolds == StoreSpec => []OneActiveRun
BY StoreInv, PTL DEF Inv

\* The Harness never shows `running' without an active Run
\* (settle_harness_after_run and its siblings).
THEOREM RunningHasRunHolds == StoreSpec => []RunningHasRun
BY StoreInv, PTL DEF Inv

\* A Run is ready exactly when its synthesis has committed, and what it
\* committed stays valid and complete (finalize_synthesis).
THEOREM ReadyIsCompleteHolds == StoreSpec => []ReadyIsComplete
BY StoreInv, PTL DEF Inv

\* No transaction loses a pause (requested_post_run_status).
THEOREM PauseHoldsAlways == StoreSpec => []PauseHolds
BY StoreInv, PTL DEF Inv

=============================================================================
