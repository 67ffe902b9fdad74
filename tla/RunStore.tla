------------------------------ MODULE RunStore ------------------------------
(***************************************************************************)
(* The SQLite store of one Project's managed Research Runs: every          *)
(* transaction of library_store.rs and research_finalization.rs that       *)
(* writes a Run, its child Searches, its paper additions, its synthesis    *)
(* attempts, the Research State head, the Vault or the Harness row.        *)
(*                                                                         *)
(* A transaction is one action.  StoreSpec lets any transaction happen at  *)
(* any time, whoever calls it; ResearchRun is the controller that calls    *)
(* them, and implements StoreSpec.                                         *)
(***************************************************************************)
EXTENDS Harness, FiniteSets

CONSTANTS
    MaxRuns,    \* Runs the Project starts
    Children,   \* agent-owned child Searches (agent_search_runs)
    Papers      \* papers the Vault may hold

ASSUME StoreAssumption == MaxRuns \in Nat

Runs == 1 .. MaxRuns    \* in the order they are created; 0 stands for no Run

VARIABLES
    harness,    \* research_harnesses
    run,        \* harness_runs, with agent_vault_additions and agent_reader_usage
    synth,      \* research_synthesis_attempts: the latest attempt of each Run
    child,      \* agent_search_runs joined with search_runs
    stateRev,   \* research_state_heads.current_revision
    vault,      \* vault_papers
    vaultRev,   \* vaults.membership_revision
    now         \* wall clock

storeVars == <<harness, run, synth, child, stateRev, vault, vaultRev, now>>

-----------------------------------------------------------------------------
\* A managed Run goes queued -> planning -> searching -> reconciling; the
\* statuses assessing and ranking belong to the older search-driven Runs.
Working == {"planning", "searching"}
Admitted == {"queued", "reconciling"} \cup Working
Active == Admitted \cup {"canceling"}
Terminal == {"ready", "failed", "cancelled"}
ActiveChild == {"queued", "running"}

RunRows ==
    [status : {"none"} \cup Active \cup Terminal,
     codex  : BOOLEAN,          \* execution_kind = 'codex_agent'
     start  : Nat,              \* starting_state_revision
     due    : Nat,              \* scheduled_for, 0 for a manual Run
     added  : SUBSET Papers,    \* additions with membership_added = 1
     seen   : SUBSET Papers,    \* additions of papers already in the Vault
     read   : SUBSET Papers]    \* papers with a Reader attempt

\* The final message of a Codex turn: wrong beyond repair, wrong in a way one
\* correction may repair, or well formed.
Malformed(shape) == [shape |-> shape, changes |-> FALSE, keep |-> {}, drop |-> {}]

Proposals ==
    {Malformed("fatal"), Malformed("repairable")} \cup
    [shape   : {"valid"},
     changes : BOOLEAN,         \* it changes the Research State
     keep    : SUBSET Papers,   \* papers it disposes of as retained
     drop    : SUBSET Papers]   \* papers it disposes of as irrelevant

SynthRows ==
    [attempt   : {"none", "first", "correction"},
     proposal  : Proposals,
     vaultRev  : Nat,           \* vault_revision captured with the first attempt
     prepared  : BOOLEAN,       \* issues = '[]'
     committed : BOOLEAN]       \* an attempt of the Run has committed

ChildRows ==
    [parent : 0 .. MaxRuns,
     status : {"none"} \cup ActiveChild \cup Terminal,
     cancel : BOOLEAN]          \* cancel_requested

NoRun == [status |-> "none", codex |-> FALSE, start |-> 0, due |-> 0,
          added |-> {}, seen |-> {}, read |-> {}]

NoSynth == [attempt |-> "none",
            proposal |-> Malformed("fatal"),
            vaultRev |-> 0, prepared |-> FALSE, committed |-> FALSE]

NoChild == [parent |-> 0, status |-> "none", cancel |-> FALSE]

StoreTypeOK ==
    /\ harness \in HarnessRows
    /\ run \in [Runs -> RunRows]
    /\ synth \in [Runs -> SynthRows]
    /\ child \in [Children -> ChildRows]
    /\ stateRev \in Nat
    /\ vault \in SUBSET Papers
    /\ vaultRev \in Nat
    /\ now \in Nat

StoreInit ==
    /\ harness = NewHarness
    /\ run = [r \in Runs |-> NoRun]
    /\ synth = [r \in Runs |-> NoSynth]
    /\ child = [c \in Children |-> NoChild]
    /\ stateRev = 0
    /\ vault = {}
    /\ vaultRev = 0
    /\ now = 0

-----------------------------------------------------------------------------
IsActive(r) == run[r].status \in Active
SomeActive == \E r \in Runs : IsActive(r)

HasActiveChild(r) ==
    \E c \in Children : child[c].parent = r /\ child[c].status \in ActiveChild

SetStatus(r, status) == run' = [run EXCEPT ![r].status = status]

\* The next id to be allocated: Runs are created in increasing order.
IsNext(r) ==
    /\ run[r].status = "none"
    /\ \A s \in Runs : s < r => run[s].status # "none"

\* order by started_at desc limit 1, among the managed Runs of the Project.
IsLatestManaged(r) ==
    /\ run[r].codex
    /\ \A s \in Runs : run[s].codex => s <= r

\* create_harness_run_with_trigger.  The index idx_harness_runs_one_active
\* refuses a second active Run, idx_harness_runs_scheduled_occurrence a
\* second Run of one occurrence.
CanCreate(due) ==
    /\ ~SomeActive
    /\ due # 0 => \A s \in Runs : run[s].due # due

CreateRun(r, due) ==
    /\ IsNext(r)
    /\ CanCreate(due)
    /\ run' = [run EXCEPT ![r] = [NoRun EXCEPT !.status = "queued",
                                               !.start = stateRev,
                                               !.due = due]]
    /\ harness' = RunStarted(harness)
    /\ UNCHANGED <<synth, child, stateRev, vault, vaultRev, now>>

ConfigureRun(r) ==
    /\ run[r].status = "queued"
    /\ run' = [run EXCEPT ![r].status = "planning", ![r].codex = TRUE]
    /\ UNCHANGED <<harness, synth, child, stateRev, vault, vaultRev, now>>

AttachTurn(r) ==
    /\ run[r].codex /\ run[r].status \in Working
    /\ SetStatus(r, "searching")
    /\ UNCHANGED <<harness, synth, child, stateRev, vault, vaultRev, now>>

\* request_codex_harness_cancellation, when it changes the Run.
RequestCancel(r) ==
    /\ IsLatestManaged(r)
    /\ run[r].status \in Admitted
    /\ SetStatus(r, "canceling")
    /\ child' = [c \in Children |->
                    IF child[c].parent = r
                    THEN [child[c] EXCEPT !.cancel = TRUE] ELSE child[c]]
    /\ UNCHANGED <<harness, synth, stateRev, vault, vaultRev, now>>

BeginFinalization(r) ==
    /\ run[r].codex /\ run[r].status \in Working
    /\ SetStatus(r, "reconciling")
    /\ UNCHANGED <<harness, synth, child, stateRev, vault, vaultRev, now>>

-----------------------------------------------------------------------------
\* save_synthesis_attempt: the correction keeps the revision of the Vault
\* that the first attempt captured.
SaveAttempt(r, attempt, p) ==
    /\ run[r].codex
    /\ synth[r].attempt = (IF attempt = "first" THEN "none" ELSE "first")
    /\ synth' = [synth EXCEPT ![r] =
                    [attempt |-> attempt, proposal |-> p,
                     vaultRev |-> IF attempt = "first" THEN vaultRev
                                                       ELSE synth[r].vaultRev,
                     prepared |-> FALSE, committed |-> synth[r].committed]]
    /\ UNCHANGED <<harness, run, child, stateRev, vault, vaultRev, now>>

\* The proposal disposes of every paper the Run added in one way, and the
\* Reader was tried on each of them.
Covered(r) ==
    /\ synth[r].proposal.keep \cap synth[r].proposal.drop = {}
    /\ run[r].added \subseteq synth[r].proposal.keep \cup synth[r].proposal.drop
    /\ run[r].added \subseteq run[r].read

\* And of nothing else.
Disposed(r) ==
    Covered(r) /\ synth[r].proposal.keep \cup synth[r].proposal.drop \subseteq run[r].added

\* Mutant: the Run's status is not read again inside the transaction.
UnconflictedAnyStatus(r) == stateRev = run[r].start /\ vaultRev = synth[r].vaultRev

\* Mutant: the Research State may have moved on.
UnconflictedState(r) == run[r].status = "reconciling" /\ vaultRev = synth[r].vaultRev

\* No other commit got between the Run and its finalization.
Unconflicted(r) ==
    /\ run[r].status = "reconciling"
    /\ stateRev = run[r].start
    /\ vaultRev = synth[r].vaultRev

\* Mutant: papers the proposal does not mention are kept.
CanCommitUndisposed(r) ==
    /\ synth[r].attempt # "none" /\ ~synth[r].committed
    /\ Unconflicted(r)
    /\ synth[r].proposal.shape = "valid"
    /\ ~HasActiveChild(r)

CanCommit(r) ==
    /\ synth[r].attempt # "none" /\ ~synth[r].committed
    /\ Unconflicted(r)
    /\ synth[r].proposal.shape = "valid"
    /\ Disposed(r)
    /\ ~HasActiveChild(r)

\* What preflight_synthesis reports: the commit path run and rolled back.
PreflightResult(r) ==
    IF synth[r].committed \/ CanCommit(r) THEN "ok"
    ELSE IF /\ Unconflicted(r)
            /\ \/ synth[r].proposal.shape = "repairable"
               \/ synth[r].proposal.shape = "valid" /\ ~Disposed(r)
         THEN "repairable"
         ELSE "fatal"

RecordIssues(r, prepared) ==
    /\ synth[r].attempt # "none"
    /\ synth' = [synth EXCEPT ![r].prepared = prepared]
    /\ UNCHANGED <<harness, run, child, stateRev, vault, vaultRev, now>>

Productive(r) == synth[r].proposal.changes \/ synth[r].proposal.keep # {}

\* finalize_synthesis with commit: retention, the State revision, the Run's
\* end and the Harness in one transaction.
FinalizeSynthesis(r) ==
    LET p == synth[r].proposal
    IN  /\ CanCommit(r)
        /\ vault' = vault \ p.drop
        /\ vaultRev' = IF p.drop \cap vault = {} THEN vaultRev ELSE vaultRev + 1
        /\ stateRev' = IF p.changes THEN stateRev + 1 ELSE stateRev
        /\ SetStatus(r, "ready")
        /\ harness' = RunCompleted(harness, Productive(r), now)
        /\ synth' = [synth EXCEPT ![r].committed = TRUE, ![r].prepared = TRUE]
        /\ UNCHANGED <<child, now>>

\* Mutant: the Harness is not settled with the Run.
FinishRunOnly(r, status) ==
    /\ run[r].status \in Active
    /\ ~HasActiveChild(r)
    /\ status \in Terminal
    /\ status = "ready" => synth[r].committed
    /\ SetStatus(r, status)
    /\ UNCHANGED <<harness, synth, child, stateRev, vault, vaultRev, now>>

\* finish_codex_harness_run for a Run that is not terminal yet.  It refuses
\* `ready' to a Run whose synthesis has not committed.
FinishRun(r, status) ==
    /\ run[r].status \in Active
    /\ ~HasActiveChild(r)
    /\ status \in Terminal
    /\ status = "ready" => synth[r].committed
    /\ SetStatus(r, status)
    /\ harness' = RunEnded(harness)
    /\ UNCHANGED <<synth, child, stateRev, vault, vaultRev, now>>

\* fail_harness_run looks neither at the status nor at the children.
FailRun(r) ==
    /\ run[r].status # "none"
    /\ SetStatus(r, "failed")
    /\ harness' = RunEnded(harness)
    /\ UNCHANGED <<synth, child, stateRev, vault, vaultRev, now>>

\* recover_interrupted_harness_runs, after the prepared syntheses.
RecoverInterrupted ==
    /\ run' = [r \in Runs |->
                 IF IsActive(r) THEN [run[r] EXCEPT !.status = "failed"] ELSE run[r]]
    /\ child' = [c \in Children |->
                   IF \E r \in Runs : r = child[c].parent /\ IsActive(r)
                   THEN [child[c] EXCEPT
                           !.cancel = TRUE,
                           !.status = IF @ \in ActiveChild THEN "cancelled" ELSE @]
                   ELSE child[c]]
    /\ harness' = IF harness.status = "running" THEN RunEnded(harness) ELSE harness
    /\ UNCHANGED <<synth, stateRev, vault, vaultRev, now>>

-----------------------------------------------------------------------------
\* Mutant: the grant alone admits the call.
CreateChildUnadmitted(c, r) ==
    /\ child[c].status = "none"
    /\ child' = [child EXCEPT ![c] = [parent |-> r, status |-> "queued", cancel |-> FALSE]]
    /\ UNCHANGED <<harness, run, synth, stateRev, vault, vaultRev, now>>

\* create_agent_search_run for a Run's agent.
CreateChild(c, r) ==
    /\ child[c].status = "none"
    /\ run[r].status \in {"queued"} \cup Working
    /\ child' = [child EXCEPT ![c] = [parent |-> r, status |-> "queued",
                                      cancel |-> FALSE]]
    /\ UNCHANGED <<harness, run, synth, stateRev, vault, vaultRev, now>>

\* request_agent_search_cancel for every unfinished child in S.
CancelChildren(S) ==
    /\ child' = [c \in Children |->
                   IF c \in S /\ child[c].status \in ActiveChild
                   THEN [child[c] EXCEPT !.cancel = TRUE] ELSE child[c]]
    /\ UNCHANGED <<harness, run, synth, stateRev, vault, vaultRev, now>>

\* set_search_run_status looks at nothing.
SetChildStatus(c, status) ==
    /\ child[c].status # "none"
    /\ child' = [child EXCEPT ![c].status = status]
    /\ UNCHANGED <<harness, run, synth, stateRev, vault, vaultRev, now>>

\* add_agent_search_candidate_to_vault.  A paper the Run has already added is
\* not recorded again, even if it has left this Vault in between.
AddPaper(r, p) ==
    /\ run[r].codex /\ run[r].status \in Admitted
    /\ vault' = vault \cup {p}
    /\ vaultRev' = IF p \in vault THEN vaultRev ELSE vaultRev + 1
    /\ run' = IF p \in run[r].added \cup run[r].seen THEN run
              ELSE IF p \in vault THEN [run EXCEPT ![r].seen = @ \cup {p}]
              ELSE [run EXCEPT ![r].added = @ \cup {p}]
    /\ UNCHANGED <<harness, synth, child, stateRev, now>>

\* record_agent_reader_attempt.
ReadPaper(r, p) ==
    /\ run[r].codex /\ run[r].status \in Working
    /\ run' = [run EXCEPT ![r].read = @ \cup {p}]
    /\ UNCHANGED <<harness, synth, child, stateRev, vault, vaultRev, now>>

-----------------------------------------------------------------------------
\* The researcher's own edits, and the clock.
EditState ==
    /\ stateRev' = stateRev + 1
    /\ UNCHANGED <<harness, run, synth, child, vault, vaultRev, now>>

EditVault(p) ==
    /\ vault' = IF p \in vault THEN vault \ {p} ELSE vault \cup {p}
    /\ vaultRev' = vaultRev + 1
    /\ UNCHANGED <<harness, run, synth, child, stateRev, now>>

\* A paper that leaves its last Vault, or is deleted by name, takes the Runs'
\* additions and Reader attempts with it (on delete cascade).
DeletePaper(p) ==
    /\ vault' = vault \ {p}
    /\ vaultRev' = IF p \in vault THEN vaultRev + 1 ELSE vaultRev
    /\ run' = [r \in Runs |-> [run[r] EXCEPT !.added = @ \ {p},
                                            !.seen = @ \ {p}, !.read = @ \ {p}]]
    /\ UNCHANGED <<harness, synth, child, stateRev, now>>

ClockTick ==
    /\ now' = now + 1
    /\ UNCHANGED <<harness, run, synth, child, stateRev, vault, vaultRev>>

SetHarness(h) ==
    /\ harness' = h
    /\ UNCHANGED <<run, synth, child, stateRev, vault, vaultRev, now>>

SaveConfiguration(enabled) == SetHarness(Configured(harness, enabled, now))
PauseHarness == SetHarness(Paused(harness))
ResumeHarness == SetHarness(Resumed(harness, now))
StopHarness == SetHarness(Stopped(harness))
HaltHarness == SetHarness(Halted(harness, "limit"))

ClaimDue ==
    /\ Due(harness, now) /\ ~SomeActive
    /\ SetHarness(Claimed(harness, now))

-----------------------------------------------------------------------------
\* What StoreSpec asks of its caller: no attempt is saved once the Run's
\* synthesis has committed, and fail_harness_run is not called for a Run that
\* has ended otherwise.  ResearchRun is checked to comply.
RunStep(r) ==
    \/ \E due \in 0 .. now : CreateRun(r, due)
    \/ ConfigureRun(r)
    \/ AttachTurn(r)
    \/ RequestCancel(r)
    \/ BeginFinalization(r)
    \/ /\ ~synth[r].committed
       /\ \E p \in Proposals, a \in {"first", "correction"} : SaveAttempt(r, a, p)
    \/ \E b \in BOOLEAN : RecordIssues(r, b)
    \/ FinalizeSynthesis(r)
    \/ \E s \in Terminal : FinishRun(r, s)
    \/ run[r].status \notin {"ready", "cancelled"} /\ FailRun(r)
    \/ \E c \in Children : CreateChild(c, r)
    \/ \E p \in Papers : AddPaper(r, p) \/ ReadPaper(r, p)

ProjectStep ==
    \/ RecoverInterrupted
    \/ \E S \in SUBSET Children : CancelChildren(S)
    \/ \E c \in Children, s \in ActiveChild \cup Terminal : SetChildStatus(c, s)
    \/ EditState
    \/ \E p \in Papers : EditVault(p) \/ DeletePaper(p)
    \/ ClockTick
    \/ \E b \in BOOLEAN : SaveConfiguration(b)
    \/ PauseHarness
    \/ ResumeHarness
    \/ StopHarness
    \/ HaltHarness
    \/ ClaimDue

StoreNext == (\E r \in Runs : RunStep(r)) \/ ProjectStep

StoreSpec == StoreInit /\ [][StoreNext]_storeVars

-----------------------------------------------------------------------------
(* Properties *)

\* At most one Run of the Project is active: every transaction that makes a
\* Run active finds no other, and none revives a Run that has ended.
OneActiveRun ==
    \A r, s \in Runs : IsActive(r) /\ IsActive(s) => r = s

\* A Harness shown as running has an active Run, so that it cannot spin for
\* ever: whichever transaction ends the Run settles the Harness with it.
RunningHasRun == harness.status = "running" => SomeActive

\* A pause asked for during a Run takes effect when the Run ends, whichever
\* way it ends; no transaction loses it.
PauseHolds == harness.requested = "paused" => harness.status \in {"paused", "running"}

\* Each ready Run, and no other, is counted once against maximum_cycles.
CyclesCounted == harness.cycles = Cardinality({r \in Runs : run[r].status = "ready"})

\* The synthesis commits and the Run ends ready in one transaction.  A ready
\* Run has committed a valid synthesis, which disposes of every paper the Run
\* added, each of them tried by the Reader; no later write undoes it.
ReadyIsComplete ==
    \A r \in Runs :
        /\ run[r].status = "ready" <=> synth[r].committed
        /\ synth[r].committed => synth[r].proposal.shape = "valid" /\ Covered(r)

\* The promise RunLifecycle makes, under this mapping.
Phase(r) ==
    CASE run[r].status = "none" -> "new"
      [] run[r].status \in Admitted -> "open"
      [] run[r].status = "canceling" -> "closing"
      [] OTHER -> run[r].status

Lifecycle == INSTANCE RunLifecycle WITH
    Run <- Runs,
    phase <- [r \in Runs |-> Phase(r)],
    base <- [r \in Runs |-> run[r].start],
    revision <- stateRev

\* Every transaction is a step of the lifecycle or none at all: in particular
\* a Run being cancelled never commits, a commit builds on the Research State
\* the Run started from, and no ended Run changes its outcome.
ImplementsLifecycle == Lifecycle!Spec

=============================================================================
