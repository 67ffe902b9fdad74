---------------------------- MODULE RunLifecycle ----------------------------
(***************************************************************************)
(* What managed Research Runs promise the researcher, whatever the threads *)
(* and tables behind them: one Run at a time, which gathers while it is    *)
(* open, and ends for good; only an open Run commits, at most once, and on *)
(* top of the Research State it started from; a Run that was asked to stop *)
(* (closing) no longer does.                                               *)
(***************************************************************************)
EXTENDS Naturals

CONSTANT Run

VARIABLES
    phase,      \* of each Run
    base,       \* the Research State revision each Run started from
    revision    \* of the Research State

lifecycleVars == <<phase, base, revision>>

Running == {r \in Run : phase[r] \in {"open", "closing"}}

Init ==
    /\ phase = [r \in Run |-> "new"]
    /\ base = [r \in Run |-> 0]
    /\ revision = 0

Open(r) ==
    /\ phase[r] = "new"
    /\ Running = {}
    /\ phase' = [phase EXCEPT ![r] = "open"]
    /\ base' = [base EXCEPT ![r] = revision]
    /\ UNCHANGED revision

Close(r) ==
    /\ phase[r] = "open"
    /\ phase' = [phase EXCEPT ![r] = "closing"]
    /\ UNCHANGED <<base, revision>>

Commit(r) ==
    /\ phase[r] = "open"
    /\ revision = base[r]
    /\ phase' = [phase EXCEPT ![r] = "ready"]
    /\ revision' \in {revision, revision + 1}
    /\ UNCHANGED base

Cancel(r) ==
    /\ phase[r] \in {"open", "closing"}
    /\ phase' = [phase EXCEPT ![r] = "cancelled"]
    /\ UNCHANGED <<base, revision>>

Fail(r) ==
    /\ phase[r] \in {"open", "closing"}
    /\ phase' = [phase EXCEPT ![r] = "failed"]
    /\ UNCHANGED <<base, revision>>

\* The researcher edits the Research State.
Revise ==
    /\ revision' = revision + 1
    /\ UNCHANGED <<phase, base>>

Next ==
    \/ \E r \in Run : Open(r) \/ Close(r) \/ Commit(r) \/ Cancel(r) \/ Fail(r)
    \/ Revise

Spec == Init /\ [][Next]_lifecycleVars

=============================================================================
