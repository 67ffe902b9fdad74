------------------------------ MODULE Harness ------------------------------
(***************************************************************************)
(* The Project's Research Harness row (table research_harnesses): the      *)
(* lifecycle status the UI shows, the status the Harness takes when its    *)
(* Run ends, the schedule, and the counters behind the stop conditions.    *)
(*                                                                         *)
(* Every operator maps the row before a transaction to the row after it.   *)
(* RunStore applies them inside the transactions of library_store.rs.      *)
(*                                                                         *)
(* Time is a natural number.  An occurrence of the schedule is the time it *)
(* is due; 0 stands for NULL.                                              *)
(***************************************************************************)
EXTENDS Naturals

CONSTANTS
    MaximumCycles,          \* stop_conditions.maximum_cycles
    MaximumUnproductive,    \* stop_conditions.maximum_unproductive_runs
    EndAt                   \* stop_conditions.end_at

ASSUME LimitsAssumption ==
    /\ MaximumCycles \in Nat
    /\ MaximumUnproductive \in Nat
    /\ EndAt \in Nat

PostRunStatuses == {"idle", "paused", "stopped"}

HarnessRows ==
    [status       : {"inactive", "running"} \cup PostRunStatuses,
     requested    : PostRunStatuses,             \* requested_post_run_status
     reason       : {"none", "user", "limit"},   \* terminal_stop_reason
     wanted       : BOOLEAN,                     \* configuration.schedule.enabled
     scheduled    : BOOLEAN,                     \* schedule_enabled
     next         : Nat,                         \* next_run_at
     cycles       : Nat,                         \* completed_cycle_count
     unproductive : Nat]                         \* consecutive_unproductive_runs

\* The row a new Project is created with.
NewHarness ==
    [status |-> "inactive", requested |-> "idle", reason |-> "none",
     wanted |-> FALSE, scheduled |-> FALSE, next |-> 0,
     cycles |-> 0, unproductive |-> 0]

\* The first occurrence after `now'; occurrences are one time unit apart.
NextOccurrence(now) == now + 1

NextRunAt(enabled, now) == IF enabled THEN NextOccurrence(now) ELSE 0

\* Some stop condition of the configuration holds.  Managed Runs never end
\* with the reasons that stop_on_convergence looks for, so it is left out.
LimitReached(h, now) ==
    \/ h.cycles >= MaximumCycles
    \/ h.unproductive >= MaximumUnproductive
    \/ now >= EndAt

Halted(h, reason) ==
    [h EXCEPT !.status = "stopped", !.requested = "stopped", !.reason = reason,
              !.scheduled = FALSE, !.next = 0]

Configured(h, enabled, now) ==
    [h EXCEPT !.status = IF \/ h.status = "inactive"
                            \/ enabled /\ h.status = "stopped"
                         THEN "idle" ELSE h.status,
              !.wanted = enabled,
              !.scheduled = enabled,
              !.next = NextRunAt(enabled, now),
              !.reason = IF enabled THEN "none" ELSE h.reason]

\* A running Harness keeps running and takes the status when its Run ends.
UnlessRunning(h, status) == IF h.status = "running" THEN "running" ELSE status

Paused(h) ==
    [h EXCEPT !.status = UnlessRunning(h, "paused"), !.requested = "paused"]

Resumed(h, now) ==
    [h EXCEPT !.status = UnlessRunning(h, "idle"), !.requested = "idle",
              !.reason = "none", !.scheduled = h.wanted,
              !.next = NextRunAt(h.wanted, now)]

\* A Harness that is stopped already is left alone.
NeedsStop(h) == h.status # "stopped" \/ h.requested # "stopped"

Stopped(h) == [Halted(h, "user") EXCEPT !.status = UnlessRunning(h, "stopped")]

Due(h, now) == h.scheduled /\ h.next # 0 /\ h.next <= now /\ h.status = "idle"

Claimed(h, now) ==
    IF LimitReached(h, now)
    THEN Halted(h, "limit")
    ELSE [h EXCEPT !.next = NextOccurrence(now)]

\* ensure_harness_can_start: refuse a stopped Harness, stop an exhausted one.
CanStart(h, now) == h.status # "stopped" /\ ~LimitReached(h, now)

RunStarted(h) == [h EXCEPT !.status = "running"]

\* Mutant: the status asked for during the Run is forgotten.
RunEndedIdle(h) == [h EXCEPT !.status = "idle"]

\* A Run ended without a commit, or was found interrupted.
RunEnded(h) == [h EXCEPT !.status = h.requested]

\* Mutant: only productive Runs count as cycles.
RunCompletedIfProductive(h, productive, now) ==
    IF productive
    THEN [RunEnded(h) EXCEPT !.cycles = h.cycles + 1, !.unproductive = 0]
    ELSE [RunEnded(h) EXCEPT !.unproductive = h.unproductive + 1]

\* A Run ended ready: count the cycle, then apply the stop conditions.
RunCompleted(h, productive, now) ==
    LET counted == [RunEnded(h) EXCEPT
                      !.cycles = h.cycles + 1,
                      !.unproductive = IF productive THEN 0 ELSE h.unproductive + 1]
    IN  IF LimitReached(counted, now) THEN Halted(counted, "limit") ELSE counted

=============================================================================
