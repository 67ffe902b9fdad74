-------------------------- MODULE SearchRunsProofs --------------------------
(***************************************************************************)
(* The safety invariants of SearchRuns, for any searches, runs, jobs,      *)
(* papers and strategy, any number of calls in flight and of restarts.     *)
(***************************************************************************)
EXTENDS SearchRuns, FiniteSetTheorems, TLAPS

USE SearchRunsAssumption, SearchAgentAssumption

\* TypeOK, variable by variable.
LoopType == loop \in [Jobs -> Loops]
TrippedType == tripped \in [Jobs -> BOOLEAN]
SavedType == saved \in [Searches -> SUBSET Papers]
RunType == run \in [Runs -> RunRows]
ShownType == shown \in [Runs -> SUBSET Papers]
JobType == job \in [Jobs -> JobRows]
QueuedType == queued \subseteq Searches
TokenType == token \in [Runs -> Jobs \union {NoJob}]
RestartsType == restarts \in 0 .. MaxRestarts

\* Where a loop is tells what it may still spend: the ceilings are looked at
\* before a round and hold to its end.
Spent(l) ==
    /\ l.queries <= MaxProviderQueries
    /\ l.calls <= MaxLlmCalls
    /\ l.at = "top" /\ l.iteration = 0 => l.calls = 0
    /\ l.at = "planning" => l.calls = 0
    /\ l.at \in {"searching", "assessing", "reflecting"} => l.calls < MaxLlmCalls
    /\ l.at \in {"planning", "searching", "assessing"} => l.iteration < MaxIterations
    /\ l.at = "reflecting" => l.iteration > 0

\* What is late and what may still be late before the token's next look.
Patient(l) ==
    /\ l.late <= ReAsks + BatchCalls
    /\ l.at = "planning" => l.late + l.left <= ReAsks
    /\ l.at = "searching" => l.late + l.left <= ReAsks + BatchCalls
    /\ l.at = "assessing" => l.late = 0
    /\ l.at = "reflecting" => l.late + l.left <= ReAsks + 1

LoopsKept == \A j \in Jobs : Spent(loop[j]) /\ Patient(loop[j])

OnTime == \A j \in Jobs : ~tripped[j] => loop[j].late = 0

\* Only a task at its loop has one.
LoopOff == \A j \in Jobs : job[j].at # "loop" => loop[j].at = "off" /\ loop[j].late = 0

TaskHasRun == \A j \in Jobs : job[j].at # "idle" => job[j].run \in Runs

SlotHeld == \A j \in Jobs : job[j].at \in InSlot => SearchIn(j) \in queued

\* Results, from the task to the pool and to the events.
ShownSaved == \A r \in AgentRuns : shown[r] \subseteq saved[SearchOf[r]]

RankedSaved == \A j \in Jobs : job[j].at = "events" => job[j].ranked \subseteq saved[SearchIn(j)]

RankedShown ==
    \A j \in Jobs :
        job[j].at = "usage" /\ job[j].run \in AgentRuns => job[j].ranked \subseteq shown[job[j].run]

Counted == \A r \in AgentRuns : Cardinality(shown[r]) >= run[r].inspected

Inv ==
    /\ LoopType /\ TrippedType /\ SavedType /\ RunType /\ ShownType /\ JobType
    /\ QueuedType /\ TokenType /\ RestartsType
    /\ LoopsKept /\ OnTime /\ LoopOff
    /\ TaskHasRun /\ SlotHeld /\ OneTaskPerSearch
    /\ ShownSaved /\ RankedSaved /\ RankedShown /\ Counted

\* A set of papers is finite, its cardinality grows with it.
LEMMA PapersFinite ==
    ASSUME NEW S \in SUBSET Papers, NEW T \in SUBSET S
    PROVE  Cardinality(S) \in Nat /\ Cardinality(T) \in Nat /\ Cardinality(T) <= Cardinality(S)
<1>1. IsFiniteSet(S) /\ IsFiniteSet(T)
  BY FS_Subset
<1>2. QED
  BY <1>1, FS_Subset, FS_CardinalityType

\* One step of a loop: what it leaves and what it may reach.
Steps(j) ==
    /\ loop' = [loop EXCEPT ![j] = loop'[j]]
    /\ loop'[j] \in Loops
    /\ Spent(loop'[j])
    /\ Patient(loop'[j])
    /\ ~tripped[j] => loop'[j].late = 0

LEMMA RoundsUsedSteps ==
    ASSUME Inv, NEW j \in Jobs, RoundsUsed(j) PROVE Steps(j)
<1>1. loop[j] \in Loops /\ Spent(loop[j]) /\ Patient(loop[j]) /\ (~tripped[j] => loop[j].late = 0)
  BY DEF Inv, LoopType, LoopsKept, OnTime
<1>2. loop' = [loop EXCEPT ![j] = loop'[j]]
  BY DEF Inv, LoopType, RoundsUsed, StopLoop, Move
<1>3. loop'[j] \in Loops
  BY <1>1 DEF Inv, LoopType, RoundsUsed, StopLoop, Move, Loops, Stops, Spent
<1>4. Spent(loop'[j]) /\ Patient(loop'[j]) /\ (~tripped[j] => loop'[j].late = 0)
  BY <1>1 DEF Inv, LoopType, RoundsUsed, StopLoop, Move, Loops, Spent, Patient
<1>5. QED
  BY <1>2, <1>3, <1>4 DEF Steps

LEMMA SeesCancelSteps ==
    ASSUME Inv, NEW j \in Jobs, SeesCancel(j) PROVE Steps(j)
<1>1. loop[j] \in Loops /\ Spent(loop[j]) /\ Patient(loop[j]) /\ (~tripped[j] => loop[j].late = 0)
  BY DEF Inv, LoopType, LoopsKept, OnTime
<1>2. loop' = [loop EXCEPT ![j] = loop'[j]]
  BY DEF Inv, LoopType, SeesCancel, StopLoop, Move
<1>3. loop'[j] \in Loops
  BY <1>1 DEF Inv, LoopType, SeesCancel, StopLoop, Move, Loops, Stops, Spent
<1>4. Spent(loop'[j]) /\ Patient(loop'[j]) /\ (~tripped[j] => loop'[j].late = 0)
  BY <1>1 DEF Inv, LoopType, SeesCancel, StopLoop, Move, Loops, Spent, Patient
<1>5. QED
  BY <1>2, <1>3, <1>4 DEF Steps

LEMMA StopsBeforeSteps ==
    ASSUME Inv, NEW j \in Jobs, StopsBefore(j) PROVE Steps(j)
<1>1. loop[j] \in Loops /\ Spent(loop[j]) /\ Patient(loop[j]) /\ (~tripped[j] => loop[j].late = 0)
  BY DEF Inv, LoopType, LoopsKept, OnTime
<1>2. PICK reason \in Stops : StopLoop(j, reason)
  BY DEF StopsBefore, StopBefore, Stops
<1>3. /\ loop' = [loop EXCEPT ![j] = loop'[j]]
      /\ loop'[j] = [loop[j] EXCEPT !.at = "stopped", !.stop = reason]
  BY <1>2 DEF Inv, LoopType, StopLoop, Move
<1>4. QED
  BY <1>1, <1>3 DEF Steps, Loops, Spent, Patient

LEMMA AsksForPlanSteps ==
    ASSUME Inv, NEW j \in Jobs, AsksForPlan(j) PROVE Steps(j)
<1>1. loop[j] \in Loops /\ Spent(loop[j]) /\ Patient(loop[j]) /\ (~tripped[j] => loop[j].late = 0)
  BY DEF Inv, LoopType, LoopsKept, OnTime
<1>2. loop' = [loop EXCEPT ![j] = loop'[j]]
  BY DEF Inv, LoopType, AsksForPlan, Begins, Late, Move
<1>3. loop'[j] \in Loops
  BY <1>1 DEF Inv, LoopType, AsksForPlan, Begins, Late, Move, Loops, Stops, Spent
<1>4. Spent(loop'[j]) /\ Patient(loop'[j]) /\ (~tripped[j] => loop'[j].late = 0)
  BY <1>1 DEF Inv, LoopType, AsksForPlan, Begins, Late, Move, Loops, Spent, Patient
<1>5. QED
  BY <1>2, <1>3, <1>4 DEF Steps

LEMMA LateType ==
    ASSUME NEW j \in Jobs, loop[j] \in Loops
    PROVE  Late(j) \in Nat /\ Late(j) <= loop[j].late + 1 /\ (~tripped[j] => Late(j) = loop[j].late)
  BY DEF Late, Loops

\* A batch is cut to what is left.
LEMMA IssueSteps ==
    ASSUME Inv, NEW j \in Jobs, NEW n \in Nat, NEW calls \in Nat, Issue(j, n, calls),
           loop[j].late <= ReAsks, loop[j].iteration < MaxIterations, calls < MaxLlmCalls
    PROVE  Steps(j)
<1>1. loop[j] \in Loops /\ Spent(loop[j]) /\ Patient(loop[j]) /\ (~tripped[j] => loop[j].late = 0)
  BY DEF Inv, LoopType, LoopsKept, OnTime
<1> DEFINE budget == MaxProviderQueries - loop[j].queries
           batch == IF n < budget THEN n ELSE budget
           left == IF batch > 0 THEN BatchCalls ELSE 0
<1>2. batch \in Nat /\ loop[j].queries + batch \in Nat /\ loop[j].queries + batch <= MaxProviderQueries
  BY <1>1 DEF Loops, Spent
<1>3. left \in Nat /\ left <= BatchCalls
  OBVIOUS
<1>4. loop[j].late \in Nat
  BY <1>1 DEF Loops
<1>5. /\ loop' = [loop EXCEPT ![j] = loop'[j]]
      /\ loop'[j] = [loop[j] EXCEPT !.at = "searching", !.calls = calls, !.issued = batch,
                        !.queries = loop[j].queries + batch, !.left = left]
  BY DEF Inv, LoopType, Issue, Move
<1> HIDE DEF batch, left
<1>6. loop'[j] \in Loops
  BY ZenonT(60), <1>1, <1>2, <1>3, <1>5 DEF Loops
<1>7. /\ loop'[j].at = "searching" /\ loop'[j].late = loop[j].late /\ loop'[j].left = left
      /\ loop'[j].queries = loop[j].queries + batch /\ loop'[j].calls = calls
      /\ loop'[j].iteration = loop[j].iteration
  BY <1>1, <1>5 DEF Loops
<1>8. Spent(loop'[j]) /\ Patient(loop'[j]) /\ (~tripped[j] => loop'[j].late = 0)
  BY <1>1, <1>2, <1>3, <1>4, <1>7 DEF Spent, Patient
<1>9. QED
  BY <1>5, <1>6, <1>8 DEF Steps

\* One more call of those the step under way may begin.
LEMMA CallsOn ==
    ASSUME Inv, NEW j \in Jobs, loop[j].at \in {"planning", "searching", "reflecting"},
           loop[j].left > 0, Move(j, [loop[j] EXCEPT !.left = @ - 1, !.late = Late(j)])
    PROVE  Steps(j)
<1>1. loop[j] \in Loops /\ Spent(loop[j]) /\ Patient(loop[j]) /\ (~tripped[j] => loop[j].late = 0)
  BY DEF Inv, LoopType, LoopsKept, OnTime
<1> DEFINE left == loop[j].left - 1
           late == Late(j)
<1>2. late \in Nat /\ late <= loop[j].late + 1 /\ (~tripped[j] => late = loop[j].late)
  BY <1>1, LateType
<1>3. left \in Nat /\ loop[j].left \in Nat /\ loop[j].late \in Nat
  BY <1>1 DEF Loops
<1>4. /\ loop' = [loop EXCEPT ![j] = loop'[j]]
      /\ loop'[j] = [loop[j] EXCEPT !.left = left, !.late = late]
  BY DEF Inv, LoopType, Move
<1>5. late + left <= loop[j].late + loop[j].left
  BY <1>2, <1>3
<1> HIDE DEF left, late
<1>6. loop'[j] \in Loops
  BY <1>1, <1>2, <1>3, <1>4 DEF Loops
<1>7. /\ loop'[j].at = loop[j].at /\ loop'[j].late = late /\ loop'[j].left = left
      /\ loop'[j].queries = loop[j].queries /\ loop'[j].calls = loop[j].calls
      /\ loop'[j].iteration = loop[j].iteration
  BY <1>1, <1>4 DEF Loops
<1>8. Spent(loop'[j])
  BY <1>1, <1>7 DEF Spent
<1>9. Patient(loop'[j])
  BY <1>1, <1>2, <1>3, <1>5, <1>7 DEF Patient
<1>10. ~tripped[j] => loop'[j].late = 0
  BY <1>1, <1>2, <1>7
<1>11. QED
  BY <1>4, <1>6, <1>8, <1>9, <1>10 DEF Steps

LEMMA CallsOnSteps ==
    ASSUME Inv, NEW j \in Jobs, AsksAgain(j) \/ Browses(j) PROVE Steps(j)
  BY CallsOn DEF AsksAgain, Browses

LEMMA PlannedSteps ==
    ASSUME Inv, NEW j \in Jobs, Planned(j) PROVE Steps(j)
<1>1. loop[j] \in Loops /\ Spent(loop[j]) /\ Patient(loop[j]) /\ (~tripped[j] => loop[j].late = 0)
  BY DEF Inv, LoopType, LoopsKept, OnTime
<1>2. PICK n \in 0 .. Allowance[0] : Issue(j, n, loop[j].calls + 1)
  BY DEF Planned
<1>3. /\ n \in Nat /\ loop[j].calls + 1 \in Nat /\ loop[j].calls + 1 < MaxLlmCalls
      /\ loop[j].late <= ReAsks /\ loop[j].iteration < MaxIterations
  BY <1>1 DEF Planned, Loops, Spent, Patient
<1>4. QED
  BY <1>2, <1>3, IssueSteps

LEMMA NextRoundSteps ==
    ASSUME Inv, NEW j \in Jobs, NextRound(j) PROVE Steps(j)
<1>1. loop[j] \in Loops /\ Spent(loop[j]) /\ Patient(loop[j]) /\ (~tripped[j] => loop[j].late = 0)
  BY DEF Inv, LoopType, LoopsKept, OnTime
<1>2. PICK n \in 0 .. Allowance[loop[j].iteration] : Issue(j, n, loop[j].calls)
  BY DEF NextRound
<1>3. /\ n \in Nat /\ loop[j].calls \in Nat /\ loop[j].calls < MaxLlmCalls
      /\ loop[j].late <= ReAsks /\ loop[j].iteration < MaxIterations
  BY <1>1 DEF NextRound, Begins, StopBefore, Loops
<1>4. QED
  BY <1>2, <1>3, IssueSteps

LEMMA ExhaustedSteps ==
    ASSUME Inv, NEW j \in Jobs, Exhausted(j) PROVE Steps(j)
<1>1. loop[j] \in Loops /\ Spent(loop[j]) /\ Patient(loop[j]) /\ (~tripped[j] => loop[j].late = 0)
  BY DEF Inv, LoopType, LoopsKept, OnTime
<1>2. loop' = [loop EXCEPT ![j] = loop'[j]]
  BY DEF Inv, LoopType, Exhausted, Move
<1>3. loop'[j] \in Loops
  BY <1>1 DEF Inv, LoopType, Exhausted, Move, Loops, Stops, Spent
<1>4. Spent(loop'[j]) /\ Patient(loop'[j]) /\ (~tripped[j] => loop'[j].late = 0)
  BY <1>1 DEF Inv, LoopType, Exhausted, Move, Loops, Spent, Patient
<1>5. QED
  BY <1>2, <1>3, <1>4 DEF Steps

LEMMA FoundSteps ==
    ASSUME Inv, NEW j \in Jobs, Found(j) PROVE Steps(j)
<1>1. loop[j] \in Loops /\ Spent(loop[j]) /\ Patient(loop[j]) /\ (~tripped[j] => loop[j].late = 0)
  BY DEF Inv, LoopType, LoopsKept, OnTime
<1>2. PICK found \in SUBSET Papers :
        loop' = [loop EXCEPT ![j] = [loop[j] EXCEPT
            !.pool = @ \union found, !.issued = 0, !.left = 0,
            !.at = IF tripped[j] THEN "stopped" ELSE "assessing",
            !.stop = IF tripped[j] THEN "cancelled" ELSE @]]
  BY DEF Found, Move
<1>3. /\ loop' = [loop EXCEPT ![j] = loop'[j]]
      /\ loop'[j] = [loop[j] EXCEPT
            !.pool = @ \union found, !.issued = 0, !.left = 0,
            !.at = IF tripped[j] THEN "stopped" ELSE "assessing",
            !.stop = IF tripped[j] THEN "cancelled" ELSE @]
  BY <1>2 DEF Inv, LoopType
<1>4. loop[j].at = "searching" /\ loop[j].pool \union found \in SUBSET Papers
  BY <1>1 DEF Found, Loops
<1>5. loop'[j] \in Loops
  <2>1. CASE tripped[j]
    <3>1. loop'[j] = [loop[j] EXCEPT !.pool = loop[j].pool \union found, !.issued = 0, !.left = 0,
                                     !.at = "stopped", !.stop = "cancelled"]
      BY <1>3, <2>1
    <3>2. "cancelled" \in Stops
      BY DEF Stops
    <3> DEFINE l == [loop[j] EXCEPT !.pool = loop[j].pool \union found, !.issued = 0, !.left = 0]
    <3>3. l \in Loops
      BY <1>1, <1>4 DEF Loops
    <3>4. loop'[j] = [l EXCEPT !.at = "stopped", !.stop = "cancelled"]
      BY <1>1, <3>1 DEF Loops
    <3> HIDE DEF l
    <3>5. QED
      BY <3>2, <3>3, <3>4 DEF Loops
  <2>2. CASE ~tripped[j]
    BY <1>1, <1>3, <1>4, <2>2 DEF Loops
  <2>3. QED
    BY <2>1, <2>2
<1>6. Spent(loop'[j]) /\ Patient(loop'[j]) /\ (~tripped[j] => loop'[j].late = 0)
  BY <1>1, <1>3, <1>4 DEF Loops, Spent, Patient
<1>7. QED
  BY <1>3, <1>5, <1>6 DEF Steps

LEMMA SummarizedSteps ==
    ASSUME Inv, NEW j \in Jobs, Summarized(j) PROVE Steps(j)
<1>1. loop[j] \in Loops /\ Spent(loop[j]) /\ Patient(loop[j]) /\ (~tripped[j] => loop[j].late = 0)
  BY DEF Inv, LoopType, LoopsKept, OnTime
<1>2. /\ loop' = [loop EXCEPT ![j] = loop'[j]]
      /\ loop'[j] = [loop[j] EXCEPT !.at = "reflecting", !.iteration = @ + 1, !.left = ReAsks,
                                 !.late = Late(j)]
  BY DEF Inv, LoopType, Summarized, Move
<1>3. Late(j) \in Nat /\ Late(j) <= 1 /\ (~tripped[j] => Late(j) = 0)
  BY <1>1, LateType DEF Summarized, Patient
<1>4. loop[j].at = "assessing" /\ loop[j].iteration + 1 \in 0 .. MaxIterations
  BY <1>1 DEF Summarized, Loops, Spent
<1>5. loop'[j] \in Loops
  BY <1>1, <1>2, <1>3, <1>4 DEF Loops
<1>6. Spent(loop'[j]) /\ Patient(loop'[j]) /\ (~tripped[j] => loop'[j].late = 0)
  BY <1>1, <1>2, <1>3, <1>4 DEF Loops, Spent, Patient
<1>7. QED
  BY <1>2, <1>5, <1>6 DEF Steps

LEMMA ReflectedSteps ==
    ASSUME Inv, NEW j \in Jobs, Reflected(j) PROVE Steps(j)
<1>1. loop[j] \in Loops /\ Spent(loop[j]) /\ Patient(loop[j]) /\ (~tripped[j] => loop[j].late = 0)
  BY DEF Inv, LoopType, LoopsKept, OnTime
<1>2. PICK at \in {"top", "stopped"}, stop \in Stops :
        loop' = [loop EXCEPT ![j] =
                   [loop[j] EXCEPT !.calls = @ + 1, !.left = 0, !.at = at, !.stop = stop]]
  <2>1. CASE loop' = [loop EXCEPT ![j] =
                        [[loop[j] EXCEPT !.calls = @ + 1, !.left = 0] EXCEPT
                            !.at = "stopped", !.stop = "target_reached"]]
    BY <1>1, <2>1 DEF Loops, Stops
  <2>2. CASE loop' = [loop EXCEPT ![j] =
                        [[loop[j] EXCEPT !.calls = @ + 1, !.left = 0] EXCEPT
                            !.at = "stopped", !.stop = "converged"]]
    BY <1>1, <2>2 DEF Loops, Stops
  <2>3. CASE loop' = [loop EXCEPT ![j] = [[loop[j] EXCEPT !.calls = @ + 1, !.left = 0] EXCEPT !.at = "top"]]
    BY ZenonT(60), <1>1, <2>3 DEF Loops
  <2>4. QED
    BY <2>1, <2>2, <2>3 DEF Reflected, Move
<1>3. /\ loop' = [loop EXCEPT ![j] = loop'[j]]
      /\ loop'[j] = [loop[j] EXCEPT !.calls = @ + 1, !.left = 0, !.at = at, !.stop = stop]
  BY <1>2 DEF Inv, LoopType
<1>4. /\ loop[j].at = "reflecting" /\ loop[j].iteration # 0
      /\ loop[j].calls + 1 \in Nat /\ loop[j].calls + 1 <= MaxLlmCalls
  BY <1>1 DEF Reflected, Loops, Spent
<1>5. loop'[j] \in Loops
  <2> DEFINE paid == [loop[j] EXCEPT !.calls = @ + 1]
  <2> DEFINE idle == [paid EXCEPT !.left = 0]
  <2> DEFINE moved == [idle EXCEPT !.at = at]
  <2>1. paid \in Loops
    BY <1>1, <1>4 DEF Loops
  <2>2. idle \in Loops
    <3> HIDE DEF paid
    <3>1. QED
      BY <2>1 DEF Loops
  <2>3. moved \in Loops
    <3> HIDE DEF idle
    <3>1. QED
      BY <2>2 DEF Loops
  <2>4. [moved EXCEPT !.stop = stop] \in Loops
    <3> HIDE DEF moved
    <3>1. QED
      BY <2>3 DEF Loops
  <2>5. loop'[j] = [moved EXCEPT !.stop = stop]
    BY <1>1, <1>3 DEF Loops
  <2>6. QED
    BY <2>4, <2>5
<1>6. Spent(loop'[j]) /\ Patient(loop'[j]) /\ (~tripped[j] => loop'[j].late = 0)
  BY <1>1, <1>3, <1>4 DEF Loops, Spent, Patient
<1>7. QED
  BY <1>3, <1>5, <1>6 DEF Steps

LEMMA BreaksSteps ==
    ASSUME Inv, NEW j \in Jobs, Breaks(j) PROVE Steps(j)
<1>1. loop[j] \in Loops /\ Spent(loop[j]) /\ Patient(loop[j]) /\ (~tripped[j] => loop[j].late = 0)
  BY DEF Inv, LoopType, LoopsKept, OnTime
<1>2. loop' = [loop EXCEPT ![j] = loop'[j]]
  BY DEF Inv, LoopType, Breaks, Move
<1>3. loop'[j] \in Loops
  BY <1>1 DEF Inv, LoopType, Breaks, Move, Loops, Stops, Spent
<1>4. Spent(loop'[j]) /\ Patient(loop'[j]) /\ (~tripped[j] => loop'[j].late = 0)
  BY <1>1 DEF Inv, LoopType, Breaks, Move, Loops, Spent, Patient
<1>5. QED
  BY <1>2, <1>3, <1>4 DEF Steps

LEMMA LoopPreserves ==
    ASSUME Inv, NEW j \in Jobs, Loop(j) PROVE Inv'
<1>1. job[j].at = "loop" /\ UNCHANGED <<tripped, saved, run, shown, job, queued, token, restarts>>
  BY DEF Loop, managerVars
<1>2. Steps(j)
  BY RoundsUsedSteps, SeesCancelSteps, StopsBeforeSteps, AsksForPlanSteps, CallsOnSteps,
     PlannedSteps, NextRoundSteps, ExhaustedSteps, FoundSteps, SummarizedSteps, ReflectedSteps, BreaksSteps
     DEF Loop, LoopSteps
<1>3. LoopType' /\ \A k \in Jobs : k # j => loop'[k] = loop[k]
  BY <1>2 DEF Inv, LoopType, Steps
<1>4. Spent(loop'[j]) /\ Patient(loop'[j]) /\ (~tripped[j] => loop'[j].late = 0)
  BY <1>2 DEF Steps
<1>5. LoopsKept'
  BY <1>3, <1>4 DEF Inv, LoopsKept
<1>6. OnTime'
  BY <1>1, <1>3, <1>4 DEF Inv, OnTime
<1>7. LoopOff'
  BY <1>1, <1>3, <1>4 DEF Inv, LoopOff
<1>8. /\ TrippedType' /\ SavedType' /\ RunType' /\ ShownType' /\ JobType'
      /\ QueuedType' /\ TokenType' /\ RestartsType' /\ TaskHasRun' /\ SlotHeld'
      /\ OneTaskPerSearch' /\ ShownSaved' /\ RankedSaved' /\ RankedShown' /\ Counted'
  BY <1>1 DEF Inv, TrippedType, SavedType, RunType, ShownType, JobType, QueuedType, TokenType,
      RestartsType, TaskHasRun, SlotHeld, OneTaskPerSearch, SearchIn, ShownSaved, RankedSaved,
      RankedShown, Counted
<1>9. QED
  BY <1>3, <1>5, <1>6, <1>7, <1>8 DEF Inv

LEMMA RunSearchPreserves ==
    ASSUME Inv, NEW r \in Runs, RunSearch(r) PROVE Inv'
<1>1. UNCHANGED <<loop, tripped, saved, shown, job, queued, token, restarts>>
  BY DEF RunSearch, managerVars, agentVars
<1>2. LoopType' /\ TrippedType' /\ SavedType' /\ ShownType' /\ JobType'
      /\ QueuedType' /\ TokenType' /\ RestartsType' /\ LoopsKept' /\ OnTime'
      /\ LoopOff' /\ TaskHasRun' /\ SlotHeld' /\ OneTaskPerSearch' /\ ShownSaved'
      /\ RankedSaved' /\ RankedShown'
  BY <1>1 DEF Inv, LoopType, Loops, Stops, TrippedType, SavedType, ShownType, JobType,
      JobRows, JobSteps, InSlot, Storing, QueuedType, TokenType, RestartsType, LoopsKept,
      Spent, Patient, OnTime, LoopOff, TaskHasRun, SlotHeld, SearchIn, OneTaskPerSearch,
      ShownSaved, RankedSaved, RankedShown
<1>3. RunType'
  BY ZenonT(60), <1>1 DEF Inv, RunType, RunRows, Statuses, Terminal, RunSearch
<1>4. Counted'
  BY <1>1 DEF Inv, Counted, ShownType, RunType, RunRows, Statuses, Terminal, RunSearch
<1>5. QED
  BY <1>2, <1>3, <1>4 DEF Inv

LEMMA SearchStartPreserves ==
    ASSUME Inv, NEW r \in Runs, SearchStart(r) PROVE Inv'
<1>1. UNCHANGED <<loop, tripped, saved, shown, job, queued, token, restarts>>
  BY DEF SearchStart, managerVars, agentVars
<1>2. LoopType' /\ TrippedType' /\ SavedType' /\ ShownType' /\ JobType'
      /\ QueuedType' /\ TokenType' /\ RestartsType' /\ LoopsKept' /\ OnTime'
      /\ LoopOff' /\ TaskHasRun' /\ SlotHeld' /\ OneTaskPerSearch' /\ ShownSaved'
      /\ RankedSaved' /\ RankedShown'
  BY <1>1 DEF Inv, LoopType, Loops, Stops, TrippedType, SavedType, ShownType, JobType,
      JobRows, JobSteps, InSlot, Storing, QueuedType, TokenType, RestartsType, LoopsKept,
      Spent, Patient, OnTime, LoopOff, TaskHasRun, SlotHeld, SearchIn, OneTaskPerSearch,
      ShownSaved, RankedSaved, RankedShown
<1>3. RunType'
  BY <1>1 DEF Inv, RunType, RunRows, Statuses, Terminal, SearchStart
<1>4. Counted'
  BY <1>1 DEF Inv, Counted, ShownType, RunType, RunRows, Statuses, Terminal, SearchStart
<1>5. QED
  BY <1>2, <1>3, <1>4 DEF Inv

LEMMA EnqueueNothingPreserves ==
    ASSUME Inv, NEW r \in Runs, EnqueueNothing(r) PROVE Inv'
<1>1. UNCHANGED <<loop, tripped, saved, shown, job, queued, token, restarts>>
  BY DEF EnqueueNothing, managerVars, agentVars
<1>2. LoopType' /\ TrippedType' /\ SavedType' /\ ShownType' /\ JobType'
      /\ QueuedType' /\ TokenType' /\ RestartsType' /\ LoopsKept' /\ OnTime'
      /\ LoopOff' /\ TaskHasRun' /\ SlotHeld' /\ OneTaskPerSearch' /\ ShownSaved'
      /\ RankedSaved' /\ RankedShown'
  BY <1>1 DEF Inv, LoopType, Loops, Stops, TrippedType, SavedType, ShownType, JobType,
      JobRows, JobSteps, InSlot, Storing, QueuedType, TokenType, RestartsType, LoopsKept,
      Spent, Patient, OnTime, LoopOff, TaskHasRun, SlotHeld, SearchIn, OneTaskPerSearch,
      ShownSaved, RankedSaved, RankedShown
<1>3. RunType'
  BY <1>1 DEF Inv, RunType, RunRows, Statuses, Terminal, EnqueueNothing
<1>4. Counted'
  BY <1>1 DEF Inv, Counted, ShownType, RunType, RunRows, Statuses, Terminal, EnqueueNothing
<1>5. QED
  BY <1>2, <1>3, <1>4 DEF Inv

LEMMA EnqueuePreserves ==
    ASSUME Inv, NEW r \in Runs, NEW j \in Jobs, Enqueue(r, j) PROVE Inv'
<1>1. UNCHANGED <<loop, saved, shown, restarts>>
  BY DEF Enqueue, Spawn, FirstIdle, managerVars, agentVars
<1>2. LoopType' /\ SavedType' /\ ShownType' /\ RestartsType' /\ LoopsKept'
      /\ ShownSaved'
  BY <1>1 DEF Inv, LoopType, Loops, Stops, SavedType, ShownType, RestartsType, LoopsKept,
      Spent, Patient, ShownSaved
<1>3. TrippedType'
  BY <1>1 DEF Inv, TrippedType, Enqueue, Spawn, FirstIdle
<1>4. RunType'
  BY <1>1 DEF Inv, RunType, RunRows, Statuses, Terminal, Enqueue, Spawn, FirstIdle
<1>5. JobType'
  BY <1>1 DEF Inv, JobType, JobRows, JobSteps, InSlot, Storing, Enqueue, Spawn, FirstIdle
<1>6. QueuedType'
  BY <1>1 DEF Inv, QueuedType, Enqueue, Spawn, FirstIdle
<1>7. TokenType'
  BY <1>1 DEF Inv, TokenType, Enqueue, Spawn, FirstIdle
<1>8. OnTime'
  BY <1>1 DEF Inv, OnTime, LoopType, Loops, Stops, TrippedType, LoopOff, Enqueue, Spawn,
      FirstIdle
<1>9. LoopOff'
  BY <1>1 DEF Inv, LoopOff, LoopType, Loops, Stops, JobType, JobRows, JobSteps, InSlot,
      Storing, Enqueue, Spawn, FirstIdle
<1>10. TaskHasRun'
  BY <1>1 DEF Inv, TaskHasRun, JobType, JobRows, JobSteps, InSlot, Storing, Enqueue, Spawn,
      FirstIdle
<1>11. SlotHeld'
  BY <1>1 DEF Inv, SlotHeld, SearchIn, InSlot, Storing, JobType, JobRows, JobSteps,
      QueuedType, Enqueue, Spawn, FirstIdle
<1>12. OneTaskPerSearch'
  BY <1>1 DEF Inv, OneTaskPerSearch, SearchIn, InSlot, Storing, JobType, JobRows, JobSteps,
      SlotHeld, Enqueue, Spawn, FirstIdle
<1>13. RankedSaved'
  BY <1>1 DEF Inv, RankedSaved, SearchIn, JobType, JobRows, JobSteps, InSlot, Storing,
      SavedType, Enqueue, Spawn, FirstIdle
<1>14. RankedShown'
  BY <1>1 DEF Inv, RankedShown, JobType, JobRows, JobSteps, InSlot, Storing, ShownType,
      Enqueue, Spawn, FirstIdle
<1>15. Counted'
  BY <1>1 DEF Inv, Counted, ShownType, RunType, RunRows, Statuses, Terminal, Enqueue, Spawn,
      FirstIdle
<1>16. QED
  BY <1>2, <1>3, <1>4, <1>5, <1>6, <1>7, <1>8, <1>9, <1>10, <1>11, <1>12, <1>13, <1>14,
      <1>15 DEF Inv

LEMMA BeginPreserves ==
    ASSUME Inv, NEW j \in Jobs, Begin(j) PROVE Inv'
<1>1. UNCHANGED <<loop, tripped, saved, shown, queued, token, restarts>>
  BY DEF Begin, Step, SetRun, managerVars, agentVars
<1>2. LoopType' /\ TrippedType' /\ SavedType' /\ ShownType' /\ QueuedType'
      /\ TokenType' /\ RestartsType' /\ LoopsKept' /\ OnTime' /\ ShownSaved'
  BY <1>1 DEF Inv, LoopType, Loops, Stops, TrippedType, SavedType, ShownType, QueuedType,
      TokenType, RestartsType, LoopsKept, Spent, Patient, OnTime, ShownSaved
<1>3. RunType'
  BY <1>1 DEF Inv, RunType, RunRows, Statuses, Terminal, TaskHasRun, Begin, Step, SetRun
<1>4. JobType'
  BY <1>1 DEF Inv, JobType, JobRows, JobSteps, InSlot, Storing, Begin, Step, SetRun
<1>5. LoopOff'
  BY <1>1 DEF Inv, LoopOff, LoopType, Loops, Stops, JobType, JobRows, JobSteps, InSlot,
      Storing, Begin, Step, SetRun
<1>6. TaskHasRun'
  BY <1>1 DEF Inv, TaskHasRun, JobType, JobRows, JobSteps, InSlot, Storing, Begin, Step,
      SetRun
<1>7. SlotHeld'
  BY <1>1 DEF Inv, SlotHeld, SearchIn, InSlot, Storing, JobType, JobRows, JobSteps,
      QueuedType, Begin, Step, SetRun
<1>8. OneTaskPerSearch'
  BY <1>1 DEF Inv, OneTaskPerSearch, SearchIn, InSlot, Storing, JobType, JobRows, JobSteps,
      Begin, Step, SetRun
<1>9. RankedSaved'
  BY <1>1 DEF Inv, RankedSaved, SearchIn, JobType, JobRows, JobSteps, InSlot, Storing,
      SavedType, Begin, Step, SetRun
<1>10. RankedShown'
  BY <1>1 DEF Inv, RankedShown, JobType, JobRows, JobSteps, InSlot, Storing, ShownType,
      Begin, Step, SetRun
<1>11. Counted'
  BY <1>1 DEF Inv, Counted, ShownType, RunType, RunRows, Statuses, Terminal, TaskHasRun,
      Begin, Step, SetRun
<1>12. QED
  BY <1>2, <1>3, <1>4, <1>5, <1>6, <1>7, <1>8, <1>9, <1>10, <1>11 DEF Inv

LEMMA SnapshotPreserves ==
    ASSUME Inv, NEW j \in Jobs, Snapshot(j) PROVE Inv'
<1>1. UNCHANGED <<tripped, saved, run, shown, queued, token, restarts>>
  BY DEF Snapshot, Step, NewLoop, managerVars, agentVars
<1>2. TrippedType' /\ SavedType' /\ RunType' /\ ShownType' /\ QueuedType'
      /\ TokenType' /\ RestartsType' /\ ShownSaved' /\ Counted'
  BY <1>1 DEF Inv, TrippedType, SavedType, RunType, RunRows, Statuses, Terminal, ShownType,
      QueuedType, TokenType, RestartsType, ShownSaved, Counted
<1>3. LoopType'
  BY <1>1 DEF Inv, LoopType, Loops, Stops, SearchIn, TaskHasRun, SavedType, Snapshot, Step,
      NewLoop
<1>4. JobType'
  BY <1>1 DEF Inv, JobType, JobRows, JobSteps, InSlot, Storing, Snapshot, Step, NewLoop
<1>5. LoopsKept'
  BY <1>1 DEF Inv, LoopsKept, Spent, Patient, LoopType, Loops, Stops, Snapshot, Step,
      NewLoop
<1>6. OnTime'
  BY <1>1 DEF Inv, OnTime, LoopType, Loops, Stops, TrippedType, Snapshot, Step, NewLoop
<1>7. LoopOff'
  BY <1>1 DEF Inv, LoopOff, LoopType, Loops, Stops, JobType, JobRows, JobSteps, InSlot,
      Storing, Snapshot, Step, NewLoop
<1>8. TaskHasRun'
  BY <1>1 DEF Inv, TaskHasRun, JobType, JobRows, JobSteps, InSlot, Storing, Snapshot, Step,
      NewLoop
<1>9. SlotHeld'
  BY <1>1 DEF Inv, SlotHeld, SearchIn, InSlot, Storing, JobType, JobRows, JobSteps,
      QueuedType, Snapshot, Step, NewLoop
<1>10. OneTaskPerSearch'
  BY <1>1 DEF Inv, OneTaskPerSearch, SearchIn, InSlot, Storing, JobType, JobRows, JobSteps,
      Snapshot, Step, NewLoop
<1>11. RankedSaved'
  BY <1>1 DEF Inv, RankedSaved, SearchIn, JobType, JobRows, JobSteps, InSlot, Storing,
      SavedType, Snapshot, Step, NewLoop
<1>12. RankedShown'
  BY <1>1 DEF Inv, RankedShown, JobType, JobRows, JobSteps, InSlot, Storing, ShownType,
      Snapshot, Step, NewLoop
<1>13. QED
  BY <1>2, <1>3, <1>4, <1>5, <1>6, <1>7, <1>8, <1>9, <1>10, <1>11, <1>12 DEF Inv

LEMMA LoopReturnsPreserves ==
    ASSUME Inv, NEW j \in Jobs, LoopReturns(j) PROVE Inv'
<1>1. UNCHANGED <<tripped, saved, run, shown, queued, token, restarts>>
  BY DEF LoopReturns, Ranked, NoLoop, NewLoop, Move, managerVars, agentVars
<1>2. TrippedType' /\ SavedType' /\ RunType' /\ ShownType' /\ QueuedType'
      /\ TokenType' /\ RestartsType' /\ ShownSaved' /\ Counted'
  BY <1>1 DEF Inv, TrippedType, SavedType, RunType, RunRows, Statuses, Terminal, ShownType,
      QueuedType, TokenType, RestartsType, ShownSaved, Counted
<1>3. LoopType'
  <2>1. loop[j].stop \in Stops
    BY DEF Inv, LoopType, Loops
  <2> DEFINE over == [NoLoop EXCEPT !.stop = loop[j].stop]
  <2>2. over \in Loops
    <3>1. NoLoop \in Loops
      BY DEF NoLoop, NewLoop, Loops, Stops
    <3>2. QED
      BY <2>1, <3>1 DEF Loops
  <2>3. QED
    BY <2>2 DEF Inv, LoopType, LoopReturns, Move
<1>4. JobType'
  <2>1. PICK ranked \in SUBSET Papers :
          job' = [job EXCEPT ![j].at = "candidates", ![j].ranked = ranked]
    BY DEF Inv, LoopType, Loops, LoopReturns, Ranked
  <2>2. [job[j] EXCEPT !.at = "candidates", !.ranked = ranked] \in JobRows
    BY DEF Inv, JobType, JobRows, JobSteps, InSlot, Storing
  <2>3. job' = [job EXCEPT ![j] = [job[j] EXCEPT !.at = "candidates", !.ranked = ranked]]
    BY <2>1 DEF Inv, JobType
  <2>4. QED
    BY <2>2, <2>3 DEF Inv, JobType
<1>5. LoopsKept'
  BY <1>1 DEF Inv, LoopsKept, Spent, Patient, LoopType, Loops, Stops, LoopReturns, Ranked,
      NoLoop, NewLoop, Move
<1>6. OnTime'
  BY <1>1 DEF Inv, OnTime, LoopType, Loops, Stops, TrippedType, LoopReturns, Ranked, NoLoop,
      NewLoop, Move
<1>7. LoopOff'
  BY <1>1 DEF Inv, LoopOff, LoopType, Loops, Stops, JobType, JobRows, JobSteps, InSlot,
      Storing, LoopReturns, Ranked, NoLoop, NewLoop, Move
<1>8. TaskHasRun'
  BY <1>1 DEF Inv, TaskHasRun, JobType, JobRows, JobSteps, InSlot, Storing, LoopReturns,
      Ranked, NoLoop, NewLoop, Move
<1>9. SlotHeld'
  BY <1>1 DEF Inv, SlotHeld, SearchIn, InSlot, Storing, JobType, JobRows, JobSteps,
      QueuedType, LoopReturns, Ranked, NoLoop, NewLoop, Move
<1>10. OneTaskPerSearch'
  BY <1>1 DEF Inv, OneTaskPerSearch, SearchIn, InSlot, Storing, JobType, JobRows, JobSteps,
      LoopReturns, Ranked, NoLoop, NewLoop, Move
<1>11. RankedSaved'
  BY <1>1 DEF Inv, RankedSaved, SearchIn, JobType, JobRows, JobSteps, InSlot, Storing,
      SavedType, LoopReturns, Ranked, NoLoop, NewLoop, Move
<1>12. RankedShown'
  BY <1>1 DEF Inv, RankedShown, JobType, JobRows, JobSteps, InSlot, Storing, ShownType,
      LoopReturns, Ranked, NoLoop, NewLoop, Move
<1>13. QED
  BY <1>2, <1>3, <1>4, <1>5, <1>6, <1>7, <1>8, <1>9, <1>10, <1>11, <1>12 DEF Inv

LEMMA LoopErrsPreserves ==
    ASSUME Inv, NEW j \in Jobs, LoopErrs(j) PROVE Inv'
<1>1. UNCHANGED <<tripped, saved, run, shown, queued, token, restarts>>
  BY DEF LoopErrs, Step, NoLoop, NewLoop, Move, managerVars, agentVars
<1>2. TrippedType' /\ SavedType' /\ RunType' /\ ShownType' /\ QueuedType'
      /\ TokenType' /\ RestartsType' /\ ShownSaved' /\ Counted'
  BY <1>1 DEF Inv, TrippedType, SavedType, RunType, RunRows, Statuses, Terminal, ShownType,
      QueuedType, TokenType, RestartsType, ShownSaved, Counted
<1>3. LoopType'
  BY <1>1 DEF Inv, LoopType, Loops, Stops, LoopErrs, Step, NoLoop, NewLoop, Move
<1>4. JobType'
  BY <1>1 DEF Inv, JobType, JobRows, JobSteps, InSlot, Storing, LoopErrs, Step, NoLoop,
      NewLoop, Move
<1>5. LoopsKept'
  BY <1>1 DEF Inv, LoopsKept, Spent, Patient, LoopType, Loops, Stops, LoopErrs, Step,
      NoLoop, NewLoop, Move
<1>6. OnTime'
  BY <1>1 DEF Inv, OnTime, LoopType, Loops, Stops, TrippedType, LoopErrs, Step, NoLoop,
      NewLoop, Move
<1>7. LoopOff'
  BY <1>1 DEF Inv, LoopOff, LoopType, Loops, Stops, JobType, JobRows, JobSteps, InSlot,
      Storing, LoopErrs, Step, NoLoop, NewLoop, Move
<1>8. TaskHasRun'
  BY <1>1 DEF Inv, TaskHasRun, JobType, JobRows, JobSteps, InSlot, Storing, LoopErrs, Step,
      NoLoop, NewLoop, Move
<1>9. SlotHeld'
  BY <1>1 DEF Inv, SlotHeld, SearchIn, InSlot, Storing, JobType, JobRows, JobSteps,
      QueuedType, LoopErrs, Step, NoLoop, NewLoop, Move
<1>10. OneTaskPerSearch'
  BY <1>1 DEF Inv, OneTaskPerSearch, SearchIn, InSlot, Storing, JobType, JobRows, JobSteps,
      LoopErrs, Step, NoLoop, NewLoop, Move
<1>11. RankedSaved'
  BY <1>1 DEF Inv, RankedSaved, SearchIn, JobType, JobRows, JobSteps, InSlot, Storing,
      SavedType, LoopErrs, Step, NoLoop, NewLoop, Move
<1>12. RankedShown'
  BY <1>1 DEF Inv, RankedShown, JobType, JobRows, JobSteps, InSlot, Storing, ShownType,
      LoopErrs, Step, NoLoop, NewLoop, Move
<1>13. QED
  BY <1>2, <1>3, <1>4, <1>5, <1>6, <1>7, <1>8, <1>9, <1>10, <1>11, <1>12 DEF Inv

LEMMA ErrsPreserves ==
    ASSUME Inv, NEW j \in Jobs, Errs(j) PROVE Inv'
<1>1. UNCHANGED <<loop, tripped, saved, run, shown, queued, token, restarts>>
  BY DEF Errs, Step, managerVars, agentVars
<1>2. LoopType' /\ TrippedType' /\ SavedType' /\ RunType' /\ ShownType'
      /\ QueuedType' /\ TokenType' /\ RestartsType' /\ LoopsKept' /\ OnTime'
      /\ ShownSaved' /\ Counted'
  BY <1>1 DEF Inv, LoopType, Loops, Stops, TrippedType, SavedType, RunType, RunRows,
      Statuses, Terminal, ShownType, QueuedType, TokenType, RestartsType, LoopsKept, Spent,
      Patient, OnTime, ShownSaved, Counted
<1>3. JobType'
  BY <1>1 DEF Inv, JobType, JobRows, JobSteps, InSlot, Storing, Errs, Step
<1>4. LoopOff'
  BY <1>1 DEF Inv, LoopOff, LoopType, Loops, Stops, JobType, JobRows, JobSteps, InSlot,
      Storing, Errs, Step
<1>5. TaskHasRun'
  BY <1>1 DEF Inv, TaskHasRun, JobType, JobRows, JobSteps, InSlot, Storing, Errs, Step
<1>6. SlotHeld'
  BY <1>1 DEF Inv, SlotHeld, SearchIn, InSlot, Storing, JobType, JobRows, JobSteps,
      QueuedType, Errs, Step
<1>7. OneTaskPerSearch'
  BY <1>1 DEF Inv, OneTaskPerSearch, SearchIn, InSlot, Storing, JobType, JobRows, JobSteps,
      Errs, Step
<1>8. RankedSaved'
  BY <1>1 DEF Inv, RankedSaved, SearchIn, JobType, JobRows, JobSteps, InSlot, Storing,
      SavedType, Errs, Step
<1>9. RankedShown'
  BY <1>1 DEF Inv, RankedShown, JobType, JobRows, JobSteps, InSlot, Storing, ShownType,
      Errs, Step
<1>10. QED
  BY <1>2, <1>3, <1>4, <1>5, <1>6, <1>7, <1>8, <1>9 DEF Inv

LEMMA AppendCandidatesPreserves ==
    ASSUME Inv, NEW j \in Jobs, AppendCandidates(j) PROVE Inv'
<1>1. UNCHANGED <<loop, tripped, run, shown, queued, token, restarts>>
  BY DEF AppendCandidates, Step, managerVars, agentVars
<1>2. LoopType' /\ TrippedType' /\ RunType' /\ ShownType' /\ QueuedType'
      /\ TokenType' /\ RestartsType' /\ LoopsKept' /\ OnTime' /\ Counted'
  BY <1>1 DEF Inv, LoopType, Loops, Stops, TrippedType, RunType, RunRows, Statuses,
      Terminal, ShownType, QueuedType, TokenType, RestartsType, LoopsKept, Spent, Patient,
      OnTime, Counted
<1>3. SavedType'
  BY <1>1 DEF Inv, SavedType, JobType, JobRows, SearchIn, AppendCandidates, Step
<1>4. JobType'
  BY <1>1 DEF Inv, JobType, JobRows, JobSteps, InSlot, Storing, AppendCandidates, Step
<1>5. LoopOff'
  BY <1>1 DEF Inv, LoopOff, LoopType, Loops, Stops, JobType, JobRows, JobSteps, InSlot,
      Storing, AppendCandidates, Step
<1>6. TaskHasRun'
  BY <1>1 DEF Inv, TaskHasRun, JobType, JobRows, JobSteps, InSlot, Storing,
      AppendCandidates, Step
<1>7. SlotHeld'
  BY <1>1 DEF Inv, SlotHeld, SearchIn, InSlot, Storing, JobType, JobRows, JobSteps,
      QueuedType, AppendCandidates, Step
<1>8. OneTaskPerSearch'
  BY <1>1 DEF Inv, OneTaskPerSearch, SearchIn, InSlot, Storing, JobType, JobRows, JobSteps,
      AppendCandidates, Step
<1>9. ShownSaved'
  BY <1>1 DEF Inv, ShownSaved, ShownType, SavedType, JobType, JobRows, SearchIn,
      AppendCandidates, Step
<1>10. RankedSaved'
  BY <1>1 DEF Inv, RankedSaved, SearchIn, JobType, JobRows, JobSteps, InSlot, Storing,
      SavedType, TaskHasRun, AppendCandidates, Step
<1>11. RankedShown'
  BY <1>1 DEF Inv, RankedShown, JobType, JobRows, JobSteps, InSlot, Storing, ShownType,
      AppendCandidates, Step
<1>12. QED
  BY <1>2, <1>3, <1>4, <1>5, <1>6, <1>7, <1>8, <1>9, <1>10, <1>11 DEF Inv

LEMMA AppendEventsPreserves ==
    ASSUME Inv, NEW j \in Jobs, AppendEvents(j) PROVE Inv'
<1>1. UNCHANGED <<loop, tripped, saved, run, queued, token, restarts>>
  BY DEF AppendEvents, Step, managerVars, agentVars
<1>2. LoopType' /\ TrippedType' /\ SavedType' /\ RunType' /\ QueuedType'
      /\ TokenType' /\ RestartsType' /\ LoopsKept' /\ OnTime'
  BY <1>1 DEF Inv, LoopType, Loops, Stops, TrippedType, SavedType, RunType, RunRows,
      Statuses, Terminal, QueuedType, TokenType, RestartsType, LoopsKept, Spent, Patient,
      OnTime
<1>3. ShownType'
  BY <1>1 DEF Inv, ShownType, JobType, JobRows, AppendEvents, Step
<1>4. JobType'
  BY <1>1 DEF Inv, JobType, JobRows, JobSteps, InSlot, Storing, AppendEvents, Step
<1>5. LoopOff'
  BY <1>1 DEF Inv, LoopOff, LoopType, Loops, Stops, JobType, JobRows, JobSteps, InSlot,
      Storing, AppendEvents, Step
<1>6. TaskHasRun'
  BY <1>1 DEF Inv, TaskHasRun, JobType, JobRows, JobSteps, InSlot, Storing, AppendEvents,
      Step
<1>7. SlotHeld'
  BY <1>1 DEF Inv, SlotHeld, SearchIn, InSlot, Storing, JobType, JobRows, JobSteps,
      QueuedType, AppendEvents, Step
<1>8. OneTaskPerSearch'
  BY <1>1 DEF Inv, OneTaskPerSearch, SearchIn, InSlot, Storing, JobType, JobRows, JobSteps,
      AppendEvents, Step
<1>9. ShownSaved'
  BY <1>1 DEF Inv, ShownSaved, ShownType, SavedType, RankedSaved, SearchIn, JobType,
      JobRows, AppendEvents, Step
<1>10. RankedSaved'
  BY <1>1 DEF Inv, RankedSaved, SearchIn, JobType, JobRows, JobSteps, InSlot, Storing,
      SavedType, AppendEvents, Step
<1>11. RankedShown'
  BY <1>1 DEF Inv, RankedShown, JobType, JobRows, JobSteps, InSlot, Storing, ShownType,
      AppendEvents, Step
<1>12. Counted'
  <2> SUFFICES ASSUME NEW r \in AgentRuns PROVE Cardinality(shown'[r]) >= run[r].inspected
    BY <1>1 DEF Counted
  <2>1. shown[r] \in SUBSET shown'[r] /\ shown'[r] \in SUBSET Papers
    BY DEF Inv, ShownType, JobType, JobRows, AppendEvents
  <2>2. Cardinality(shown[r]) \in Nat /\ Cardinality(shown'[r]) \in Nat
        /\ Cardinality(shown[r]) <= Cardinality(shown'[r])
    BY <2>1, PapersFinite
  <2>3. run[r].inspected \in Nat /\ Cardinality(shown[r]) >= run[r].inspected
    BY DEF Inv, RunType, RunRows, Counted
  <2>4. QED
    BY <2>2, <2>3
<1>13. QED
  BY <1>2, <1>3, <1>4, <1>5, <1>6, <1>7, <1>8, <1>9, <1>10, <1>11, <1>12 DEF Inv

LEMMA SetUsagePreserves ==
    ASSUME Inv, NEW j \in Jobs, SetUsage(j) PROVE Inv'
<1>1. UNCHANGED <<loop, tripped, saved, shown, queued, token, restarts>>
  BY DEF SetUsage, Step, managerVars, agentVars
<1>2. LoopType' /\ TrippedType' /\ SavedType' /\ ShownType' /\ QueuedType'
      /\ TokenType' /\ RestartsType' /\ LoopsKept' /\ OnTime' /\ ShownSaved'
  BY <1>1 DEF Inv, LoopType, Loops, Stops, TrippedType, SavedType, ShownType, QueuedType,
      TokenType, RestartsType, LoopsKept, Spent, Patient, OnTime, ShownSaved
<1>3. RunType'
  <2>1. Cardinality(job[j].ranked) \in Nat
    BY PapersFinite DEF Inv, JobType, JobRows
  <2>2. QED
    BY ZenonT(60), <2>1 DEF Inv, RunType, RunRows, SetUsage
<1>4. JobType'
  BY <1>1 DEF Inv, JobType, JobRows, JobSteps, InSlot, Storing, SetUsage, Step
<1>5. LoopOff'
  BY <1>1 DEF Inv, LoopOff, LoopType, Loops, Stops, JobType, JobRows, JobSteps, InSlot,
      Storing, SetUsage, Step
<1>6. TaskHasRun'
  BY <1>1 DEF Inv, TaskHasRun, JobType, JobRows, JobSteps, InSlot, Storing, SetUsage, Step
<1>7. SlotHeld'
  BY <1>1 DEF Inv, SlotHeld, SearchIn, InSlot, Storing, JobType, JobRows, JobSteps,
      QueuedType, SetUsage, Step
<1>8. OneTaskPerSearch'
  BY <1>1 DEF Inv, OneTaskPerSearch, SearchIn, InSlot, Storing, JobType, JobRows, JobSteps,
      SetUsage, Step
<1>9. RankedSaved'
  BY <1>1 DEF Inv, RankedSaved, SearchIn, JobType, JobRows, JobSteps, InSlot, Storing,
      SavedType, SetUsage, Step
<1>10. RankedShown'
  BY <1>1 DEF Inv, RankedShown, JobType, JobRows, JobSteps, InSlot, Storing, ShownType,
      SetUsage, Step
<1>11. Counted'
  <2> SUFFICES ASSUME NEW r \in AgentRuns PROVE Cardinality(shown[r]) >= run'[r].inspected
    BY <1>1 DEF Counted
  <2>1. CASE r # job[j].run
    BY <2>1 DEF Inv, RunType, Counted, SetUsage
  <2>2. CASE r = job[j].run
    <3>1. job[j].ranked \in SUBSET shown[r] /\ shown[r] \in SUBSET Papers
      BY <2>2 DEF Inv, RankedShown, ShownType, SetUsage, Step
    <3>2. Cardinality(job[j].ranked) <= Cardinality(shown[r])
          /\ Cardinality(job[j].ranked) \in Nat /\ Cardinality(shown[r]) \in Nat
      BY <3>1, PapersFinite
    <3>3. run'[r].inspected = Cardinality(job[j].ranked)
      BY <2>2 DEF Inv, RunType, RunRows, SetUsage
    <3>4. QED
      BY <3>2, <3>3
  <2>3. QED
    BY <2>1, <2>2
<1>12. QED
  BY <1>2, <1>3, <1>4, <1>5, <1>6, <1>7, <1>8, <1>9, <1>10, <1>11 DEF Inv

LEMMA ConcludePreserves ==
    ASSUME Inv, NEW j \in Jobs, Conclude(j) PROVE Inv'
<1>1. UNCHANGED <<loop, tripped, saved, shown, queued, token, restarts>>
  BY DEF Conclude, Step, SetRun, managerVars, agentVars
<1>2. LoopType' /\ TrippedType' /\ SavedType' /\ ShownType' /\ QueuedType'
      /\ TokenType' /\ RestartsType' /\ LoopsKept' /\ OnTime' /\ ShownSaved'
  BY <1>1 DEF Inv, LoopType, Loops, Stops, TrippedType, SavedType, ShownType, QueuedType,
      TokenType, RestartsType, LoopsKept, Spent, Patient, OnTime, ShownSaved
<1>3. RunType'
  <2>1. PICK status \in Statuses : run' = [run EXCEPT ![job[j].run].status = status]
    BY DEF Conclude, SetRun, Statuses, Terminal
  <2>2. QED
    BY ZenonT(60), <2>1 DEF Inv, RunType, RunRows
<1>4. JobType'
  BY <1>1 DEF Inv, JobType, JobRows, JobSteps, InSlot, Storing, Conclude, Step, SetRun
<1>5. LoopOff'
  BY <1>1 DEF Inv, LoopOff, LoopType, Loops, Stops, JobType, JobRows, JobSteps, InSlot,
      Storing, Conclude, Step, SetRun
<1>6. TaskHasRun'
  BY <1>1 DEF Inv, TaskHasRun, JobType, JobRows, JobSteps, InSlot, Storing, Conclude, Step,
      SetRun
<1>7. SlotHeld'
  BY <1>1 DEF Inv, SlotHeld, SearchIn, InSlot, Storing, JobType, JobRows, JobSteps,
      QueuedType, Conclude, Step, SetRun
<1>8. OneTaskPerSearch'
  BY <1>1 DEF Inv, OneTaskPerSearch, SearchIn, InSlot, Storing, JobType, JobRows, JobSteps,
      Conclude, Step, SetRun
<1>9. RankedSaved'
  BY <1>1 DEF Inv, RankedSaved, SearchIn, JobType, JobRows, JobSteps, InSlot, Storing,
      SavedType, Conclude, Step, SetRun
<1>10. RankedShown'
  BY <1>1 DEF Inv, RankedShown, JobType, JobRows, JobSteps, InSlot, Storing, ShownType,
      Conclude, Step, SetRun
<1>11. Counted'
  BY <1>1 DEF Inv, Counted, ShownType, RunType, RunRows, Statuses, Terminal, Conclude, Step,
      SetRun
<1>12. QED
  BY <1>2, <1>3, <1>4, <1>5, <1>6, <1>7, <1>8, <1>9, <1>10, <1>11 DEF Inv

LEMMA MarkFinishedPreserves ==
    ASSUME Inv, NEW j \in Jobs, MarkFinished(j) PROVE Inv'
<1>1. UNCHANGED <<tripped, saved, run, shown, token, restarts>>
  BY DEF MarkFinished, NoLoop, NewLoop, managerVars, agentVars
<1>2. TrippedType' /\ SavedType' /\ RunType' /\ ShownType' /\ TokenType'
      /\ RestartsType' /\ ShownSaved' /\ Counted'
  BY <1>1 DEF Inv, TrippedType, SavedType, RunType, RunRows, Statuses, Terminal, ShownType,
      TokenType, RestartsType, ShownSaved, Counted
<1>3. LoopType'
  BY <1>1 DEF Inv, LoopType, Loops, Stops, MarkFinished, NoLoop, NewLoop
<1>4. JobType'
  <2>1. \/ job' = [job EXCEPT ![j].at = "cleanup", ![j].ranked = {}]
        \/ job' = [job EXCEPT ![j].at = "failed_cleanup", ![j].ranked = {}]
    BY DEF MarkFinished
  <2>2. QED
    BY <2>1 DEF Inv, JobType, JobRows, JobSteps
<1>5. QueuedType'
  BY <1>1 DEF Inv, QueuedType, MarkFinished, NoLoop, NewLoop
<1>6. LoopsKept'
  BY <1>1 DEF Inv, LoopsKept, Spent, Patient, LoopType, Loops, Stops, MarkFinished, NoLoop,
      NewLoop
<1>7. OnTime'
  BY <1>1 DEF Inv, OnTime, LoopType, Loops, Stops, TrippedType, MarkFinished, NoLoop,
      NewLoop
<1>8. LoopOff'
  BY <1>1 DEF Inv, LoopOff, LoopType, Loops, Stops, JobType, JobRows, JobSteps, InSlot,
      Storing, MarkFinished, NoLoop, NewLoop
<1>9. TaskHasRun'
  BY <1>1 DEF Inv, TaskHasRun, JobType, JobRows, JobSteps, InSlot, Storing, MarkFinished,
      NoLoop, NewLoop
<1>10. SlotHeld'
  BY <1>1 DEF Inv, SlotHeld, SearchIn, InSlot, Storing, JobType, JobRows, JobSteps,
      QueuedType, OneTaskPerSearch, MarkFinished, NoLoop, NewLoop
<1>11. OneTaskPerSearch'
  BY <1>1 DEF Inv, OneTaskPerSearch, SearchIn, InSlot, Storing, JobType, JobRows, JobSteps,
      MarkFinished, NoLoop, NewLoop
<1>12. RankedSaved'
  BY <1>1 DEF Inv, RankedSaved, SearchIn, JobType, JobRows, JobSteps, InSlot, Storing,
      SavedType, MarkFinished, NoLoop, NewLoop
<1>13. RankedShown'
  BY <1>1 DEF Inv, RankedShown, JobType, JobRows, JobSteps, InSlot, Storing, ShownType,
      MarkFinished, NoLoop, NewLoop
<1>14. QED
  BY <1>2, <1>3, <1>4, <1>5, <1>6, <1>7, <1>8, <1>9, <1>10, <1>11, <1>12, <1>13 DEF Inv

LEMMA RemoveTokenPreserves ==
    ASSUME Inv, NEW j \in Jobs, RemoveToken(j) PROVE Inv'
<1>1. UNCHANGED <<loop, saved, run, shown, queued, restarts>>
  BY DEF RemoveToken, Step, managerVars, agentVars
<1>2. LoopType' /\ SavedType' /\ RunType' /\ ShownType' /\ QueuedType'
      /\ RestartsType' /\ LoopsKept' /\ ShownSaved' /\ Counted'
  BY <1>1 DEF Inv, LoopType, Loops, Stops, SavedType, RunType, RunRows, Statuses, Terminal,
      ShownType, QueuedType, RestartsType, LoopsKept, Spent, Patient, ShownSaved, Counted
<1>3. TrippedType'
  BY <1>1 DEF Inv, TrippedType, RemoveToken, Step
<1>4. JobType'
  BY <1>1 DEF Inv, JobType, JobRows, JobSteps, InSlot, Storing, RemoveToken, Step
<1>5. TokenType'
  BY <1>1 DEF Inv, TokenType, TaskHasRun, RemoveToken, Step
<1>6. OnTime'
  BY <1>1 DEF Inv, OnTime, LoopType, Loops, Stops, TrippedType, LoopOff, RemoveToken, Step
<1>7. LoopOff'
  BY <1>1 DEF Inv, LoopOff, LoopType, Loops, Stops, JobType, JobRows, JobSteps, InSlot,
      Storing, RemoveToken, Step
<1>8. TaskHasRun'
  BY <1>1 DEF Inv, TaskHasRun, JobType, JobRows, JobSteps, InSlot, Storing, RemoveToken,
      Step
<1>9. SlotHeld'
  BY <1>1 DEF Inv, SlotHeld, SearchIn, InSlot, Storing, JobType, JobRows, JobSteps,
      QueuedType, RemoveToken, Step
<1>10. OneTaskPerSearch'
  <2>1. PICK at \in {"over", "fail_run"} : job' = [job EXCEPT ![j].at = at]
    BY DEF RemoveToken, Step
  <2>2. \A k \in Jobs : job'[k].at \in InSlot => job'[k] = job[k]
    BY <2>1 DEF Inv, JobType, JobRows, InSlot, Storing
  <2>3. QED
    BY <2>2 DEF Inv, OneTaskPerSearch, SearchIn
<1>11. RankedSaved'
  BY <1>1 DEF Inv, RankedSaved, SearchIn, JobType, JobRows, JobSteps, InSlot, Storing,
      SavedType, RemoveToken, Step
<1>12. RankedShown'
  BY <1>1 DEF Inv, RankedShown, JobType, JobRows, JobSteps, InSlot, Storing, ShownType,
      RemoveToken, Step
<1>13. QED
  BY <1>2, <1>3, <1>4, <1>5, <1>6, <1>7, <1>8, <1>9, <1>10, <1>11, <1>12 DEF Inv

LEMMA FailRunPreserves ==
    ASSUME Inv, NEW j \in Jobs, FailRun(j) PROVE Inv'
<1>1. UNCHANGED <<loop, tripped, saved, shown, queued, token, restarts>>
  BY DEF FailRun, Step, SetRun, managerVars, agentVars
<1>2. LoopType' /\ TrippedType' /\ SavedType' /\ ShownType' /\ QueuedType'
      /\ TokenType' /\ RestartsType' /\ LoopsKept' /\ OnTime' /\ ShownSaved'
  BY <1>1 DEF Inv, LoopType, Loops, Stops, TrippedType, SavedType, ShownType, QueuedType,
      TokenType, RestartsType, LoopsKept, Spent, Patient, OnTime, ShownSaved
<1>3. RunType'
  BY ZenonT(60), <1>1 DEF Inv, RunType, RunRows, Statuses, Terminal, FailRun, Step, SetRun
<1>4. JobType'
  BY <1>1 DEF Inv, JobType, JobRows, JobSteps, InSlot, Storing, FailRun, Step, SetRun
<1>5. LoopOff'
  BY <1>1 DEF Inv, LoopOff, LoopType, Loops, Stops, JobType, JobRows, JobSteps, InSlot,
      Storing, FailRun, Step, SetRun
<1>6. TaskHasRun'
  BY <1>1 DEF Inv, TaskHasRun, JobType, JobRows, JobSteps, InSlot, Storing, FailRun, Step,
      SetRun
<1>7. SlotHeld'
  BY <1>1 DEF Inv, SlotHeld, SearchIn, InSlot, Storing, JobType, JobRows, JobSteps,
      QueuedType, FailRun, Step, SetRun
<1>8. OneTaskPerSearch'
  BY <1>1 DEF Inv, OneTaskPerSearch, SearchIn, InSlot, Storing, JobType, JobRows, JobSteps,
      FailRun, Step, SetRun
<1>9. RankedSaved'
  BY <1>1 DEF Inv, RankedSaved, SearchIn, JobType, JobRows, JobSteps, InSlot, Storing,
      SavedType, FailRun, Step, SetRun
<1>10. RankedShown'
  BY <1>1 DEF Inv, RankedShown, JobType, JobRows, JobSteps, InSlot, Storing, ShownType,
      FailRun, Step, SetRun
<1>11. Counted'
  BY <1>1 DEF Inv, Counted, ShownType, RunType, RunRows, Statuses, Terminal, FailRun, Step,
      SetRun
<1>12. QED
  BY <1>2, <1>3, <1>4, <1>5, <1>6, <1>7, <1>8, <1>9, <1>10, <1>11 DEF Inv

LEMMA CancelRunPreserves ==
    ASSUME Inv, NEW r \in Runs, CancelRun(r) PROVE Inv'
<1>1. UNCHANGED <<loop, saved, run, shown, job, queued, token, restarts>>
  BY DEF CancelRun, Trip, managerVars, agentVars
<1>2. LoopType' /\ SavedType' /\ RunType' /\ ShownType' /\ JobType'
      /\ QueuedType' /\ TokenType' /\ RestartsType' /\ LoopsKept' /\ LoopOff'
      /\ TaskHasRun' /\ SlotHeld' /\ OneTaskPerSearch' /\ ShownSaved' /\ RankedSaved'
      /\ RankedShown' /\ Counted'
  BY <1>1 DEF Inv, LoopType, Loops, Stops, SavedType, RunType, RunRows, Statuses, Terminal,
      ShownType, JobType, JobRows, JobSteps, InSlot, Storing, QueuedType, TokenType,
      RestartsType, LoopsKept, Spent, Patient, LoopOff, TaskHasRun, SlotHeld, SearchIn,
      OneTaskPerSearch, ShownSaved, RankedSaved, RankedShown, Counted
<1>3. TrippedType'
  BY <1>1 DEF Inv, TrippedType, TokenType, CancelRun, Trip
<1>4. OnTime'
  BY <1>1 DEF Inv, OnTime, LoopType, Loops, Stops, TrippedType, TokenType, CancelRun, Trip
<1>5. QED
  BY <1>2, <1>3, <1>4 DEF Inv

LEMMA SearchCancelPreserves ==
    ASSUME Inv, NEW r \in Runs, SearchCancel(r) PROVE Inv'
<1>1. UNCHANGED <<loop, saved, shown, job, queued, token, restarts>>
  BY DEF SearchCancel, Trip, managerVars, agentVars
<1>2. LoopType' /\ SavedType' /\ ShownType' /\ JobType' /\ QueuedType'
      /\ TokenType' /\ RestartsType' /\ LoopsKept' /\ LoopOff' /\ TaskHasRun'
      /\ SlotHeld' /\ OneTaskPerSearch' /\ ShownSaved' /\ RankedSaved' /\ RankedShown'
  BY <1>1 DEF Inv, LoopType, Loops, Stops, SavedType, ShownType, JobType, JobRows, JobSteps,
      InSlot, Storing, QueuedType, TokenType, RestartsType, LoopsKept, Spent, Patient,
      LoopOff, TaskHasRun, SlotHeld, SearchIn, OneTaskPerSearch, ShownSaved, RankedSaved,
      RankedShown
<1>3. TrippedType'
  BY <1>1 DEF Inv, TrippedType, TokenType, SearchCancel, Trip
<1>4. RunType'
  BY ZenonT(60), <1>1 DEF Inv, RunType, RunRows, Statuses, Terminal, SearchCancel, Trip
<1>5. OnTime'
  BY <1>1 DEF Inv, OnTime, LoopType, Loops, Stops, TrippedType, TokenType, SearchCancel,
      Trip
<1>6. Counted'
  BY <1>1 DEF Inv, Counted, ShownType, RunType, RunRows, Statuses, Terminal, SearchCancel,
      Trip
<1>7. QED
  BY <1>2, <1>3, <1>4, <1>5, <1>6 DEF Inv

LEMMA RestartPreserves ==
    ASSUME Inv, Restart PROVE Inv'
<1>1. UNCHANGED <<saved, shown>>
  BY DEF Restart, NoLoop, NewLoop, NoTask, managerVars, agentVars
<1>2. SavedType' /\ ShownType' /\ ShownSaved'
  BY <1>1 DEF Inv, SavedType, ShownType, ShownSaved
<1>3. LoopType'
  <2>1. NoLoop \in Loops
    BY DEF NoLoop, NewLoop, Loops, Stops
  <2>2. QED
    BY <2>1 DEF LoopType, Restart
<1>4. TrippedType'
  BY <1>1 DEF Inv, TrippedType, Restart, NoLoop, NewLoop, NoTask
<1>5. RunType'
  BY ZenonT(60), <1>1 DEF Inv, RunType, RunRows, Statuses, Terminal, Restart, NoLoop, NewLoop,
      NoTask
<1>6. JobType'
  BY <1>1 DEF Inv, JobType, JobRows, JobSteps, InSlot, Storing, Restart, NoLoop, NewLoop,
      NoTask
<1>7. QueuedType'
  BY <1>1 DEF Inv, QueuedType, Restart, NoLoop, NewLoop, NoTask
<1>8. TokenType'
  BY <1>1 DEF Inv, TokenType, Restart, NoLoop, NewLoop, NoTask
<1>9. RestartsType'
  BY <1>1 DEF Inv, RestartsType, Restart, NoLoop, NewLoop, NoTask
<1>10. LoopsKept'
  <2>1. Spent(NoLoop) /\ Patient(NoLoop)
    BY SearchAgentAssumption DEF Spent, Patient, NoLoop, NewLoop
  <2>2. \A j \in Jobs : loop'[j] = NoLoop
    BY DEF Restart
  <2>3. QED
    BY <2>1, <2>2 DEF LoopsKept, Spent, Patient
<1>11. OnTime'
  BY DEF OnTime, Restart, NoLoop, NewLoop
<1>12. LoopOff'
  BY <1>1 DEF Inv, LoopOff, LoopType, Loops, Stops, JobType, JobRows, JobSteps, InSlot,
      Storing, Restart, NoLoop, NewLoop, NoTask
<1>13. TaskHasRun'
  BY <1>1 DEF Inv, TaskHasRun, JobType, JobRows, JobSteps, InSlot, Storing, Restart, NoLoop,
      NewLoop, NoTask
<1>14. SlotHeld'
  BY <1>1 DEF Inv, SlotHeld, SearchIn, InSlot, Storing, JobType, JobRows, JobSteps,
      QueuedType, Restart, NoLoop, NewLoop, NoTask
<1>15. OneTaskPerSearch'
  BY <1>1 DEF Inv, OneTaskPerSearch, SearchIn, InSlot, Storing, JobType, JobRows, JobSteps,
      Restart, NoLoop, NewLoop, NoTask
<1>16. RankedSaved'
  BY <1>1 DEF Inv, RankedSaved, SearchIn, JobType, JobRows, JobSteps, InSlot, Storing,
      SavedType, Restart, NoLoop, NewLoop, NoTask
<1>17. RankedShown'
  BY <1>1 DEF Inv, RankedShown, JobType, JobRows, JobSteps, InSlot, Storing, ShownType,
      Restart, NoLoop, NewLoop, NoTask
<1>18. Counted'
  BY <1>1 DEF Inv, Counted, ShownType, RunType, RunRows, Statuses, Terminal, Restart,
      NoLoop, NewLoop, NoTask
<1>19. QED
  BY <1>2, <1>3, <1>4, <1>5, <1>6, <1>7, <1>8, <1>9, <1>10, <1>11, <1>12, <1>13, <1>14,
      <1>15, <1>16, <1>17, <1>18 DEF Inv

LEMMA InitInv == InitRuns => Inv
<1> SUFFICES ASSUME InitRuns PROVE Inv
  OBVIOUS
<1> USE DEF InitRuns
<1>1. LoopType /\ LoopsKept /\ OnTime
  BY DEF LoopType, Loops, Stops, NoLoop, NewLoop, LoopsKept, Spent, Patient, OnTime
<1>2. TrippedType /\ SavedType /\ ShownType /\ QueuedType /\ TokenType /\ RestartsType
  BY DEF TrippedType, SavedType, ShownType, QueuedType, TokenType, RestartsType
<1>3. RunType
  BY DEF RunType, RunRows, NoSearchRun
<1>4. JobType /\ LoopOff /\ TaskHasRun /\ SlotHeld /\ OneTaskPerSearch /\ RankedSaved /\ RankedShown
  BY DEF JobType, JobRows, JobSteps, NoTask, LoopOff, NoLoop, NewLoop, TaskHasRun, SlotHeld,
      OneTaskPerSearch, InSlot, Storing, RankedSaved, RankedShown
<1>5. ShownSaved /\ Counted
  BY FS_EmptySet DEF ShownSaved, Counted, NoSearchRun
<1>6. QED
  BY <1>1, <1>2, <1>3, <1>4, <1>5 DEF Inv

LEMMA StutterPreserves == ASSUME Inv, UNCHANGED vars PROVE Inv'
  BY DEF Inv, vars, agentVars, managerVars, LoopType, TrippedType, SavedType, RunType, ShownType,
      JobType, QueuedType, TokenType, RestartsType, LoopsKept, OnTime, LoopOff, TaskHasRun,
      SlotHeld, OneTaskPerSearch, SearchIn, ShownSaved, RankedSaved, RankedShown, Counted

LEMMA TaskPreserves ==
    ASSUME Inv, NEW j \in Jobs, TaskSteps(j) PROVE Inv'
  BY BeginPreserves, SnapshotPreserves, LoopPreserves, LoopReturnsPreserves, LoopErrsPreserves,
     ErrsPreserves, AppendCandidatesPreserves, AppendEventsPreserves, SetUsagePreserves,
     ConcludePreserves, MarkFinishedPreserves, RemoveTokenPreserves, FailRunPreserves
     DEF TaskSteps

LEMMA NextPreserves == ASSUME Inv, [Next]_vars PROVE Inv'
  BY RunSearchPreserves, SearchStartPreserves, EnqueueNothingPreserves, CancelRunPreserves,
     SearchCancelPreserves, EnqueuePreserves, TaskPreserves, RestartPreserves, StutterPreserves
     DEF Next

\* The invariant holds in every state.
LEMMA InvHolds == Spec => []Inv
<1>1. InitRuns => Inv
  BY InitInv
<1>2. Inv /\ [Next]_vars => Inv'
  BY NextPreserves
<1>3. QED
  BY <1>1, <1>2, PTL DEF Spec

\* The state keeps the shape of the tables, the maps and the tasks (TypeOK).
THEOREM SearchRunsTypeCorrect == Spec => []TypeOK
<1>1. Inv => TypeOK
  BY DEF Inv, TypeOK, LoopType, TrippedType, SavedType, RunType, ShownType, JobType,
      QueuedType, TokenType, RestartsType
<1>2. QED
  BY <1>1, InvHolds, PTL

\* No execution of the loop spends more than its strategy (BudgetKept), whatever
\* the model asks for and however the rounds go.
THEOREM BudgetAlwaysKept == Spec => []BudgetKept
<1>1. Inv => BudgetKept
  BY DEF Inv, BudgetKept, LoopType, Loops, LoopsKept, Spent
<1>2. QED
  BY <1>1, InvHolds, PTL

\* A cancelled loop begins no more remote calls than the answer and the queries it
\* is about may need (LateCallsBounded): no assessment and no further round.
THEOREM LateCallsAlwaysBounded == Spec => []LateCallsBounded
<1>1. Inv => LateCallsBounded
  BY DEF Inv, LateCallsBounded, LoopsKept, Patient
<1>2. QED
  BY <1>1, InvHolds, PTL

\* No two tasks execute one search (OneTaskPerSearch), whoever starts it.
THEOREM OneTaskAlways == Spec => []OneTaskPerSearch
<1>1. Inv => OneTaskPerSearch
  BY DEF Inv
<1>2. QED
  BY <1>1, InvHolds, PTL

\* What a ready run counts can be read (ReadyIsReadable).
THEOREM ReadyAlwaysReadable == Spec => []ReadyIsReadable
<1>1. Inv => ReadyIsReadable
  BY DEF Inv, ReadyIsReadable, ShownSaved, Counted
<1>2. QED
  BY <1>1, InvHolds, PTL

-----------------------------------------------------------------------------
(* A run that shows planning has a task *)

WorkedOn(r) == \E j \in Jobs : job[j].run = r /\ job[j].at \in Unsettled \union {"lost"}

\* A step which shows no run as planning, and takes its task from none that is,
\* leaves each with the task it has.
LEMMA WorkKept ==
    ASSUME NoOrphanSearch,
           \A r \in Runs : run'[r].status = "planning" => run[r].status = "planning",
           \A k \in Jobs :
              \/ job[k].at \notin Unsettled \union {"lost"}
              \/ job'[k].run = job[k].run /\ job'[k].at \in Unsettled \union {"lost"}
              \/ \A r \in Runs : r = job[k].run => run'[r].status # "planning"
    PROVE  NoOrphanSearch'
<1> SUFFICES ASSUME NEW r \in Runs, run'[r].status = "planning" PROVE WorkedOn(r)'
  BY DEF NoOrphanSearch, WorkedOn
<1>1. PICK k \in Jobs : job[k].run = r /\ job[k].at \in Unsettled \union {"lost"}
  BY DEF NoOrphanSearch
<1>2. job'[k].run = r /\ job'[k].at \in Unsettled \union {"lost"}
  BY <1>1
<1>3. QED
  BY <1>2 DEF WorkedOn

LEMMA StepMoves ==
    ASSUME Inv, NEW j \in Jobs, NEW from, NEW to, Step(j, from, to)
    PROVE  /\ job[j].at = from /\ job'[j].at = to /\ job'[j].run = job[j].run
           /\ \A k \in Jobs : k # j => job'[k] = job[k]
  BY DEF Inv, JobType, JobRows, Step

\* set_search_run_status touches the task's own run only.
LEMMA SetRunWrites ==
    ASSUME Inv, NEW j \in Jobs, NEW status, job[j].run \in Runs, SetRun(j, status)
    PROVE  /\ \A r \in Runs : r = job[j].run => run'[r].status = status
           /\ \A r \in Runs : r # job[j].run => run'[r] = run[r]
  BY DEF Inv, RunType, RunRows, SetRun

LEMMA BeginWorks ==
    ASSUME Inv, NoOrphanSearch, NEW j \in Jobs, Begin(j) PROVE NoOrphanSearch'
<1>1. /\ job[j].at = "begin" /\ job'[j].at = "snapshot" /\ job'[j].run = job[j].run
      /\ \A k \in Jobs : k # j => job'[k] = job[k]
  BY StepMoves DEF Begin
<1>2. job[j].run \in Runs
  BY <1>1 DEF Inv, TaskHasRun
<1>3. \A r \in Runs : r # job[j].run => run'[r] = run[r]
  BY <1>2, SetRunWrites DEF Begin
<1>4. SUFFICES ASSUME NEW r \in Runs, run'[r].status = "planning" PROVE WorkedOn(r)'
  BY DEF NoOrphanSearch, WorkedOn
<1>5. CASE r = job[j].run
  BY <1>1, <1>5 DEF WorkedOn, Unsettled
<1>6. CASE r # job[j].run
  <2>1. PICK k \in Jobs : job[k].run = r /\ job[k].at \in Unsettled \union {"lost"}
    BY <1>3, <1>4, <1>6 DEF NoOrphanSearch
  <2>2. job'[k] = job[k]
    BY <1>1, <1>6, <2>1
  <2>3. QED
    BY <2>1, <2>2 DEF WorkedOn
<1>7. QED
  BY <1>5, <1>6

\* The two steps that give a task up show how its run ended.
LEMMA SettleWorks ==
    ASSUME Inv, NoOrphanSearch, NEW j \in Jobs, Conclude(j) \/ FailRun(j) PROVE NoOrphanSearch'
<1>1. job[j].at # "idle" /\ \A k \in Jobs : k # j => job'[k] = job[k]
  BY StepMoves DEF Conclude, FailRun
<1>2. job[j].run \in Runs
  BY <1>1 DEF Inv, TaskHasRun
<1>3. \E status \in Terminal : SetRun(j, status)
  BY DEF Conclude, FailRun, Terminal
<1>4. /\ \A r \in Runs : r = job[j].run => run'[r].status # "planning"
      /\ \A r \in Runs : r # job[j].run => run'[r] = run[r]
  BY <1>2, <1>3, SetRunWrites DEF Terminal
<1>5. \A r \in Runs : run'[r].status = "planning" => run[r].status = "planning"
  BY <1>4
<1>6. QED
  BY <1>1, <1>4, <1>5, WorkKept

LEMMA TaskWorks ==
    ASSUME Inv, NoOrphanSearch, NEW j \in Jobs, TaskSteps(j) PROVE NoOrphanSearch'
<1>1. CASE \/ Snapshot(j) \/ LoopErrs(j) \/ Errs(j) \/ AppendCandidates(j) \/ AppendEvents(j)
           \/ RemoveToken(j)
  <2>1. PICK from \in Storing \union {"loop", "cleanup", "failed_cleanup"}, to \in JobSteps :
           /\ Step(j, from, to)
           /\ from \in Unsettled => to \in Unsettled
    BY <1>1 DEF Snapshot, LoopErrs, Errs, AppendCandidates, AppendEvents, RemoveToken,
       Storing, JobSteps, InSlot, Unsettled
  <2>2. UNCHANGED run
    BY <1>1 DEF Snapshot, LoopErrs, Errs, AppendCandidates, AppendEvents, RemoveToken
  <2>3. from # "lost"
    BY <2>1 DEF Storing
  <2>4. QED
    BY <2>1, <2>2, <2>3, StepMoves, WorkKept
<1>2. CASE Loop(j)
  BY <1>2, WorkKept DEF Loop, managerVars
<1>3. CASE LoopReturns(j)
  <2>1. /\ job'[j].at = "candidates" /\ job'[j].run = job[j].run /\ UNCHANGED run
        /\ \A k \in Jobs : k # j => job'[k] = job[k]
    BY <1>3 DEF LoopReturns, Inv, JobType, JobRows
  <2>2. QED
    BY <2>1, WorkKept DEF Unsettled
<1>4. CASE SetUsage(j)
  <2>1. /\ job[j].at = "usage" /\ job'[j].at = "status" /\ job'[j].run = job[j].run
        /\ \A k \in Jobs : k # j => job'[k] = job[k]
    BY <1>4, StepMoves DEF SetUsage
  <2>2. \A r \in Runs : run'[r].status = run[r].status
    BY <1>4 DEF SetUsage, Inv, RunType, RunRows
  <2>3. QED
    BY <2>1, <2>2, WorkKept DEF Unsettled
<1>5. CASE MarkFinished(j)
  <2>1. /\ job'[j].run = job[j].run /\ UNCHANGED run
        /\ \/ job[j].at = "concluded"
           \/ job[j].at = "failed" /\ job'[j].at = "failed_cleanup"
        /\ \A k \in Jobs : k # j => job'[k] = job[k]
    BY <1>5 DEF MarkFinished, Inv, JobType, JobRows
  <2>2. QED
    BY <2>1, WorkKept DEF Unsettled
<1>6. QED
  BY <1>1, <1>2, <1>3, <1>4, <1>5, BeginWorks, SettleWorks DEF TaskSteps

LEMMA ClientsWork ==
    ASSUME Inv, NoOrphanSearch, NEW r \in Runs,
           \/ RunSearch(r) \/ SearchStart(r) \/ EnqueueNothing(r)
           \/ CancelRun(r) \/ SearchCancel(r) \/ \E j \in Jobs : Enqueue(r, j)
    PROVE  NoOrphanSearch'
<1>1. \A s \in Runs : run'[s].status = "planning" => run[s].status = "planning"
  BY DEF Inv, RunType, RunRows, RunSearch, SearchStart, EnqueueNothing, CancelRun, SearchCancel,
     Enqueue, Spawn, managerVars
<1>2. CASE UNCHANGED job
  BY <1>1, <1>2, WorkKept
<1>3. CASE \E j \in Jobs : Enqueue(r, j)
  <2>1. PICK j \in Jobs : Enqueue(r, j)
    BY <1>3
  <2>2. job[j].at = "idle" /\ \A k \in Jobs : k # j => job'[k] = job[k]
    BY <2>1 DEF Enqueue, FirstIdle, Spawn, Inv, JobType
  <2>3. QED
    BY <1>1, <2>2, WorkKept DEF Unsettled
<1>4. QED
  BY <1>2, <1>3 DEF RunSearch, SearchStart, EnqueueNothing, CancelRun, SearchCancel, managerVars

LEMMA RestartWorks ==
    ASSUME Inv, NoOrphanSearch, Restart PROVE NoOrphanSearch'
<1>1. \A r \in Runs : run'[r].status = run[r].status
  BY DEF Inv, RunType, RunRows, Restart
<1>2. \A k \in Jobs : job[k].at \in Unsettled \union {"lost"} =>
                         job'[k].run = job[k].run /\ job'[k].at = "lost"
  BY DEF Restart, Unsettled
<1>3. QED
  BY <1>1, <1>2, WorkKept

\* Every run that shows planning has a task that will show how it ends, or lost
\* it to a restart (NoOrphanSearch): no error of execute, no failed transaction
\* and no cancellation leaves it behind.
THEOREM NoOrphanSearchHolds == Spec => []NoOrphanSearch
<1>1. InitRuns => NoOrphanSearch
  BY DEF InitRuns, NoOrphanSearch, NoSearchRun
<1>2. Inv /\ NoOrphanSearch /\ [Next]_vars => NoOrphanSearch'
  <2> SUFFICES ASSUME Inv, NoOrphanSearch, [Next]_vars PROVE NoOrphanSearch'
    OBVIOUS
  <2>1. CASE UNCHANGED vars
    BY <2>1, WorkKept DEF vars, managerVars
  <2>2. QED
    BY <2>1, ClientsWork, TaskWorks, RestartWorks DEF Next
<1>3. QED
  BY <1>1, <1>2, InvHolds, PTL DEF Spec

-----------------------------------------------------------------------------
(* A task only ever comes nearer to its end *)

LEMMA StepsAre ==
    /\ StepsLeft.begin = 12 /\ StepsLeft.snapshot = 11 /\ StepsLeft.loop = 10
    /\ StepsLeft.candidates = 9 /\ StepsLeft.events = 8 /\ StepsLeft.usage = 7
    /\ StepsLeft.status = 6 /\ StepsLeft.concluded = 5 /\ StepsLeft.failed = 4
    /\ StepsLeft.failed_cleanup = 3 /\ StepsLeft.fail_run = 2 /\ StepsLeft.cleanup = 1
  BY DEF StepsLeft

LEMMA PlacesAre ==
    /\ LoopLeft.reflecting = BatchCalls + ReAsks + 5 /\ LoopLeft.top = BatchCalls + ReAsks + 4
    /\ LoopLeft.planning = BatchCalls + 3 /\ LoopLeft.searching = 2
    /\ LoopLeft.assessing = 1 /\ LoopLeft.stopped = 0 /\ LoopLeft.broken = 0
  BY DEF LoopLeft

\* What is left of the loop: of the rounds to come, and of a round.
Rounds(i) == RoundSteps * (MaxIterations - i)
Place(l) == LoopLeft[l.at] + l.left

LEMMA RoundsFall ==
    ASSUME NEW i \in 0 .. MaxIterations
    PROVE  Rounds(i) \in Nat /\ (i < MaxIterations => Rounds(i) = Rounds(i + 1) + RoundSteps)
<1> DEFINE k == MaxIterations - i
<1>1. k \in Nat /\ RoundSteps \in Nat
  BY DEF RoundSteps
<1>2. Rounds(i) = RoundSteps * k /\ Rounds(i) \in Nat
  BY <1>1 DEF Rounds
<1>3. CASE i < MaxIterations
  <2>1. MaxIterations - (i + 1) = k - 1 /\ k - 1 \in Nat
    BY <1>3
  <2>2. ASSUME NEW a \in Nat, NEW b \in Nat PROVE a * (b + 1) = a * b + a
    OBVIOUS
  <2>3. RoundSteps * ((k - 1) + 1) = RoundSteps * (k - 1) + RoundSteps
    BY <1>1, <2>1, <2>2
  <2>4. (k - 1) + 1 = k /\ Rounds(i + 1) = RoundSteps * (k - 1)
    BY <1>1, <2>1 DEF Rounds
  <2> HIDE DEF k
  <2>5. QED
    BY <1>2, <2>3, <2>4
<1>4. QED
  BY <1>2, <1>3

OnlyMoves(j) == \A k \in Jobs : k # j => job'[k] = job[k] /\ loop'[k] = loop[k]

\* A step of the loop within its round.
Turns(j) ==
    /\ loop'[j].at # "off"
    /\ loop'[j].iteration = loop[j].iteration
    /\ Place(loop'[j]) < Place(loop[j])

LEMMA PlaceType ==
    ASSUME NEW l \in Loops, l.at # "off" PROVE Place(l) \in Nat /\ LoopLeft[l.at] \in Nat
<1>1. l.left \in Nat
  BY DEF Loops
<1>2. LoopLeft[l.at] \in Nat
  BY PlacesAre DEF Loops
<1>3. QED
  BY <1>1, <1>2 DEF Place

LEMMA TopTurns ==
    ASSUME Inv, NEW j \in Jobs, RoundsUsed(j) \/ SeesCancel(j) \/ StopsBefore(j) \/ AsksForPlan(j)
    PROVE  Turns(j)
<1>1. loop[j] \in Loops /\ loop[j].left \in Nat /\ loop[j].at = "top"
  BY DEF Inv, LoopType, Loops, RoundsUsed, SeesCancel, StopsBefore, AsksForPlan, Begins
<1>2. CASE AsksForPlan(j)
  <2>1. loop'[j] = [loop[j] EXCEPT !.at = "planning", !.left = ReAsks, !.late = Late(j)]
    BY <1>2 DEF Inv, LoopType, AsksForPlan, Move
  <2>2. loop'[j].at = "planning" /\ loop'[j].left = ReAsks /\ loop'[j].iteration = loop[j].iteration
    BY <1>1, <2>1 DEF Loops
  <2>3. QED
    BY <1>1, <2>2, PlacesAre DEF Turns, Place
<1>3. CASE ~AsksForPlan(j)
  <2>1. PICK reason : StopLoop(j, reason)
    BY <1>3 DEF RoundsUsed, SeesCancel, StopsBefore
  <2>2. loop'[j] = [loop[j] EXCEPT !.at = "stopped", !.stop = reason]
    BY <2>1 DEF Inv, LoopType, StopLoop, Move
  <2>3. loop'[j].at = "stopped" /\ loop'[j].left = loop[j].left /\ loop'[j].iteration = loop[j].iteration
    BY <1>1, <2>2 DEF Loops
  <2>4. QED
    BY <1>1, <2>3, PlacesAre DEF Turns, Place
<1>4. QED
  BY <1>2, <1>3

LEMMA CallsOnTurns ==
    ASSUME Inv, NEW j \in Jobs, AsksAgain(j) \/ Browses(j)
    PROVE  Turns(j)
<1>1. loop[j] \in Loops /\ loop[j].left \in Nat /\ loop[j].at # "off"
  BY DEF Inv, LoopType, Loops, AsksAgain, Browses
<1>2. loop'[j] = [loop[j] EXCEPT !.left = @ - 1, !.late = Late(j)]
  BY DEF Inv, LoopType, AsksAgain, Browses, Move
<1>3. loop'[j].at = loop[j].at /\ loop'[j].left = loop[j].left - 1
      /\ loop'[j].iteration = loop[j].iteration
  BY <1>1, <1>2 DEF Loops
<1>4. LoopLeft[loop[j].at] \in Nat
  BY <1>1, PlaceType
<1>5. QED
  BY <1>1, <1>3, <1>4 DEF Turns, Place

LEMMA SearchTurns ==
    ASSUME Inv, NEW j \in Jobs, Planned(j) \/ NextRound(j)
    PROVE  Turns(j)
<1>1. PICK n, calls : Issue(j, n, calls)
  BY DEF Planned, NextRound
<1>2. loop[j] \in Loops /\ loop[j].left \in Nat /\ (loop[j].at = "top" \/ loop[j].at = "planning")
  BY DEF Inv, LoopType, Loops, Planned, NextRound, Begins
<1>3. PICK left \in {0, BatchCalls} :
        /\ loop'[j].at = "searching" /\ loop'[j].left = left
        /\ loop'[j].iteration = loop[j].iteration
  BY <1>1, <1>2 DEF Inv, LoopType, Loops, Issue, Move
<1>4. QED
  BY <1>2, <1>3, PlacesAre DEF Turns, Place

LEMMA FoundTurns ==
    ASSUME Inv, NEW j \in Jobs, Exhausted(j) \/ Found(j)
    PROVE  Turns(j)
<1>1. loop[j] \in Loops /\ loop[j].left \in Nat /\ loop[j].at = "searching"
  BY DEF Inv, LoopType, Loops, Exhausted, Found
<1>2. CASE Exhausted(j)
  <2>1. loop'[j] = [loop[j] EXCEPT !.at = "broken", !.left = 0]
    BY <1>2 DEF Inv, LoopType, Exhausted, Move
  <2>2. loop'[j].at = "broken" /\ loop'[j].left = 0 /\ loop'[j].iteration = loop[j].iteration
    BY <1>1, <2>1 DEF Loops
  <2>3. QED
    BY <1>1, <2>2, PlacesAre DEF Turns, Place
<1>3. CASE Found(j)
  <2>1. PICK found : Move(j, [loop[j] EXCEPT
                        !.pool = @ \union found, !.issued = 0, !.left = 0,
                        !.at = IF tripped[j] THEN "stopped" ELSE "assessing",
                        !.stop = IF tripped[j] THEN "cancelled" ELSE @])
    BY <1>3 DEF Found
  <2>2. loop'[j] = [loop[j] EXCEPT
                        !.pool = @ \union found, !.issued = 0, !.left = 0,
                        !.at = IF tripped[j] THEN "stopped" ELSE "assessing",
                        !.stop = IF tripped[j] THEN "cancelled" ELSE @]
    BY <2>1 DEF Inv, LoopType, Move
  <2>3. /\ loop'[j].at = "stopped" \/ loop'[j].at = "assessing"
        /\ loop'[j].left = 0 /\ loop'[j].iteration = loop[j].iteration
    BY <1>1, <2>2 DEF Loops
  <2>4. QED
    BY <1>1, <2>3, PlacesAre DEF Turns, Place
<1>4. QED
  BY <1>2, <1>3

LEMMA ReflectedTurns ==
    ASSUME Inv, NEW j \in Jobs, Reflected(j)
    PROVE  Turns(j)
<1>1. loop[j].at = "reflecting" /\ loop[j] \in Loops /\ loop[j].left \in Nat
  BY DEF Reflected, Inv, LoopType, Loops
<1> DEFINE answered == [loop[j] EXCEPT !.calls = @ + 1, !.left = 0]
<1>2. PICK l \in {[answered EXCEPT !.at = "stopped", !.stop = "target_reached"],
                  [answered EXCEPT !.at = "stopped", !.stop = "converged"],
                  [answered EXCEPT !.at = "top"]} : Move(j, l)
  BY DEF Reflected
<1>3. loop'[j] = l
  BY <1>2 DEF Inv, LoopType, Move
<1>4. (l.at = "stopped" \/ l.at = "top") /\ l.left = 0 /\ l.iteration = loop[j].iteration
  BY <1>1, <1>2 DEF Loops
<1>5. QED
  BY <1>1, <1>3, <1>4, PlacesAre DEF Turns, Place

LEMMA BreaksTurns ==
    ASSUME Inv, NEW j \in Jobs, Breaks(j)
    PROVE  Turns(j)
<1>1. /\ loop[j] \in Loops /\ loop[j].left \in Nat
      /\ loop[j].at = "planning" \/ loop[j].at = "reflecting"
  BY DEF Breaks, Inv, LoopType, Loops
<1>2. loop'[j] = [loop[j] EXCEPT !.at = "broken", !.left = 0]
  BY DEF Inv, LoopType, Breaks, Move
<1>3. loop'[j].at = "broken" /\ loop'[j].left = 0 /\ loop'[j].iteration = loop[j].iteration
  BY <1>1, <1>2 DEF Loops
<1>4. QED
  BY <1>1, <1>3, PlacesAre DEF Turns, Place

\* A round that was counted is paid for: what comes after is less.
LEMMA SummarizedFalls ==
    ASSUME Inv, NEW j \in Jobs, Summarized(j), loop[j].iteration < MaxIterations
    PROVE  /\ loop'[j].at # "off"
           /\ loop'[j].iteration = loop[j].iteration + 1
           /\ Rounds(loop'[j].iteration) + Place(loop'[j]) < Rounds(loop[j].iteration) + Place(loop[j])
<1>1. loop[j] \in Loops /\ loop[j].left \in Nat /\ loop[j].at = "assessing"
      /\ loop[j].iteration \in 0 .. MaxIterations
  BY DEF Inv, LoopType, Loops, Summarized
<1>2. loop'[j] = [loop[j] EXCEPT !.at = "reflecting", !.iteration = @ + 1, !.left = ReAsks,
                                 !.late = Late(j)]
  BY DEF Inv, LoopType, Summarized, Move
<1>3. loop'[j].at = "reflecting" /\ loop'[j].left = ReAsks /\ loop'[j].iteration = loop[j].iteration + 1
  BY <1>1, <1>2 DEF Loops
<1>4. Place(loop'[j]) = RoundSteps /\ Place(loop[j]) = loop[j].left + 1
  BY <1>1, <1>3, PlacesAre DEF Place, RoundSteps
<1>5. /\ Rounds(loop[j].iteration) = Rounds(loop[j].iteration + 1) + RoundSteps
      /\ Rounds(loop[j].iteration) \in Nat /\ Rounds(loop[j].iteration + 1) \in Nat
      /\ RoundSteps \in Nat
  BY <1>1, RoundsFall DEF RoundSteps
<1>6. QED
  BY <1>1, <1>3, <1>4, <1>5

\* Within a round the loop goes one way, and a round that begins anew has been
\* counted.
LEMMA LoopAdvances ==
    ASSUME Inv, NEW j \in Jobs, Loop(j)
    PROVE  OnlyMoves(j) /\ Rank(j)' < Rank(j)
<1>1. /\ loop[j] \in Loops /\ loop \in [Jobs -> Loops] /\ job[j].at = "loop" /\ UNCHANGED job
      /\ loop[j].iteration \in 0 .. MaxIterations /\ Spent(loop[j])
  BY DEF Inv, LoopType, LoopsKept, Loops, Loop, managerVars
<1>2. Steps(j)
  BY RoundsUsedSteps, SeesCancelSteps, StopsBeforeSteps, AsksForPlanSteps, CallsOnSteps,
     PlannedSteps, NextRoundSteps, ExhaustedSteps, FoundSteps, SummarizedSteps, ReflectedSteps,
     BreaksSteps DEF Loop, LoopSteps
<1>3. loop'[j] \in Loops /\ \A k \in Jobs : k # j => loop'[k] = loop[k]
  BY <1>1, <1>2 DEF Steps
<1>4. loop[j].at # "off"
  BY <1>1 DEF Loop, LoopSteps, RoundsUsed, SeesCancel, StopsBefore, AsksForPlan, AsksAgain,
     Planned, NextRound, Begins, Browses, Exhausted, Found, Summarized, Reflected, Breaks
<1>5. Turns(j) \/ (Summarized(j) /\ loop[j].iteration < MaxIterations)
  <2>1. CASE Summarized(j)
    BY <1>1, <2>1 DEF Summarized, Spent
  <2>2. CASE ~Summarized(j)
    BY <2>2, TopTurns, CallsOnTurns, SearchTurns, FoundTurns, ReflectedTurns, BreaksTurns
       DEF Loop, LoopSteps
  <2>3. QED
    BY <2>1, <2>2
<1>6. /\ loop'[j].at # "off"
      /\ Rounds(loop'[j].iteration) + Place(loop'[j]) < Rounds(loop[j].iteration) + Place(loop[j])
  <2>1. CASE Turns(j)
    <3>1. loop'[j].at # "off" /\ loop'[j].iteration = loop[j].iteration
          /\ Place(loop'[j]) < Place(loop[j])
      BY <2>1 DEF Turns
    <3>2. /\ Place(loop[j]) \in Nat /\ Place(loop'[j]) \in Nat
          /\ Rounds(loop[j].iteration) \in Nat
      BY <1>1, <1>3, <1>4, <3>1, PlaceType, RoundsFall
    <3>3. QED
      BY <3>1, <3>2
  <2>2. CASE Summarized(j) /\ loop[j].iteration < MaxIterations
    BY <2>2, SummarizedFalls
  <2>3. QED
    BY <1>5, <2>1, <2>2
<1>7. /\ Place(loop[j]) \in Nat /\ Place(loop'[j]) \in Nat
      /\ Rounds(loop[j].iteration) \in Nat /\ Rounds(loop'[j].iteration) \in Nat
  BY <1>1, <1>3, <1>4, <1>6, PlaceType, RoundsFall DEF Loops
<1>8. Rank(j) = 10 + (Rounds(loop[j].iteration) + Place(loop[j]))
  <2>1. loop[j].left \in Nat /\ LoopLeft[loop[j].at] \in Nat
    BY <1>1, <1>4, PlaceType DEF Loops
  <2>2. QED
    BY <1>1, <1>7, <2>1, StepsAre DEF Rank, Rounds, Place
<1>9. Rank(j)' = 10 + (Rounds(loop'[j].iteration) + Place(loop'[j]))
  <2>1. loop'[j].left \in Nat /\ LoopLeft[loop'[j].at] \in Nat
    BY <1>3, <1>6, PlaceType DEF Loops
  <2>2. QED
    BY <1>1, <1>7, <2>1, StepsAre DEF Rank, Rounds, Place
<1>10. QED
  BY <1>1, <1>3, <1>6, <1>7, <1>8, <1>9 DEF OnlyMoves

Later == {"candidates", "events", "usage", "status", "concluded", "failed", "failed_cleanup",
          "fail_run", "cleanup"}

LEMMA StepFalls ==
    ASSUME Inv, NEW j \in Jobs, NEW from \in Later, NEW to, Step(j, from, to), UNCHANGED loop,
           to = "over" \/ (to \in Later /\ StepsLeft[to] < StepsLeft[from])
    PROVE  OnlyMoves(j) /\ Rank(j)' < Rank(j)
<1>1. /\ job[j].at = from /\ job'[j].at = to
      /\ \A k \in Jobs : k # j => job'[k] = job[k]
  BY StepMoves
<1>2. \A at \in Later : StepsLeft[at] \in Nat /\ StepsLeft[at] > 0
  BY StepsAre DEF Later
<1>3. Rank(j) = StepsLeft[from]
  BY <1>1, <1>2 DEF Rank, Later
<1>4. Rank(j)' = IF to = "over" THEN 0 ELSE StepsLeft[to]
  BY <1>1, <1>2 DEF Rank, Later
<1>5. QED
  BY <1>1, <1>2, <1>3, <1>4 DEF OnlyMoves

LEMMA TaskAdvances ==
    ASSUME Inv, NEW j \in Jobs, TaskSteps(j)
    PROVE  OnlyMoves(j) /\ Rank(j)' < Rank(j)
<1> USE StepsAre
<1>1. loop \in [Jobs -> Loops] /\ job \in [Jobs -> JobRows] /\ MaxIterations \in Nat
  BY DEF Inv, LoopType, JobType
<1> DEFINE ahead == RoundSteps * MaxIterations + LoopLeft["top"] + 1
<1>t. /\ Rounds(0) \in Nat /\ LoopLeft["top"] \in Nat
      /\ ahead = Rounds(0) + LoopLeft["top"] + 1
  BY <1>1, RoundsFall, PlacesAre DEF Rounds
<1> HIDE DEF ahead
<1>2. CASE Begin(j)
  <2>1. /\ job[j].at = "begin" /\ job'[j].at = "snapshot" /\ UNCHANGED loop
        /\ \A k \in Jobs : k # j => job'[k] = job[k]
    BY <1>2, StepMoves DEF Begin, agentVars
  <2>2. Rank(j) = 12 + ahead /\ Rank(j)' = 11 + ahead
    BY <2>1 DEF Rank, ahead
  <2>3. QED
    BY <1>t, <2>1, <2>2 DEF OnlyMoves
<1>3. CASE Snapshot(j)
  <2>1. /\ job[j].at = "snapshot" /\ job'[j].at = "loop"
        /\ \A k \in Jobs : k # j => job'[k] = job[k]
    BY <1>3, StepMoves DEF Snapshot
  <2>2. /\ loop'[j].at = "top" /\ loop'[j].iteration = 0 /\ loop'[j].left = 0
        /\ \A k \in Jobs : k # j => loop'[k] = loop[k]
    BY <1>1, <1>3 DEF Snapshot, NewLoop
  <2>3. Rank(j) = 11 + ahead
    BY <2>1 DEF Rank, ahead
  <2>4. Rank(j)' = 10 + (Rounds(0) + LoopLeft["top"] + 0)
    BY <1>t, <2>1, <2>2 DEF Rank, Rounds
  <2>5. QED
    BY <1>t, <2>1, <2>2, <2>3, <2>4 DEF OnlyMoves
<1>4. CASE LoopReturns(j) \/ LoopErrs(j)
  <2>1. /\ job[j].at = "loop" /\ job'[j].at \in {"candidates", "failed"}
        /\ loop[j].at \in {"stopped", "broken"}
        /\ \A k \in Jobs : k # j => job'[k] = job[k]
    BY <1>1, <1>4, StepMoves DEF LoopReturns, LoopErrs, JobRows
  <2>2. \A k \in Jobs : k # j => loop'[k] = loop[k]
    BY <1>1, <1>4 DEF LoopReturns, LoopErrs, Move
  <2>3. /\ Rounds(loop[j].iteration) \in Nat /\ LoopLeft[loop[j].at] \in Nat
        /\ loop[j].left \in Nat
    BY <1>1, <2>1, RoundsFall, PlacesAre DEF Loops
  <2>4. Rank(j) = 10 + (Rounds(loop[j].iteration) + LoopLeft[loop[j].at] + loop[j].left)
    BY <2>1, <2>3 DEF Rank, Rounds
  <2>5. Rank(j)' \in 0 .. 9
    BY <2>1 DEF Rank
  <2>6. QED
    BY <2>1, <2>2, <2>3, <2>4, <2>5 DEF OnlyMoves
<1>5. CASE Errs(j)
  <2>1. PICK at \in Storing : Step(j, at, "failed")
    BY <1>5 DEF Errs
  <2>2. UNCHANGED loop
    BY <1>5 DEF Errs, agentVars
  <2>3. CASE at \in {"begin", "snapshot"}
    <3>1. /\ job[j].at \in {"begin", "snapshot"} /\ job'[j].at = "failed"
          /\ \A k \in Jobs : k # j => job'[k] = job[k]
      BY <2>1, <2>3, StepMoves
    <3>2. Rank(j) = StepsLeft[job[j].at] + ahead
      BY <3>1 DEF Rank, ahead
    <3>3. Rank(j)' = 4
      BY <3>1 DEF Rank
    <3>4. QED
      BY <1>t, <2>2, <3>1, <3>2, <3>3 DEF OnlyMoves
  <2>4. CASE at \notin {"begin", "snapshot"}
    <3>1. at \in Later /\ StepsLeft.failed < StepsLeft[at]
      BY <2>4 DEF Storing, Later
    <3>2. QED
      BY <2>1, <2>2, <3>1, StepFalls DEF Later
  <2>5. QED
    BY <2>3, <2>4
<1>6. CASE \/ AppendCandidates(j) \/ AppendEvents(j) \/ SetUsage(j) \/ Conclude(j)
           \/ RemoveToken(j) \/ FailRun(j)
  <2>1. UNCHANGED loop
    BY <1>6 DEF AppendCandidates, AppendEvents, SetUsage, Conclude, RemoveToken, FailRun, agentVars
  <2>2. \/ Step(j, "candidates", "events") \/ Step(j, "events", "usage")
        \/ Step(j, "usage", "status") \/ Step(j, "status", "concluded")
        \/ Step(j, "cleanup", "over") \/ Step(j, "failed_cleanup", "fail_run")
        \/ Step(j, "fail_run", "over")
    BY <1>6 DEF AppendCandidates, AppendEvents, SetUsage, Conclude, RemoveToken, FailRun
  <2>3. QED
    BY <2>1, <2>2, StepFalls DEF Later
<1>7. CASE MarkFinished(j)
  <2>1. /\ \/ job[j].at = "concluded" /\ job'[j].at = "cleanup"
           \/ job[j].at = "failed" /\ job'[j].at = "failed_cleanup"
        /\ \A k \in Jobs : k # j => job'[k] = job[k] /\ loop'[k] = loop[k]
    BY <1>1, <1>7 DEF MarkFinished, JobRows
  <2>2. QED
    BY <2>1 DEF OnlyMoves, Rank
<1>8. QED
  BY <1>2, <1>3, <1>4, <1>5, <1>6, <1>7, LoopAdvances DEF TaskSteps

\* Every step of a task and of its loop lowers what it may still take
\* (SearchesAdvance): no plan, answer, cancellation or error makes a search go on
\* for ever.
THEOREM SearchesAdvanceHolds == Spec => SearchesAdvance
<1> DEFINE Advance ==
        \A j \in Jobs :
           job'[j] # job[j] \/ loop'[j] # loop[j] =>
              job[j].at = "idle" \/ restarts' # restarts \/ Rank(j)' < Rank(j)
<1>1. Inv /\ [Next]_vars => [Advance]_vars
  <2> SUFFICES ASSUME Inv, Next PROVE Advance
    OBVIOUS
  <2>1. CASE \E j \in Jobs : TaskSteps(j)
    BY <2>1, TaskAdvances DEF OnlyMoves
  <2>2. CASE \E r \in Runs, j \in Jobs : Enqueue(r, j)
    <3>1. PICK r \in Runs, j \in Jobs : Enqueue(r, j)
      BY <2>2
    <3>2. job[j].at = "idle" /\ UNCHANGED loop /\ \A k \in Jobs : k # j => job'[k] = job[k]
      BY <3>1 DEF Enqueue, FirstIdle, Spawn, Inv, JobType
    <3>3. QED
      BY <3>2
  <2>3. CASE \E r \in Runs : \/ RunSearch(r) \/ SearchStart(r) \/ EnqueueNothing(r)
                             \/ CancelRun(r) \/ SearchCancel(r)
    <3>1. UNCHANGED <<job, loop>>
      BY <2>3 DEF RunSearch, SearchStart, EnqueueNothing, CancelRun, SearchCancel, managerVars,
         agentVars
    <3>2. QED
      BY <3>1
  <2>4. CASE Restart
    <3>1. restarts' # restarts
      BY <2>4 DEF Restart, Inv, RestartsType
    <3>2. QED
      BY <3>1
  <2>5. QED
    BY <2>1, <2>2, <2>3, <2>4 DEF Next
<1>2. QED
  BY <1>1, InvHolds, PTL DEF Spec, SearchesAdvance

=============================================================================
