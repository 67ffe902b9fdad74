---------------------------- MODULE SearchAgent ----------------------------
(***************************************************************************)
(* The bounded loop of one deep search (services/research/agent.rs with    *)
(* budget.rs): plan, search the web in one batch per round, assess, and    *)
(* either stop or go round again with the queries the assessment asked     *)
(* for.  A job is one execution of the loop; the manager (SearchRuns)      *)
(* starts jobs and stores what they found.                                 *)
(*                                                                         *)
(* Papers stand for deduplication keys, so a pool is a set.  The source is *)
(* the production one, whose transport is "web": a round's queries are     *)
(* charged and issued together.  A remote call is one request to the model *)
(* or one page or record asked for by a query; the loop looks at its token *)
(* before a round and after the queries of a round, and nowhere else.      *)
(***************************************************************************)
EXTENDS Naturals, FiniteSets

CONSTANTS
    Jobs,                \* executions of the loop
    Papers,              \* candidates the web can return
    MaxIterations,       \* the strategy's rails (domain/research.rs Depth::budget)
    MaxProviderQueries,
    MaxLlmCalls,
    BaseQueries,         \* BASE_QUERIES_PER_ROUND
    ReAsks,              \* requests an answer may need after the first: 3, as complete_json
                         \* asks once more for JSON, and send once more for a text
    BatchCalls,          \* the most remote calls the queries of a round make
    TargetCount          \* constraints.target_count

\* Every preset of Depth::budget allows the plan and the assessment of a round.
ASSUME SearchAgentAssumption ==
    /\ IsFiniteSet(Papers)
    /\ MaxIterations \in Nat \ {0}
    /\ MaxProviderQueries \in Nat \ {0}
    /\ MaxLlmCalls \in Nat \ {0, 1}
    /\ BaseQueries \in Nat \ {0}
    /\ ReAsks \in Nat
    /\ BatchCalls \in Nat \ {0}
    /\ TargetCount \in Nat

VARIABLES
    loop,      \* the loop's local state, by job
    tripped    \* the cancellation token of each job

agentVars == <<loop, tripped>>

Stops == {"max_iterations", "cancelled", "target_reached",
          "max_provider_queries", "max_llm_calls", "converged"}

Loops ==
    [at : {"off", "top", "planning", "searching", "assessing", "reflecting",
           "stopped", "broken"},
     iteration : 0 .. MaxIterations,
     queries : Nat,
     calls : Nat,
     issued : Nat,
     left : Nat,    \* remote calls that the step under way may still begin
     pool : SUBSET Papers,
     known : SUBSET Papers,
     stop : Stops,
     late : Nat]    \* history: remote calls begun after the token was tripped

NewLoop(known) ==
    [at |-> "top", iteration |-> 0, queries |-> 0, calls |-> 0, issued |-> 0, left |-> 0,
     pool |-> {}, known |-> known, stop |-> "max_iterations", late |-> 0]

NoLoop == [NewLoop({}) EXCEPT !.at = "off"]

\* The queries a round may issue: halved, rounding up, at each round.
Allowance[round \in 0 .. MaxIterations] ==
    IF round = 0 THEN BaseQueries ELSE (Allowance[round - 1] + 1) \div 2

\* Candidates the search did not have before this run.
NewCount(l) == Cardinality(l.pool \ l.known)

TargetReached(l) == TargetCount > 0 /\ NewCount(l) >= TargetCount

\* The reason not to begin another round, if there is one: the first that holds.
StopBefore(l) ==
    IF TargetReached(l) THEN {"target_reached"}
    ELSE IF l.queries >= MaxProviderQueries THEN {"max_provider_queries"}
    ELSE IF l.calls >= MaxLlmCalls THEN {"max_llm_calls"}
    ELSE {}

\* A remote call that begins now, with the token as it is.
Late(j) == IF tripped[j] THEN loop[j].late + 1 ELSE loop[j].late

Move(j, l) == loop' = [loop EXCEPT ![j] = l]

StopLoop(j, reason) ==
    Move(j, [loop[j] EXCEPT !.at = "stopped", !.stop = reason])

IssueUncut(j, n, calls) ==
    Move(j, [loop[j] EXCEPT
        !.at = "searching", !.calls = calls, !.issued = n, !.queries = @ + n,
        !.left = IF n > 0 THEN BatchCalls ELSE 0])

\* Charge a batch of n queries, cut to what is left of the budget, and send it.
Issue(j, n, calls) ==
    LET left == MaxProviderQueries - loop[j].queries
        batch == IF n < left THEN n ELSE left
    IN Move(j, [loop[j] EXCEPT
            !.at = "searching", !.calls = calls, !.issued = batch,
            !.queries = @ + batch,
            !.left = IF batch > 0 THEN BatchCalls ELSE 0])

\* The rounds are used up.
RoundsUsed(j) ==
    /\ loop[j].at = "top" /\ loop[j].iteration = MaxIterations
    /\ StopLoop(j, "max_iterations")

SeesCancel(j) ==
    /\ loop[j].at = "top" /\ loop[j].iteration < MaxIterations
    /\ tripped[j]
    /\ StopLoop(j, "cancelled")

StopsBefore(j) ==
    /\ loop[j].at = "top" /\ loop[j].iteration < MaxIterations
    /\ ~tripped[j]
    /\ \E reason \in StopBefore(loop[j]) : StopLoop(j, reason)

Begins(j) ==
    /\ loop[j].at = "top" /\ loop[j].iteration < MaxIterations
    /\ ~tripped[j]
    /\ StopBefore(loop[j]) = {}

AsksForPlan(j) ==
    /\ Begins(j) /\ loop[j].iteration = 0
    /\ Move(j, [loop[j] EXCEPT !.at = "planning", !.left = ReAsks, !.late = Late(j)])

\* No text, or no JSON: the planner asks again, whatever the token says.
AsksAgain(j) ==
    /\ loop[j].at \in {"planning", "reflecting"} /\ loop[j].left > 0
    /\ Move(j, [loop[j] EXCEPT !.left = @ - 1, !.late = Late(j)])

\* A query opens another page of an engine, or asks for the metadata of what it
\* found; the queries of a round run side by side.
Browses(j) ==
    /\ loop[j].at = "searching" /\ loop[j].left > 0
    /\ Move(j, [loop[j] EXCEPT !.left = @ - 1, !.late = Late(j)])

\* The plan arrives and its queries go out: the token is not looked at here.
Planned(j) ==
    /\ loop[j].at = "planning"
    /\ \E n \in 0 .. Allowance[0] : Issue(j, n, loop[j].calls + 1)

\* A later round sends what the last assessment asked for.
NextRound(j) ==
    /\ Begins(j) /\ loop[j].iteration > 0
    /\ \E n \in 0 .. Allowance[loop[j].iteration] : Issue(j, n, loop[j].calls)

\* Every query of the round failed and nothing was found before either.
Exhausted(j) ==
    /\ loop[j].at = "searching"
    /\ loop[j].issued > 0 /\ loop[j].pool = {}
    /\ Move(j, [loop[j] EXCEPT !.at = "broken", !.left = 0])

\* Mutant: the token is not looked at once a batch is back.
FoundUnwatched(j) ==
    /\ loop[j].at = "searching"
    /\ \E found \in SUBSET Papers :
        Move(j, [loop[j] EXCEPT
            !.pool = @ \union found, !.issued = 0, !.left = 0, !.at = "assessing"])

\* The batch is back, with as many calls as it took; what it found joins the pool,
\* and the token is looked at.
Found(j) ==
    /\ loop[j].at = "searching"
    /\ \E found \in SUBSET (IF loop[j].issued > 0 THEN Papers ELSE {}) :
        Move(j, [loop[j] EXCEPT
            !.pool = @ \union found, !.issued = 0, !.left = 0,
            !.at = IF tripped[j] THEN "stopped" ELSE "assessing",
            !.stop = IF tripped[j] THEN "cancelled" ELSE @])

\* Mutant: a round is not counted once it has a pool.
SummarizedUncounted(j) ==
    /\ loop[j].at = "assessing"
    /\ Move(j, [loop[j] EXCEPT !.at = "reflecting", !.iteration = IF @ = 0 THEN 1 ELSE @,
                               !.left = ReAsks, !.late = Late(j)])

\* The pool is summarised, with the local embedder, and sent for assessment.
Summarized(j) ==
    /\ loop[j].at = "assessing"
    /\ Move(j, [loop[j] EXCEPT !.at = "reflecting", !.iteration = @ + 1,
                               !.left = ReAsks, !.late = Late(j)])

Reflected(j) ==
    /\ loop[j].at = "reflecting"
    /\ LET l == [loop[j] EXCEPT !.calls = @ + 1, !.left = 0]
       IN \/ /\ TargetReached(l)
             /\ Move(j, [l EXCEPT !.at = "stopped", !.stop = "target_reached"])
          \/ /\ ~TargetReached(l)
             /\ Move(j, [l EXCEPT !.at = "stopped", !.stop = "converged"])
          \/ /\ ~TargetReached(l)
             /\ Move(j, [l EXCEPT !.at = "top"])

\* A model call, or anything else the loop propagates, fails.
Breaks(j) ==
    /\ loop[j].at \in {"planning", "reflecting"}
    /\ Move(j, [loop[j] EXCEPT !.at = "broken", !.left = 0])

\* What the loop returns: the new candidates above the semantic floor, cut to
\* the target.
Ranked(l) ==
    {r \in SUBSET (l.pool \ l.known) : Cardinality(r) <= TargetCount}

\* No execution spends more than its strategy allows, however many rounds it
\* makes: the batch is cut to what is left, and the ceilings are looked at
\* before a round, never within one (agent.rs:145-160, 186-196).
BudgetKept ==
    \A j \in Jobs :
        /\ loop[j].queries <= MaxProviderQueries
        /\ loop[j].calls <= MaxLlmCalls
        /\ loop[j].iteration <= MaxIterations

\* Cancellation lets through what is under way and nothing after it: what is left
\* to one answer of the model and the queries that answer sends, or the assessment
\* of a round that had just passed its check; never another round
\* (agent.rs:145-148, 246-249). Between the calls of a round the code has no check.
LateCallsBounded == \A j \in Jobs : loop[j].late <= ReAsks + BatchCalls
=============================================================================
