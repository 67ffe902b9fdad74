---------------------------- MODULE Acquisition ----------------------------
(***************************************************************************)
(* Source acquisition: the ways a document is fetched, and the Obscura     *)
(* browser sidecar they share (source_acquisition/service.rs,              *)
(* obscura/manager.rs).                                                    *)
(*                                                                         *)
(* Callers of ensure_ready are tokio tasks.  A caller that finds no live   *)
(* process takes the startup lock, looks again, spawns a child and waits   *)
(* for its endpoint.  Its future may be dropped at any of its awaits: the  *)
(* overall deadline of an acquisition, or an abort.  The status the manager *)
(* publishes for the user is left out.                                     *)
(***************************************************************************)
EXTENDS Naturals, FiniteSets

CONSTANTS
    Callers,    \* tasks that may need the browser
    Locations,  \* PDF locations
    MaxExits,   \* times the sidecar exits by itself
    Nobody

ASSUME AcquisitionAssumption == Nobody \notin Callers /\ MaxExits \in Nat

VARIABLES
    process,    \* ObscuraManager.state: the process that was registered
    startup,    \* holder of ObscuraManager.startup
    asking,     \* where each caller is in ensure_ready
    exits,      \* times the sidecar has exited
    negative    \* SourceAcquisitionService.negative_cache

acqVars == <<process, startup, asking, exits, negative>>

Asking == {"no", "ensure", "lock", "health", "ready", "failed"}

AcqTypeOK ==
    /\ process \in {"none", "up", "exited"}
    /\ startup \in Callers \cup {Nobody}
    /\ asking \in [Callers -> Asking]
    /\ exits \in 0 .. MaxExits
    /\ negative \in SUBSET Locations

AcqInit ==
    /\ process = "none"
    /\ startup = Nobody
    /\ asking = [c \in Callers |-> "no"]
    /\ exits = 0
    /\ negative = {}

-----------------------------------------------------------------------------
Moves(c, from, to) == asking[c] = from /\ asking' = [asking EXCEPT ![c] = to]

\* ensure_ready is called; the caller will look at what ready or failed says.
Ask(c) == Moves(c, "no", "ensure") /\ UNCHANGED <<process, startup, exits, negative>>

\* ready_endpoint: a live process is announced, a dead one is forgotten.
ReadyEndpoint(live, gone) ==
    \/ process = "up" /\ live /\ UNCHANGED process
    \/ process # "up" /\ process' = "none" /\ gone

\* The first look, without the startup lock.
Ensure(c) ==
    /\ ReadyEndpoint(Moves(c, "ensure", "ready"), Moves(c, "ensure", "lock"))
    /\ UNCHANGED <<startup, exits, negative>>

\* Mutant: the process is not looked for again once the lock is held.
TakeStartupBlind(c) ==
    /\ startup = Nobody
    /\ \/ Moves(c, "lock", "health") /\ startup' = c
       \/ Moves(c, "lock", "failed") /\ UNCHANGED startup
    /\ UNCHANGED <<process, exits, negative>>

\* The startup lock, the second look under it, and the spawn.
TakeStartup(c) ==
    /\ startup = Nobody
    /\ ReadyEndpoint(
         Moves(c, "lock", "ready") /\ UNCHANGED startup,
         \/ Moves(c, "lock", "health") /\ startup' = c
         \/ Moves(c, "lock", "failed") /\ UNCHANGED startup)
    /\ UNCHANGED <<exits, negative>>

\* wait_for_endpoint: the child answers, and its process is registered.
Healthy(c) ==
    /\ Moves(c, "health", "ready")
    /\ process' = "up"
    /\ startup' = Nobody
    /\ UNCHANGED <<exits, negative>>

\* It exits first, has no CDP URL or is too slow: the child is killed.
Unhealthy(c) ==
    /\ Moves(c, "health", "failed")
    /\ startup' = Nobody
    /\ UNCHANGED <<process, exits, negative>>

EnsureReady(c) == Ensure(c) \/ TakeStartup(c) \/ Healthy(c) \/ Unhealthy(c)

\* The caller takes its answer and goes on.
Answered(c, answer) ==
    Moves(c, answer, "no") /\ UNCHANGED <<process, startup, exits, negative>>

\* The caller's future is dropped: the lock goes with it, and the child, which
\* is spawned with kill_on_drop.
Dropped(c) ==
    /\ asking[c] \notin {"no", "ready", "failed"}
    /\ asking' = [asking EXCEPT ![c] = "no"]
    /\ startup' = IF startup = c THEN Nobody ELSE startup
    /\ UNCHANGED <<process, exits, negative>>

SidecarExits ==
    /\ process = "up" /\ exits < MaxExits
    /\ process' = "exited"
    /\ exits' = exits + 1
    /\ UNCHANGED <<startup, asking, negative>>

-----------------------------------------------------------------------------
(* acquire_pdf_inner: direct HTTP first, then the browser.  A location that *)
(* failed is not tried again until its entry in negative_cache expires.     *)

WithoutRecentFailures(plan) == plan \ negative

Remember(failed) ==
    negative' = negative \cup failed /\ UNCHANGED <<process, startup, asking, exits>>

Forget(found) ==
    negative' = negative \ found /\ UNCHANGED <<process, startup, asking, exits>>

\* The application goes away, and the sidecar with it.
AcqLost ==
    /\ process' = "none" /\ startup' = Nobody /\ negative' = {}
    /\ asking' = [c \in Callers |-> "no"]
    /\ UNCHANGED exits

AcqNext ==
    \/ \E c \in Callers :
          Ask(c) \/ EnsureReady(c) \/ Dropped(c) \/ Answered(c, "ready") \/ Answered(c, "failed")
    \/ \E locations \in SUBSET Locations : Remember(locations) \/ Forget(locations)
    \/ SidecarExits \/ AcqLost

AcqSpec == AcqInit /\ [][AcqNext]_acqVars

-----------------------------------------------------------------------------
\* "Only one caller may cross the stopped -> starting boundary": however many
\* callers find the browser gone at once, and whichever of them is dropped, no
\* child is started beside a registered process or beside another child.
OneBrowser ==
    /\ \A c, d \in Callers : asking[c] = "health" /\ asking[d] = "health" => c = d
    /\ \A c \in Callers : asking[c] = "health" => process = "none"

=============================================================================
