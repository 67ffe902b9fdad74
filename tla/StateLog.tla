------------------------------ MODULE StateLog ------------------------------
(***************************************************************************)
(* What the Research State of a Project promises its clients: a log of     *)
(* states to which every commit appends one.  A client that announced the  *)
(* state it works from commits once, and only while that state is still    *)
(* the last; the researcher, who answers for what the screen shows, may    *)
(* append at any time.  No entry ever vanishes, and nothing that was       *)
(* logged changes, save that the evidence taken from a deleted paper is    *)
(* erased everywhere.                                                      *)
(***************************************************************************)
EXTENDS Naturals, Sequences

CONSTANTS
    Entries,
    Papers,
    Clients,        \* the requests and the Runs, each of which commits once
    NoVersion,      \* what a state says of an entry that is not made yet
    Unseen

VARIABLES
    log,            \* the states, from the empty one on
    base,           \* the number of the state a client works from
    done            \* the clients that have committed

vars == <<log, base, done>>

Init ==
    /\ log = <<[e \in Entries |-> NoVersion]>>
    /\ base = [c \in Clients |-> Unseen]
    /\ done = {}

Announce(c) ==
    /\ base[c] = Unseen
    /\ base' = [base EXCEPT ![c] = Len(log)]
    /\ UNCHANGED <<log, done>>

\* The log gains one state, in which every entry of the last one lives on.
Grows ==
    LET old == log
        new == log'
    IN  /\ Len(new) = Len(old) + 1
        /\ \A i \in 1..Len(old) : new[i] = old[i]
        /\ \A e \in Entries :
            old[Len(old)][e] # NoVersion => new[Len(new)][e] # NoVersion

CommitBy(c) ==
    /\ c \notin done
    /\ base[c] = Len(log)
    /\ done' = done \union {c}
    /\ Grows
    /\ UNCHANGED base

Edit ==
    /\ Grows
    /\ UNCHANGED <<base, done>>

\* A version without the evidence taken from a paper.
Erased(v, p) ==
    IF v = NoVersion THEN v
    ELSE [life |-> v.life,
          draft |-> [status |-> v.draft.status, text |-> v.draft.text,
                     premises |-> v.draft.premises,
                     evidence |-> {q \in v.draft.evidence : q[1] # p}]]

Forget(p) ==
    /\ LET old == log IN
        log' = [i \in 1..Len(old) |-> [e \in Entries |-> Erased(old[i][e], p)]]
    /\ UNCHANGED <<base, done>>

Next ==
    \/ \E c \in Clients : Announce(c) \/ CommitBy(c)
    \/ Edit
    \/ \E p \in Papers : Forget(p)

Spec == Init /\ [][Next]_vars
=============================================================================
