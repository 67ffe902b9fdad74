--------------------------- MODULE ResearchState ---------------------------
(***************************************************************************)
(* The Research State of one Project: the tables of revisions, entry       *)
(* versions and evidence links (storage/library_store.rs), and all that    *)
(* write them: the researcher (commands/research_state.rs), the restoring  *)
(* of a checkpoint, an external agent's state_update (services/mcp.rs) and *)
(* the finalization of a Run (storage/research_finalization.rs), while     *)
(* papers come, go and are extracted anew.                                 *)
(*                                                                         *)
(* A chunk's text is known by the number of the extraction that made it,   *)
(* and a quote by the paper and that number: text contains a quote if and  *)
(* only if the numbers agree.  A paper has one chunk, every entry is a     *)
(* Finding, and a premise is a derived_from relation.  Left out: contexts, *)
(* the supports and contradicts of a link, kinds, the retention of papers, *)
(* attempts and corrections (RunStore has the last two), and change sets,  *)
(* which nothing makes.                                                    *)
(***************************************************************************)
EXTENDS FiniteSets, Naturals, Sequences

CONSTANTS
    Entries,
    Texts,
    Papers,
    Requests,       \* state_update requests: an id with its payload
    Runs,
    Drafts,         \* what clients write
    Reviews,        \* the lifecycles the researcher sets
    Batches,        \* what agents and Runs send: changes by entry
    NoVersion,
    Unseen,
    MaxRevision,    \* bound on the head
    MaxExtractions, \* bound on the texts of a paper
    MaxMoves,       \* bound on the changes of the Vault
    MaxCalls,       \* bound: calls of a request after its lookup
    MaxAnchors      \* bound on the passages delivered to a Run

Lives == {"active", "contested", "superseded"}
Statuses == {"source_supported", "agent_synthesis", "speculative"}

DraftRows ==
    [status : Statuses, text : Texts, premises : SUBSET Entries,
     evidence : SUBSET (Papers \X Nat)]

VersionRows == [life : Lives, draft : DraftRows]

\* One change of a batch: "write" creates or revises, "review" sets a lifecycle.
Changes == [op : {"write", "review"}, draft : DraftRows, life : Lives]

ASSUME ResearchStateAssumption ==
    /\ Drafts \subseteq DraftRows
    /\ Reviews \subseteq Lives \ {"active"}
    /\ \A b \in Batches : DOMAIN b \subseteq Entries /\ \A e \in DOMAIN b : b[e] \in Changes
    /\ Requests \cap Runs = {}
    /\ NoVersion \notin VersionRows
    /\ Unseen \notin Nat
    /\ MaxRevision \in Nat

VARIABLES
    head,       \* research_state_heads.current_revision
    version,    \* research_entry_revisions, by entry and revision
    reason,     \* research_state_revisions: who made it, and what was restored
    vault,      \* the papers of the Project's Vault
    moves,      \* vaults.membership_revision
    indexed,    \* the papers with an extraction that is ready
    text,       \* the number of a paper's last extraction
    request,    \* a state_update: its payload, its calls, its receipt, the last answer
    run         \* harness_runs and the passages delivered to them

paperVars == <<vault, moves, indexed, text>>
stateVars == <<head, version, reason>>
vars == <<stateVars, paperVars, request, run>>

Revisions == 1..MaxRevision

Reasons == [by : {"nobody", "researcher", "agent", "run", "restoration"}, from : Nat]

RequestRows ==
    [base : Nat \union {Unseen},
     changes : Batches \union {<<>>},
     preparing : Nat,               \* calls that found no receipt
     prepared : Nat,                \* calls with the changes ready for the transaction
     receipt : Nat,                 \* the revision committed, 0 for none
     told : {"nothing", "refused"}] \* the answer, since the last call: no error or one

Anchors == [paper : Papers, quote : Nat, stamp : Nat]

RunRows ==
    [status : {"absent", "working", "reconciling", "committed", "over"},
     start : Nat \union {Unseen},   \* starting_state_revision
     reading : [Papers -> Nat],     \* a passage read, its delivery not recorded
     anchors : SUBSET Anchors,      \* agent_passage_anchors, while a finalization may read them
     moves : Nat \union {Unseen},   \* vault_revision of the first attempt
     result : Nat \union {Unseen}]  \* resulting_state_revision

NewRequest ==
    [base |-> Unseen, changes |-> <<>>, preparing |-> 0, prepared |-> 0,
     receipt |-> 0, told |-> "nothing"]

NoReading == [p \in Papers |-> 0]

NewRun ==
    [status |-> "absent", start |-> Unseen, reading |-> NoReading,
     anchors |-> {}, moves |-> Unseen, result |-> Unseen]

\* A Project with some papers in its Vault, extracted, and no entry yet.
Init ==
    /\ head = 0
    /\ version = [e \in Entries |-> [r \in Revisions |-> NoVersion]]
    /\ reason = [r \in Revisions |-> [by |-> "nobody", from |-> 0]]
    /\ vault \in SUBSET Papers
    /\ moves = 0
    /\ indexed = vault
    /\ text = [p \in Papers |-> IF p \in vault THEN 1 ELSE 0]
    /\ request = [q \in Requests |-> NewRequest]
    /\ run = [g \in Runs |-> NewRun]

-----------------------------------------------------------------------------
(* Reading the State: at a revision an entry is as its last version so far. *)

IsLast(row, k, r) ==
    /\ row[k] # NoVersion
    /\ \A m \in 1..r : m > k => row[m] = NoVersion

LastOf(row, r) ==
    IF \E k \in 1..r : IsLast(row, k, r)
    THEN row[CHOOSE k \in 1..r : IsLast(row, k, r)]
    ELSE NoVersion

At(e, r) == LastOf(version[e], r)

ExistAt(r) == {e \in Entries : At(e, r) # NoVersion}
ActiveAt(r) == {e \in ExistAt(r) : At(e, r).life = "active"}

-----------------------------------------------------------------------------
(* Validation. *)

Resolves(p) == p \in vault /\ p \in indexed

QuotesOnceRead(q) == Resolves(q[1])

\* The excerpt is in the chunk as it is stored now.
Quotes(q) == Resolves(q[1]) /\ q[2] = text[q[1]]

ValidDraftAnyPremise(d, pending) ==
    /\ d.status = "source_supported" <=> d.evidence # {}
    /\ d.status = "agent_synthesis" => d.premises # {}
    /\ \A q \in d.evidence : Quotes(q)

\* validate_research_entry_draft_with_pending: entries of the same batch count.
ValidDraft(d, pending) ==
    /\ d.status = "source_supported" <=> d.evidence # {}
    /\ d.status = "agent_synthesis" => d.premises # {}
    /\ \A q \in d.evidence : Quotes(q)
    /\ d.premises \subseteq ExistAt(head) \union pending

\* insert_research_entry_version resolves each chunk again, the excerpt it takes.
Insertable(v) == \A q \in v.draft.evidence : Resolves(q[1])

WriteWithoutHead(base, new, why) ==
    /\ base < MaxRevision
    /\ \A e \in DOMAIN new : Insertable(new[e])
    /\ head' = base
    /\ version' = [e \in Entries |->
                    IF e \in DOMAIN new THEN [version[e] EXCEPT ![base + 1] = new[e]]
                    ELSE version[e]]
    /\ reason' = [reason EXCEPT ![base + 1] = why]

\* The revision after base, with new versions of some entries.
Write(base, new, why) ==
    /\ base < MaxRevision
    /\ \A e \in DOMAIN new : Insertable(new[e])
    /\ head' = base + 1
    /\ version' = [e \in Entries |->
                    IF e \in DOMAIN new THEN [version[e] EXCEPT ![base + 1] = new[e]]
                    ELSE version[e]]
    /\ reason' = [reason EXCEPT ![base + 1] = why]

By(who) == [by |-> who, from |-> 0]

-----------------------------------------------------------------------------
(* The researcher, who sends the revision the screen shows.  Any other than  *)
(* the head is refused.                                                      *)

CreateResearchEntry(e, d, expected) ==
    /\ expected = head
    /\ At(e, head) = NoVersion
    /\ ValidDraft(d, {})
    /\ Write(expected, [x \in {e} |-> [life |-> "active", draft |-> d]], By("researcher"))
    /\ UNCHANGED <<paperVars, request, run>>

ReviseUnread(e, d, expected) ==
    /\ At(e, head) # NoVersion
    /\ ValidDraft(d, {})
    /\ Write(expected, [x \in {e} |-> [life |-> At(e, head).life, draft |-> d]],
             By("researcher"))
    /\ UNCHANGED <<paperVars, request, run>>

\* The lifecycle stays.
ReviseResearchEntry(e, d, expected) ==
    /\ At(e, head) # NoVersion
    /\ expected = head
    /\ ValidDraft(d, {})
    /\ Write(expected, [x \in {e} |-> [life |-> At(e, head).life, draft |-> d]],
             By("researcher"))
    /\ UNCHANGED <<paperVars, request, run>>

\* The draft is copied, and not validated again.
SetResearchEntryLifecycle(e, life, expected) ==
    /\ At(e, head) # NoVersion
    /\ expected = head
    /\ Write(expected, [x \in {e} |-> [life |-> life, draft |-> At(e, expected).draft]],
             By("researcher"))
    /\ UNCHANGED <<paperVars, request, run>>

LaterEntriesForgotten(r) == {}

\* What is active now and was not at the checkpoint.
LaterEntries(r) == ActiveAt(head) \ ActiveAt(r)

\* The entries active at the checkpoint are active again as they were, the
\* later ones superseded.
RestoreResearchCheckpoint(g, expected) ==
    /\ run[g].result # Unseen
    /\ expected = head
    /\ LET target == run[g].result IN
        /\ \A e \in ActiveAt(target) : ValidDraft(At(e, target).draft, {})
        /\ \A e \in LaterEntries(target) : ValidDraft(At(e, head).draft, {})
        /\ Write(expected,
                 [e \in ActiveAt(target) \union LaterEntries(target) |->
                    IF e \in ActiveAt(target)
                    THEN [life |-> "active", draft |-> At(e, target).draft]
                    ELSE [life |-> "superseded", draft |-> At(e, head).draft]],
                 [by |-> "restoration", from |-> target])
    /\ UNCHANGED <<paperVars, request, run>>

-----------------------------------------------------------------------------
(* apply_agent_state_update_on: the batch of an agent or of a Run.           *)

Creates(b) == {e \in DOMAIN b : b[e].op = "write" /\ At(e, head) = NoVersion}

\* A created entry repeats no active statement, and none of the batch.
NewStatements(b) ==
    \A e \in Creates(b) :
        /\ \A a \in ActiveAt(head) : At(a, head).draft.text # b[e].draft.text
        /\ \A f \in Creates(b) : f # e => b[f].draft.text # b[e].draft.text

AdmitsBatch(b) ==
    /\ \A e \in DOMAIN b :
        IF b[e].op = "write" THEN ValidDraft(b[e].draft, Creates(b))
        ELSE At(e, head) # NoVersion
    /\ NewStatements(b)

NewVersion(e, change) ==
    IF change.op = "review" THEN [life |-> change.life, draft |-> At(e, head).draft]
    ELSE [life |-> IF At(e, head) = NoVersion THEN "active" ELSE At(e, head).life,
          draft |-> change.draft]

NewVersions(b) == [e \in DOMAIN b |-> NewVersion(e, b[e])]

-----------------------------------------------------------------------------
(* state_update, by an agent that no Run manages: the receipt is looked up,   *)
(* the changes are prepared, and a transaction looks it up again and commits. *)
(* An answer may be lost, and the agent may send the request again, while an  *)
(* earlier call runs too.                                                     *)

OnlyRequest == UNCHANGED <<stateVars, paperVars, run>>

\* The agent reads the State and fixes the request's base_revision and changes.
ComposeUpdate(q, b) ==
    /\ request[q].base = Unseen
    /\ request' = [request EXCEPT ![q].base = head, ![q].changes = b]
    /\ OnlyRequest

\* No receipt is found.  Had there been one, the call would return its revision.
CallUpdate(q) ==
    /\ request[q].base # Unseen
    /\ request[q].preparing + request[q].prepared < MaxCalls
    /\ request[q].receipt = 0
    /\ request' = [request EXCEPT ![q].preparing = @ + 1, ![q].told = "nothing"]
    /\ OnlyRequest

\* prepare_state_evidence takes a quote from a passage of the stored version, or
\* from a link that the entry has now.
Takes(e, q) ==
    \/ Quotes(q)
    \/ At(e, head) # NoVersion /\ q \in At(e, head).draft.evidence

Cited(b) == UNION {{e} \X b[e].draft.evidence : e \in {x \in DOMAIN b : b[x].op = "write"}}

PrepareUpdate(q) ==
    /\ request[q].preparing > 0
    /\ \A c \in Cited(request[q].changes) : Takes(c[1], c[2])
    /\ request' = [request EXCEPT ![q].preparing = @ - 1, ![q].prepared = @ + 1]
    /\ OnlyRequest

\* A passage is of an older version or was delivered over another connection, or
\* a link to retain is not the entry's any more, which the request itself may have
\* seen to.  The receipt is not looked up again before the error is answered.
FailPreparation(q) ==
    /\ request[q].preparing > 0
    /\ Cited(request[q].changes) # {}
    /\ request' = [request EXCEPT ![q].preparing = @ - 1, ![q].told = "refused"]
    /\ OnlyRequest

ApplyUpdate(q) ==
    /\ request[q].prepared > 0
    /\ request[q].receipt = 0
    /\ request[q].base = head
    /\ AdmitsBatch(request[q].changes)
    /\ Write(request[q].base, NewVersions(request[q].changes), By("agent"))
    /\ request' = [request EXCEPT ![q].prepared = @ - 1, ![q].receipt = head']
    /\ UNCHANGED <<paperVars, run>>

\* Another call has committed: its revision is returned.
ApplyAgain(q) ==
    /\ request[q].prepared > 0
    /\ request[q].receipt # 0
    /\ request' = [request EXCEPT ![q].prepared = @ - 1]
    /\ OnlyRequest

\* No receipt, looked up first in the same transaction, and the State has moved
\* on or the changes are not valid.
RefuseUpdate(q) ==
    /\ request[q].prepared > 0
    /\ request[q].receipt = 0
    /\ request[q].base # head \/ ~AdmitsBatch(request[q].changes)
    /\ request' = [request EXCEPT ![q].prepared = @ - 1, ![q].told = "refused"]
    /\ OnlyRequest

-----------------------------------------------------------------------------
(* A Run: its Reader calls, its synthesis and its end.                       *)

OnlyRun == UNCHANGED <<stateVars, paperVars, request>>

End(g, status, result) ==
    run' = [run EXCEPT ![g] =
        [status |-> status, start |-> run[g].start, reading |-> NoReading,
         anchors |-> {}, moves |-> Unseen, result |-> result]]

StartRun(g) ==
    /\ run[g].status = "absent"
    /\ run' = [run EXCEPT ![g].status = "working", ![g].start = head]
    /\ OnlyRun

\* reader_read and reader_ask take a passage from the text of the moment ...
ReadPassage(g, p) ==
    /\ run[g].status = "working"
    /\ Resolves(p)
    /\ Cardinality(run[g].anchors) < MaxAnchors
    /\ run' = [run EXCEPT ![g].reading[p] = text[p]]
    /\ OnlyRun

\* ... and record it later, with the version the source has then.
DeliverPassage(g, p) ==
    /\ run[g].status = "working"
    /\ run[g].reading[p] # 0
    /\ p \in indexed
    /\ Cardinality(run[g].anchors) < MaxAnchors
    /\ run' = [run EXCEPT
                ![g].reading[p] = 0,
                ![g].anchors = @ \union
                    {[paper |-> p, quote |-> run[g].reading[p], stamp |-> text[p]]}]
    /\ OnlyRun

BeginSynthesis(g) ==
    /\ run[g].status = "working"
    /\ run' = [run EXCEPT ![g].status = "reconciling", ![g].reading = NoReading]
    /\ OnlyRun

SaveSynthesisAttempt(g) ==
    /\ run[g].status = "reconciling"
    /\ run[g].moves = Unseen
    /\ run' = [run EXCEPT ![g].moves = moves]
    /\ OnlyRun

\* prepare_evidence: delivered, of the version that was delivered, and there.
CitesDelivered(g, d) ==
    \A q \in d.evidence :
        \E a \in run[g].anchors :
            /\ <<a.paper, a.quote>> = q
            /\ a.stamp = text[a.paper]
            /\ Quotes(q)

\* No set of entries of which each has a premise in the set.
Acyclic(premises) ==
    \A S \in SUBSET Entries :
        S # {} => \E e \in S : premises[e] \cap S = {}

Premises(e, r) == IF At(e, r) = NoVersion THEN {} ELSE At(e, r).draft.premises

Rewrites(b) == {e \in DOMAIN b : b[e].op = "write"}

\* The premises and the statements as the batch leaves them.
PremisesAfter(b) ==
    [e \in Entries |-> IF e \in Rewrites(b) THEN b[e].draft.premises ELSE Premises(e, head)]

StatingAfter(b) ==
    ((ActiveAt(head) \ DOMAIN b) \union Rewrites(b))
        \union {e \in DOMAIN b : b[e].op = "review" /\ b[e].life = "active"}

StatementAfter(b, e) ==
    IF e \in Rewrites(b) THEN b[e].draft.text ELSE At(e, head).draft.text

ValidGraphOfBatch(b) ==
    /\ \A e \in DOMAIN b : b[e].op = "review" => At(e, head) # NoVersion
    /\ Acyclic([e \in Entries |-> IF e \in Rewrites(b) THEN b[e].draft.premises ELSE {}])
    /\ \A e, f \in StatingAfter(b) : e # f => StatementAfter(b, e) # StatementAfter(b, f)

\* validate_graph, over all entries of the Project.
ValidGraph(b) ==
    /\ \A e \in DOMAIN b : b[e].op = "review" => At(e, head) # NoVersion
    /\ Acyclic(PremisesAfter(b))
    /\ \A e, f \in StatingAfter(b) : e # f => StatementAfter(b, e) # StatementAfter(b, f)

\* The checks before any write of finalize_synthesis.
MayFinalize(g) ==
    /\ run[g].status = "reconciling"
    /\ run[g].moves = moves
    /\ run[g].start = head

FinalizeSynthesis(g, b) ==
    /\ MayFinalize(g)
    /\ ValidGraph(b)
    /\ \A e \in Rewrites(b) : CitesDelivered(g, b[e].draft)
    /\ AdmitsBatch(b)
    /\ Write(run[g].start, NewVersions(b), By("run"))
    /\ End(g, "committed", head')
    /\ UNCHANGED <<paperVars, request>>

\* A proposal without changes is checked too, and leaves the State as it is.
FinalizeUnchanged(g) ==
    /\ MayFinalize(g)
    /\ ValidGraph(<<>>)
    /\ End(g, "over", head)
    /\ OnlyRun

\* finish_codex_harness_run: cancelled, or out of budget.
FinishRun(g) ==
    /\ run[g].status \in {"working", "reconciling"}
    /\ End(g, "over", head)
    /\ OnlyRun

\* fail_harness_run has no result to show.
FailRun(g) ==
    /\ run[g].status \in {"working", "reconciling"}
    /\ End(g, "over", Unseen)
    /\ OnlyRun

-----------------------------------------------------------------------------
(* Papers. *)

\* The document is extracted anew, by a new build or on request.
ExtractPaper(p) ==
    /\ p \in vault
    /\ text[p] < MaxExtractions
    /\ text' = [text EXCEPT ![p] = @ + 1]
    /\ indexed' = indexed \union {p}
    /\ UNCHANGED <<vault, moves, stateVars, request, run>>

AddPaper(p) ==
    /\ p \notin vault
    /\ moves < MaxMoves
    /\ vault' = vault \union {p}
    /\ moves' = moves + 1
    /\ UNCHANGED <<indexed, text, stateVars, request, run>>

\* remove_paper_from_vault, while another Vault has the paper too.
RemovePaper(p) ==
    /\ p \in vault
    /\ moves < MaxMoves
    /\ vault' = vault \ {p}
    /\ moves' = moves + 1
    /\ UNCHANGED <<indexed, text, stateVars, request, run>>

Erased(v, p) ==
    IF v = NoVersion THEN v
    ELSE [life |-> v.life,
          draft |-> [status |-> v.draft.status, text |-> v.draft.text,
                     premises |-> v.draft.premises,
                     evidence |-> {q \in v.draft.evidence : q[1] # p}]]

\* remove_paper_from_vault, by the last Vault that had it: the row goes, and
\* with it the evidence links of every revision.
DeletePaper(p) ==
    /\ p \in vault \union indexed
    /\ p \in vault => moves < MaxMoves
    /\ vault' = vault \ {p}
    /\ moves' = IF p \in vault THEN moves + 1 ELSE moves
    /\ indexed' = indexed \ {p}
    /\ version' = [e \in Entries |-> [r \in Revisions |-> Erased(version[e][r], p)]]
    /\ UNCHANGED <<text, head, reason, request, run>>

\* The calls in flight are gone, and the Runs at work are failed by the recovery.
Restart ==
    /\ request' = [q \in Requests |-> [request[q] EXCEPT !.preparing = 0, !.prepared = 0]]
    /\ run' = [g \in Runs |->
                IF run[g].status = "working"
                THEN [NewRun EXCEPT !.status = "over", !.start = run[g].start]
                ELSE run[g]]
    /\ UNCHANGED <<stateVars, paperVars>>

-----------------------------------------------------------------------------

ResearcherSteps ==
    \E expected \in 0..MaxRevision :
        \/ \E e \in Entries, d \in Drafts :
            CreateResearchEntry(e, d, expected) \/ ReviseResearchEntry(e, d, expected)
        \/ \E e \in Entries, life \in Reviews : SetResearchEntryLifecycle(e, life, expected)
        \/ \E g \in Runs : RestoreResearchCheckpoint(g, expected)

RequestSteps(q) ==
    \/ \E b \in Batches : ComposeUpdate(q, b)
    \/ CallUpdate(q) \/ PrepareUpdate(q) \/ FailPreparation(q)
    \/ ApplyUpdate(q) \/ ApplyAgain(q) \/ RefuseUpdate(q)

RunSteps(g) ==
    \/ StartRun(g) \/ BeginSynthesis(g) \/ SaveSynthesisAttempt(g)
    \/ \E p \in Papers : ReadPassage(g, p) \/ DeliverPassage(g, p)
    \/ \E b \in Batches : FinalizeSynthesis(g, b)
    \/ FinalizeUnchanged(g) \/ FinishRun(g) \/ FailRun(g)

PaperSteps(p) == ExtractPaper(p) \/ AddPaper(p) \/ RemovePaper(p) \/ DeletePaper(p)

Next ==
    \/ ResearcherSteps
    \/ \E q \in Requests : RequestSteps(q)
    \/ \E g \in Runs : RunSteps(g)
    \/ \E p \in Papers : PaperSteps(p)
    \/ Restart

Spec == Init /\ [][Next]_vars

-----------------------------------------------------------------------------
(* Properties. *)

\* The tables and the calls keep their shape, and no version is of a revision
\* that is not committed.
TypeOK ==
    /\ head \in 0..MaxRevision
    /\ version \in [Entries -> [Revisions -> VersionRows \union {NoVersion}]]
    /\ \A e \in Entries : \A r \in Revisions : version[e][r] # NoVersion => r <= head
    /\ reason \in [Revisions -> Reasons]
    /\ vault \subseteq Papers
    /\ moves \in Nat
    /\ indexed \subseteq Papers
    /\ text \in [Papers -> Nat]
    /\ request \in [Requests -> RequestRows]
    /\ run \in [Runs -> RunRows]

\* The versions and the lookup by revision implement an append-only log, to which
\* a request and a Run commit at most once, and only on the state they started
\* from (RFC 0132, "permit only one new commit").
Log == INSTANCE StateLog WITH
    Clients <- Requests \union Runs,
    log <- [i \in 1..(head + 1) |-> [e \in Entries |-> At(e, i - 1)]],
    base <- [c \in Requests \union Runs |->
                IF c \in Requests
                THEN IF request[c].base = Unseen THEN Unseen ELSE request[c].base + 1
                ELSE IF run[c].start = Unseen THEN Unseen ELSE run[c].start + 1],
    done <- {q \in Requests : request[q].receipt # 0} \union {g \in Runs : run[g].status = "committed"}

ImplementsLog == Log!Spec

\* An agent that is told its request was refused can rely on it: the request has
\* committed nothing, though an earlier answer was lost or another call of the
\* same request came first (RFC 0132, "Lost-response retries return the original
\* IDs/revision").
RefusedLeavesNothing ==
    [][\A q \in Requests :
        request'[q].told = "refused" /\ request[q].told = "nothing" =>
            request'[q].receipt = 0]_vars

\* Evidence that a revision adds quotes the paper as it is stored at that moment,
\* in the Project's Vault, whoever adds it and however long ago it was read.
EvidenceIsGenuine ==
    [][head' # head =>
        \A e \in Entries :
            LET new == version'[e][head'] IN
            \/ new = NoVersion
            \/ At(e, head) # NoVersion /\ new.draft = At(e, head).draft
            \/ \A q \in new.draft.evidence :
                    q[1] \in vault /\ q[1] \in indexed /\ q[2] = text[q[1]]]_vars

SameActive(r, s) ==
    /\ ActiveAt(r) = ActiveAt(s)
    /\ \A e \in ActiveAt(r) : At(e, r) = At(e, s)

\* A restored revision shows, for good, the active entries of its checkpoint and
\* nothing else (RFC 0118, "whose active entry versions match").
RestoredAsItWas ==
    \A r \in 1..head :
        reason[r].by = "restoration" => SameActive(r, reason[r].from)

SoundAt(r) ==
    /\ Acyclic([e \in Entries |-> Premises(e, r)])
    /\ \A e, f \in ActiveAt(r) : e # f => At(e, r).draft.text # At(f, r).draft.text

\* A Run's commit leaves the premises of the whole Project without a cycle and no
\* two active entries with one statement, though nobody else's does.
SynthesisIsSound == \A r \in 1..head : reason[r].by = "run" => SoundAt(r)

\* At every revision the premises of an entry are entries of that revision.
PremisesExist ==
    \A r \in 0..head : \A e \in ExistAt(r) : Premises(e, r) \subseteq ExistAt(r)
=============================================================================
