------------------------ MODULE ResearchStateProofs ------------------------
(***************************************************************************)
(* Proofs about ResearchState, for any entries, papers, requests, Runs and *)
(* bounds.  First what the lookup of a version by revision returns when a  *)
(* revision is added (LastOf, At), then the inductive invariant, one lemma *)
(* for the transactions that write a revision and one for each other       *)
(* step, and the refinement of StateLog.                                   *)
(***************************************************************************)
EXTENDS ResearchState, TLAPS

-----------------------------------------------------------------------------
(* The last version of a row of versions. *)

\* It depends on the versions up to the revision only.
LEMMA LastOfPrefix ==
    ASSUME NEW f, NEW g, NEW r \in Nat, \A k \in 1..r : f[k] = g[k]
    PROVE  LastOf(f, r) = LastOf(g, r)
<1>1. \A k \in 1..r : IsLast(f, k, r) <=> IsLast(g, k, r)
  BY DEF IsLast
<1>2. (CHOOSE k \in 1..r : IsLast(f, k, r)) = (CHOOSE k \in 1..r : IsLast(g, k, r))
  BY <1>1
<1>3. CASE \E k \in 1..r : IsLast(f, k, r)
  <2> DEFINE c == CHOOSE k \in 1..r : IsLast(f, k, r)
  <2>1. c \in 1..r
    BY <1>3
  <2>2. LastOf(f, r) = f[c] /\ LastOf(g, r) = g[c]
    BY <1>1, <1>2, <1>3 DEF LastOf
  <2> QED
    BY <2>1, <2>2
<1>4. CASE ~ \E k \in 1..r : IsLast(f, k, r)
  BY <1>1, <1>4 DEF LastOf
<1>5. QED
  BY <1>3, <1>4

\* A version of the revision itself is the last one.
LEMMA LastOfNew ==
    ASSUME NEW f, NEW r \in Nat, f[r + 1] # NoVersion
    PROVE  LastOf(f, r + 1) = f[r + 1]
<1>1. IsLast(f, r + 1, r + 1)
  BY DEF IsLast
<1>2. \A k \in 1..(r + 1) : IsLast(f, k, r + 1) => k = r + 1
  BY DEF IsLast
<1>3. (CHOOSE k \in 1..(r + 1) : IsLast(f, k, r + 1)) = r + 1
  BY <1>1, <1>2
<1>4. \E k \in 1..(r + 1) : IsLast(f, k, r + 1)
  BY <1>1
<1>5. QED
  BY <1>3, <1>4 DEF LastOf

\* A revision without a version of the entry leaves the last one.
LEMMA LastOfOld ==
    ASSUME NEW f, NEW r \in Nat, f[r + 1] = NoVersion
    PROVE  LastOf(f, r + 1) = LastOf(f, r)
<1>1. \A k \in 1..(r + 1) : IsLast(f, k, r + 1) <=> (k \in 1..r /\ IsLast(f, k, r))
  BY DEF IsLast
<1>2. CASE \E k \in 1..r : IsLast(f, k, r)
  <2>1. \E k \in 1..(r + 1) : IsLast(f, k, r + 1)
    BY <1>1, <1>2
  <2>2. PICK a \in 1..r : IsLast(f, a, r)
    BY <1>2
  <2>3. \A k \in 1..r : IsLast(f, k, r) => k = a
    BY <2>2 DEF IsLast
  <2>4. (CHOOSE k \in 1..r : IsLast(f, k, r)) = a
    BY <2>2, <2>3
  <2>5. (CHOOSE k \in 1..(r + 1) : IsLast(f, k, r + 1)) = a
    BY <1>1, <2>2, <2>3
  <2>6. QED
    BY <1>2, <2>1, <2>4, <2>5 DEF LastOf
<1>3. CASE ~ \E k \in 1..r : IsLast(f, k, r)
  BY <1>1, <1>3 DEF LastOf
<1>4. QED
  BY <1>2, <1>3

\* It is one of the versions of the row, if there is any.
LEMMA LastOfRow ==
    ASSUME NEW f, NEW r \in Nat, LastOf(f, r) # NoVersion
    PROVE  \E k \in 1..r : LastOf(f, r) = f[k]
  BY DEF LastOf

\* Erasing a paper's evidence in a row erases it in its last version.
LEMMA LastOfErased ==
    ASSUME NEW f, NEW g, NEW p, NEW r \in Nat, \A k \in 1..r : g[k] = Erased(f[k], p),
           \A k \in 1..r : Erased(f[k], p) = NoVersion <=> f[k] = NoVersion
    PROVE  LastOf(g, r) = Erased(LastOf(f, r), p)
<1>1. \A k \in 1..r : IsLast(f, k, r) <=> IsLast(g, k, r)
  BY DEF IsLast
<1>2. (CHOOSE k \in 1..r : IsLast(f, k, r)) = (CHOOSE k \in 1..r : IsLast(g, k, r))
  BY <1>1
<1>3. CASE \E k \in 1..r : IsLast(f, k, r)
  <2> DEFINE c == CHOOSE k \in 1..r : IsLast(f, k, r)
  <2>1. c \in 1..r
    BY <1>3
  <2>2. LastOf(f, r) = f[c] /\ LastOf(g, r) = g[c]
    BY <1>1, <1>2, <1>3 DEF LastOf
  <2> QED
    BY <2>1, <2>2
<1>4. CASE ~ \E k \in 1..r : IsLast(f, k, r)
  <2>1. LastOf(f, r) = NoVersion /\ LastOf(g, r) = NoVersion
    BY <1>1, <1>4 DEF LastOf
  <2> QED
    BY <2>1 DEF Erased
<1>5. QED
  BY <1>3, <1>4

-----------------------------------------------------------------------------
(* The inductive invariant: first what it says of the tables. *)

HeadType == head \in 0..MaxRevision
VersionType == version \in [Entries -> [Revisions -> VersionRows \union {NoVersion}]]
NoneBeyond == \A e \in Entries : \A r \in Revisions : version[e][r] # NoVersion => r <= head
ReasonType == reason \in [Revisions -> Reasons]

\* Entries stay.
Grown == \A r \in 0..head : ExistAt(r) \subseteq ExistAt(head)

\* What was restored is of an earlier revision.
FromPast == \A r \in 1..head : reason[r].from \in 0..head

Tables == HeadType /\ VersionType /\ NoneBeyond /\ ReasonType

StateInv ==
    /\ Tables
    /\ Grown
    /\ FromPast
    /\ PremisesExist
    /\ RestoredAsItWas
    /\ SynthesisIsSound

LEMMA AtType ==
    ASSUME Tables, NEW e \in Entries, NEW r \in 0..MaxRevision, At(e, r) # NoVersion
    PROVE  At(e, r) \in VersionRows
<1>1. LastOf(version[e], r) # NoVersion
  BY DEF At
<1>2. r \in Nat
  BY ResearchStateAssumption
<1>3. PICK k \in 1..r : At(e, r) = version[e][k]
  BY <1>1, <1>2, LastOfRow DEF At
<1>4. k \in Revisions
  BY <1>2, <1>3, ResearchStateAssumption DEF Revisions
<1>5. QED
  BY <1>3, <1>4 DEF Tables, VersionType

\* The entry as the new revision has it.
After(new, e) == IF e \in DOMAIN new THEN new[e] ELSE At(e, head)

\* A set of new versions that fits the tables.
Fits(new) == DOMAIN new \subseteq Entries /\ \A e \in DOMAIN new : new[e] \in VersionRows

LEMMA WroteTables ==
    ASSUME Tables, NEW new, NEW why \in Reasons, Fits(new), Write(head, new, why)
    PROVE  /\ Tables'
           /\ head' = head + 1
           /\ reason'[head + 1] = why
           /\ \A r \in 1..head : reason'[r] = reason[r]
           /\ \A e \in Entries : \A r \in 0..head : At(e, r)' = At(e, r)
           /\ \A e \in Entries : At(e, head)' = After(new, e)
<1> USE ResearchStateAssumption DEF Revisions
<1>1. head \in Nat /\ MaxRevision \in Nat /\ head < MaxRevision /\ head' = head + 1
  BY DEF Write, Tables, HeadType
<1>2. HeadType'
  BY <1>1 DEF HeadType
<1>3. head + 1 \in Revisions
  BY <1>1
<1>4. \A e \in Entries :
        version'[e] = IF e \in DOMAIN new THEN [version[e] EXCEPT ![head + 1] = new[e]]
                      ELSE version[e]
  BY DEF Write
<1>5. \A e \in Entries : version[e] \in [Revisions -> VersionRows \union {NoVersion}]
  BY DEF Tables, VersionType
<1>6. VersionType'
  BY <1>3, <1>4, <1>5 DEF VersionType, Write, Fits
<1>7. \A e \in Entries : \A r \in Revisions : r # head + 1 => version'[e][r] = version[e][r]
  BY <1>3, <1>4, <1>5
<1>8. NoneBeyond'
  BY <1>1, <1>7 DEF NoneBeyond, Tables
<1>9. reason' = [reason EXCEPT ![head + 1] = why]
  BY DEF Write
<1>10. ReasonType' /\ reason'[head + 1] = why /\ \A r \in 1..head : reason'[r] = reason[r]
  BY <1>1, <1>3, <1>9 DEF Tables, ReasonType
<1>11. ASSUME NEW e \in Entries, NEW r \in 0..head PROVE At(e, r)' = At(e, r)
  <2>1. r \in Nat /\ \A k \in 1..r : version'[e][k] = version[e][k]
    BY <1>1, <1>7
  <2>2. LastOf(version'[e], r) = LastOf(version[e], r)
    BY <2>1, LastOfPrefix
  <2> QED
    BY <2>2 DEF At
<1>12. ASSUME NEW e \in Entries PROVE At(e, head)' = After(new, e)
  <2>1. CASE e \in DOMAIN new
    <3>1. version'[e][head + 1] = new[e]
      BY <1>3, <1>4, <1>5, <2>1
    <3>2. new[e] # NoVersion
      BY <2>1 DEF Fits
    <3>3. LastOf(version'[e], head + 1) = new[e]
      BY <1>1, <3>1, <3>2, LastOfNew
    <3> QED
      BY <1>1, <2>1, <3>3 DEF At, After
  <2>2. CASE e \notin DOMAIN new
    <3>1. version'[e] = version[e]
      BY <1>4, <2>2
    <3>2. version[e][head + 1] = NoVersion
      BY <1>1, <1>3 DEF Tables, NoneBeyond
    <3>3. LastOf(version'[e], head + 1) = LastOf(version[e], head)
      BY <1>1, <3>1, <3>2, LastOfOld
    <3> QED
      BY <1>1, <2>2, <3>3 DEF At, After
  <2> QED
    BY <2>1, <2>2
<1> QED
  BY <1>1, <1>2, <1>6, <1>8, <1>10, <1>11, <1>12 DEF Tables

\* The states of before keep their entries; the new one adds those it writes.
LEMMA WroteSets ==
    ASSUME Tables, NEW new, NEW why \in Reasons, Fits(new), Write(head, new, why)
    PROVE  /\ \A r \in 0..head : ExistAt(r)' = ExistAt(r) /\ ActiveAt(r)' = ActiveAt(r)
           /\ \A r \in 0..head : \A e \in Entries : Premises(e, r)' = Premises(e, r)
           /\ ExistAt(head)' = ExistAt(head) \union DOMAIN new
           /\ ActiveAt(head)' = {e \in ExistAt(head) \union DOMAIN new : After(new, e).life = "active"}
<1>1. /\ head \in Nat
      /\ \A e \in Entries : \A r \in 0..head : At(e, r)' = At(e, r)
      /\ \A e \in Entries : At(e, head)' = After(new, e)
  BY WroteTables, ResearchStateAssumption DEF Tables, HeadType
<1>2. \A r \in 0..head : ExistAt(r)' = ExistAt(r)
  BY <1>1 DEF ExistAt
<1>3. \A r \in 0..head : ActiveAt(r)' = ActiveAt(r)
  BY <1>1, <1>2 DEF ActiveAt, ExistAt
<1>4. \A r \in 0..head : \A e \in Entries : Premises(e, r)' = Premises(e, r)
  BY <1>1 DEF Premises
<1>5. \A e \in Entries : After(new, e) # NoVersion <=> e \in ExistAt(head) \union DOMAIN new
  BY ResearchStateAssumption DEF After, ExistAt, Fits
<1>6. ExistAt(head)' = ExistAt(head) \union DOMAIN new
  BY <1>1, <1>5 DEF ExistAt, Fits
<1>7. ActiveAt(head)' = {e \in ExistAt(head) \union DOMAIN new : After(new, e).life = "active"}
  BY <1>1, <1>6 DEF ActiveAt, ExistAt, Fits
<1> QED
  BY <1>2, <1>3, <1>4, <1>6, <1>7

\* A revision whose entries rest on entries there are keeps the first half of the
\* invariant.
LEMMA WroteGrown ==
    ASSUME StateInv, NEW new, NEW why \in Reasons, Fits(new), Write(head, new, why),
           why.from \in 0..head,
           \A e \in DOMAIN new : new[e].draft.premises \subseteq ExistAt(head) \union DOMAIN new
    PROVE  Tables' /\ Grown' /\ FromPast' /\ PremisesExist'
<1> USE DEF StateInv
<1>1. /\ head \in Nat
      /\ Tables'
      /\ head' = head + 1
      /\ reason'[head + 1] = why
      /\ \A r \in 1..head : reason'[r] = reason[r]
      /\ \A e \in Entries : At(e, head)' = After(new, e)
  BY WroteTables, ResearchStateAssumption DEF Tables, HeadType
<1>2. /\ \A r \in 0..head : ExistAt(r)' = ExistAt(r)
      /\ \A r \in 0..head : \A e \in Entries : Premises(e, r)' = Premises(e, r)
      /\ ExistAt(head)' = ExistAt(head) \union DOMAIN new
  BY WroteSets
<1>3. Grown'
  <2> SUFFICES ASSUME NEW r \in 0..(head + 1) PROVE (ExistAt(r) \subseteq ExistAt(head))'
    BY <1>1 DEF Grown
  <2>1. CASE r \in 0..head
    BY <1>2, <2>1 DEF Grown
  <2>2. CASE r = head + 1
    BY <1>1, <2>2
  <2> QED
    BY <1>1, <2>1, <2>2
<1>4. FromPast'
  BY <1>1 DEF FromPast
<1>5. PremisesExist'
  <2> SUFFICES ASSUME NEW r \in 0..(head + 1), NEW e \in ExistAt(r)'
               PROVE  (Premises(e, r) \subseteq ExistAt(r))'
    BY <1>1 DEF PremisesExist
  <2>1. CASE r \in 0..head
    BY <1>2, <2>1 DEF PremisesExist, ExistAt
  <2>2. CASE r = head + 1
    <3>1. r = head'
      BY <1>1, <2>2
    <3>2. e \in Entries /\ At(e, r)' = After(new, e) /\ ExistAt(r)' = ExistAt(head) \union DOMAIN new
      BY <1>1, <1>2, <3>1 DEF ExistAt
    <3>3. CASE e \in DOMAIN new
      <4>1. Premises(e, r)' \subseteq new[e].draft.premises
        BY <3>2, <3>3 DEF Premises, After
      <4> QED
        BY <3>2, <3>3, <4>1
    <3>4. CASE e \notin DOMAIN new
      <4>1. Premises(e, r)' = Premises(e, head)
        BY <3>2, <3>4 DEF Premises, After
      <4>2. e \in ExistAt(head)
        BY <3>2, <3>4
      <4> QED
        BY <1>1, <3>2, <4>1, <4>2 DEF PremisesExist
    <3> QED
      BY <3>3, <3>4
  <2> QED
    BY <1>1, <2>1, <2>2
<1> QED
  BY <1>1, <1>3, <1>4, <1>5

\* What was said of an earlier revision is still true of it.
LEMMA WroteKept ==
    ASSUME Tables, NEW new, NEW why \in Reasons, Fits(new), Write(head, new, why)
    PROVE  /\ \A r, s \in 0..head : SameActive(r, s)' <=> SameActive(r, s)
           /\ \A r \in 0..head : SoundAt(r)' <=> SoundAt(r)
<1>1. \A e \in Entries : \A r \in 0..head : At(e, r)' = At(e, r)
  BY WroteTables
<1>2. \A r \in 0..head : ActiveAt(r)' = ActiveAt(r) /\ ActiveAt(r) \subseteq Entries
  BY WroteSets DEF ActiveAt, ExistAt
<1>3. \A r, s \in 0..head : SameActive(r, s)' <=> SameActive(r, s)
  BY <1>1, <1>2 DEF SameActive
<1>4. ASSUME NEW r \in 0..head PROVE SoundAt(r)' <=> SoundAt(r)
  <2>1. [e \in Entries |-> Premises(e, r)'] = [e \in Entries |-> Premises(e, r)]
    BY WroteSets
  <2>2. (\A e, f \in ActiveAt(r) : e # f => At(e, r).draft.text # At(f, r).draft.text)'
            <=> \A e, f \in ActiveAt(r) : e # f => At(e, r).draft.text # At(f, r).draft.text
    BY <1>1, <1>2
  <2> QED
    BY <2>1, <2>2 DEF SoundAt, Acyclic
<1> QED
  BY <1>3, <1>4

\* A new revision keeps the invariant, if it is none of a restoration that differs
\* from its checkpoint, and none of a Run that is not sound.
LEMMA WroteInv ==
    ASSUME StateInv, NEW new, NEW why \in Reasons, Fits(new), Write(head, new, why),
           why.from \in 0..head,
           \A e \in DOMAIN new : new[e].draft.premises \subseteq ExistAt(head) \union DOMAIN new,
           \A r \in Nat : r = head' /\ why.by = "restoration" => SameActive(r, why.from)',
           \A r \in Nat : r = head' /\ why.by = "run" => SoundAt(r)'
    PROVE  StateInv'
<1>1. Tables' /\ Grown' /\ FromPast' /\ PremisesExist'
  BY WroteGrown
<1>2. /\ head \in Nat
      /\ head' = head + 1
      /\ reason'[head + 1] = why
      /\ \A r \in 1..head : reason'[r] = reason[r]
  BY WroteTables, ResearchStateAssumption DEF StateInv, Tables, HeadType
<1>3. RestoredAsItWas'
  <2> SUFFICES ASSUME NEW r \in 1..(head + 1), reason'[r].by = "restoration"
               PROVE  SameActive(r, reason[r].from)'
    BY <1>2 DEF RestoredAsItWas
  <2>1. CASE r \in 1..head
    <3>1. reason[r].from \in 0..head /\ SameActive(r, reason[r].from)
      BY <1>2, <2>1 DEF StateInv, FromPast, RestoredAsItWas
    <3>2. \A s \in 0..head : SameActive(r, s)' <=> SameActive(r, s)
      BY <1>2, <2>1, WroteKept DEF StateInv
    <3> QED
      BY <1>2, <2>1, <3>1, <3>2
  <2>2. CASE r = head + 1
    <3>1. reason'[r] = why /\ r \in Nat /\ r = head'
      BY <1>2, <2>2
    <3>2. SameActive(r, why.from)'
      BY <3>1
    <3> QED
      BY <3>1, <3>2
  <2> QED
    BY <1>2, <2>1, <2>2
<1>4. SynthesisIsSound'
  <2> SUFFICES ASSUME NEW r \in 1..(head + 1), reason'[r].by = "run"
               PROVE  SoundAt(r)'
    BY <1>2 DEF SynthesisIsSound
  <2>1. CASE r \in 1..head
    BY <1>2, <2>1, WroteKept DEF StateInv, SynthesisIsSound
  <2>2. CASE r = head + 1
    BY <1>2, <2>2
  <2> QED
    BY <1>2, <2>1, <2>2
<1> QED
  BY <1>1, <1>3, <1>4 DEF StateInv

\* Deleting a paper changes the evidence in every revision, and nothing else.
LEMMA ErasedAt ==
    ASSUME Tables, NEW p \in Papers, DeletePaper(p)
    PROVE  /\ Tables'
           /\ \A e \in Entries : \A r \in 0..head : At(e, r)' = Erased(At(e, r), p)
<1> USE ResearchStateAssumption DEF Revisions
<1>1. /\ head' = head /\ reason' = reason
      /\ version' = [e \in Entries |-> [r \in Revisions |-> Erased(version[e][r], p)]]
  BY DEF DeletePaper
<1>2. \A v \in VersionRows \union {NoVersion} :
        /\ Erased(v, p) \in VersionRows \union {NoVersion}
        /\ Erased(v, p) = NoVersion <=> v = NoVersion
  <2> SUFFICES ASSUME NEW v \in VersionRows PROVE Erased(v, p) \in VersionRows
    BY DEF Erased
  <2>1. v # NoVersion
    OBVIOUS
  <2>2. v.life \in Lives /\ v.draft \in DraftRows
    BY DEF VersionRows
  <2>3. {q \in v.draft.evidence : q[1] # p} \in SUBSET (Papers \X Nat)
    BY <2>2 DEF DraftRows
  <2> QED
    BY <2>1, <2>2, <2>3 DEF Erased, VersionRows, DraftRows
<1>3. \A e \in Entries : \A r \in Revisions :
        /\ version[e][r] \in VersionRows \union {NoVersion}
        /\ version'[e][r] = Erased(version[e][r], p)
  BY <1>1 DEF Tables, VersionType
<1>4. VersionType'
  BY <1>1, <1>2, <1>3 DEF VersionType
<1>5. NoneBeyond'
  BY <1>1, <1>2, <1>3 DEF NoneBeyond, Tables
<1>6. HeadType' /\ ReasonType'
  BY <1>1 DEF HeadType, ReasonType, Tables
<1>7. ASSUME NEW e \in Entries, NEW r \in 0..head PROVE At(e, r)' = Erased(At(e, r), p)
  <2>1. r \in Nat /\ 1..r \subseteq Revisions
    BY DEF Tables, HeadType
  <2>2. \A k \in 1..r : version'[e][k] = Erased(version[e][k], p)
    BY <1>3, <2>1
  <2>3. \A k \in 1..r : Erased(version[e][k], p) = NoVersion <=> version[e][k] = NoVersion
    BY <1>2, <1>3, <2>1
  <2>4. LastOf(version'[e], r) = Erased(LastOf(version[e], r), p)
    BY <2>1, <2>2, <2>3, LastOfErased
  <2> QED
    BY <2>4 DEF At
<1> QED
  BY <1>4, <1>5, <1>6, <1>7 DEF Tables

LEMMA ErasedInv ==
    ASSUME StateInv, NEW p \in Papers, DeletePaper(p)
    PROVE  StateInv'
<1> USE ResearchStateAssumption
<1>1. /\ Tables'
      /\ \A e \in Entries : \A r \in 0..head : At(e, r)' = Erased(At(e, r), p)
  BY ErasedAt DEF StateInv
<1>2. head' = head /\ reason' = reason /\ head \in Nat /\ head \in 0..MaxRevision
  BY DEF DeletePaper, StateInv, Tables, HeadType
<1>3. \A e \in Entries : \A r \in 0..head : At(e, r) # NoVersion => At(e, r) \in VersionRows
  BY <1>2, AtType DEF StateInv
<1>4. ASSUME NEW e \in Entries, NEW r \in 0..head, At(e, r) # NoVersion
      PROVE  /\ At(e, r)' # NoVersion
             /\ At(e, r)'.life = At(e, r).life
             /\ At(e, r)'.draft.text = At(e, r).draft.text
             /\ At(e, r)'.draft.premises = At(e, r).draft.premises
  <2> DEFINE v == At(e, r)
  <2> DEFINE d == [status |-> v.draft.status, text |-> v.draft.text,
                   premises |-> v.draft.premises,
                   evidence |-> {q \in v.draft.evidence : q[1] # p}]
  <2>1. At(e, r)' = [life |-> v.life, draft |-> d]
    BY <1>1, <1>4 DEF Erased
  <2>2. v \in VersionRows
    BY <1>3, <1>4
  <2>3. v.life \in Lives /\ v.draft \in DraftRows
    BY <2>2 DEF VersionRows
  <2>4. d \in DraftRows
    <3>1. {q \in v.draft.evidence : q[1] # p} \in SUBSET (Papers \X Nat)
      BY <2>3 DEF DraftRows
    <3> QED
      BY <2>3, <3>1 DEF DraftRows
  <2>5. At(e, r)' \in VersionRows
    BY <2>1, <2>3, <2>4 DEF VersionRows
  <2>6. At(e, r)' # NoVersion
    BY <2>5
  <2>7. d.text = v.draft.text /\ d.premises = v.draft.premises
    OBVIOUS
  <2> HIDE DEF d
  <2>8. At(e, r)'.life = v.life /\ At(e, r)'.draft = d
    BY <2>1
  <2> QED
    BY <2>6, <2>7, <2>8
<1>5. \A e \in Entries : \A r \in 0..head : At(e, r) = NoVersion => At(e, r)' = NoVersion
  BY <1>1 DEF Erased
<1>6. \A r \in 0..head : ExistAt(r)' = ExistAt(r)
  BY <1>4, <1>5 DEF ExistAt
<1>7. \A r \in 0..head : ActiveAt(r)' = ActiveAt(r)
  BY <1>4, <1>6 DEF ActiveAt, ExistAt
<1>8. \A r \in 0..head : \A e \in Entries : Premises(e, r)' = Premises(e, r)
  BY <1>4, <1>5 DEF Premises
<1>9. Grown'
  BY <1>2, <1>6 DEF StateInv, Grown
<1>10. FromPast'
  BY <1>2 DEF StateInv, FromPast
<1>11. PremisesExist'
  BY <1>2, <1>6, <1>8 DEF StateInv, PremisesExist, ExistAt
<1>12. RestoredAsItWas'
  <2> SUFFICES ASSUME NEW r \in 1..head, reason[r].by = "restoration"
               PROVE  SameActive(r, reason[r].from)'
    BY <1>2 DEF RestoredAsItWas
  <2>1. reason[r].from \in 0..head /\ SameActive(r, reason[r].from)
    BY DEF StateInv, FromPast, RestoredAsItWas
  <2> DEFINE s == reason[r].from
  <2>2. ActiveAt(r)' = ActiveAt(r) /\ ActiveAt(s)' = ActiveAt(s)
    BY <1>2, <1>7, <2>1
  <2>3. \A e \in ActiveAt(r) : At(e, r)' = At(e, s)'
    BY <1>1, <1>2, <2>1 DEF SameActive, ActiveAt, ExistAt
  <2> QED
    BY <1>2, <2>1, <2>2, <2>3 DEF SameActive
<1>13. SynthesisIsSound'
  <2> SUFFICES ASSUME NEW r \in 1..head, reason[r].by = "run"
               PROVE  SoundAt(r)'
    BY <1>2 DEF SynthesisIsSound
  <2>1. SoundAt(r)
    BY DEF StateInv, SynthesisIsSound
  <2>2. [e \in Entries |-> Premises(e, r)'] = [e \in Entries |-> Premises(e, r)]
    BY <1>2, <1>8
  <2>3. ActiveAt(r)' = ActiveAt(r) /\ \A e \in ActiveAt(r) : At(e, r)'.draft.text = At(e, r).draft.text
    BY <1>2, <1>4, <1>7 DEF ActiveAt, ExistAt
  <2> QED
    BY <2>1, <2>2, <2>3 DEF SoundAt, Acyclic
<1> QED
  BY <1>1, <1>9, <1>10, <1>11, <1>12, <1>13 DEF StateInv

\* A step that leaves the tables alone.
LEMMA SameTables ==
    ASSUME StateInv, UNCHANGED stateVars PROVE StateInv'
<1> USE DEF stateVars
<1>1. Tables'
  BY DEF StateInv, Tables, HeadType, VersionType, NoneBeyond, ReasonType
<1>2. \A r : ExistAt(r)' = ExistAt(r) /\ ActiveAt(r)' = ActiveAt(r)
  BY DEF ExistAt, ActiveAt, At
<1>3. \A e, r : At(e, r)' = At(e, r) /\ Premises(e, r)' = Premises(e, r)
  BY DEF Premises, At
<1>4. Grown' /\ FromPast' /\ PremisesExist'
  BY <1>2, <1>3 DEF StateInv, Grown, FromPast, PremisesExist
<1>5. RestoredAsItWas'
  BY <1>2, <1>3 DEF StateInv, RestoredAsItWas, SameActive
<1>6. SynthesisIsSound'
  BY <1>2, <1>3 DEF StateInv, SynthesisIsSound, SoundAt
<1> QED
  BY <1>1, <1>4, <1>5, <1>6 DEF StateInv

-----------------------------------------------------------------------------
(* The transactions that write a revision. *)

LEMMA ByFacts ==
    ASSUME StateInv, NEW who \in {"researcher", "agent", "run"}
    PROVE  /\ By(who) \in Reasons /\ By(who).from \in 0..head /\ By(who).by = who
           /\ head \in Nat /\ head \in 0..MaxRevision /\ Tables
<1>1. head \in Nat /\ head \in 0..MaxRevision /\ Tables
  BY ResearchStateAssumption DEF StateInv, Tables, HeadType
<1> QED
  BY <1>1 DEF By, Reasons

\* A valid draft rests on entries there are, or that are made with it.
LEMMA DraftFacts ==
    ASSUME NEW d \in DraftRows, NEW S, ValidDraft(d, S), NEW life \in Lives
    PROVE  /\ [life |-> life, draft |-> d] \in VersionRows
           /\ d.premises \subseteq ExistAt(head) \union S
  BY DEF ValidDraft, VersionRows

\* So does an entry of an earlier revision, whatever becomes of it.
LEMMA CopyFacts ==
    ASSUME StateInv, NEW r \in 0..head, NEW e \in ExistAt(r), NEW life \in Lives
    PROVE  /\ e \in Entries /\ At(e, r) \in VersionRows
           /\ [life |-> life, draft |-> At(e, r).draft] \in VersionRows
           /\ At(e, r).draft.premises \subseteq ExistAt(head)
           /\ e \in ExistAt(head)
<1>1. head \in Nat /\ head \in 0..MaxRevision /\ Tables
  BY ResearchStateAssumption DEF StateInv, Tables, HeadType
<1>2. e \in Entries /\ At(e, r) # NoVersion /\ r \in 0..MaxRevision
  BY <1>1, ResearchStateAssumption DEF ExistAt
<1>3. At(e, r) \in VersionRows
  BY <1>1, <1>2, AtType
<1>4. Premises(e, r) \subseteq ExistAt(r) /\ Premises(e, r) = At(e, r).draft.premises
  BY <1>2 DEF StateInv, PremisesExist, Premises
<1>5. ExistAt(r) \subseteq ExistAt(head)
  BY DEF StateInv, Grown
<1> QED
  BY <1>2, <1>3, <1>4, <1>5 DEF VersionRows

\* One entry of the researcher's.
LEMMA OneEntryKeeps ==
    ASSUME StateInv, NEW e \in Entries, NEW v \in VersionRows,
           v.draft.premises \subseteq ExistAt(head),
           Write(head, [x \in {e} |-> v], By("researcher"))
    PROVE  StateInv'
<1> DEFINE new == [x \in {e} |-> v]
<1>1. /\ By("researcher") \in Reasons /\ By("researcher").from \in 0..head
      /\ By("researcher").by = "researcher"
  BY ByFacts
<1>2. DOMAIN new = {e} /\ new[e] = v
  OBVIOUS
<1>3. Fits(new)
  BY <1>2 DEF Fits
<1>4. \A x \in DOMAIN new : new[x].draft.premises \subseteq ExistAt(head) \union DOMAIN new
  BY <1>2
<1>5. By("researcher").by # "restoration" /\ By("researcher").by # "run"
  BY <1>1
<1>6. Write(head, new, By("researcher"))
  OBVIOUS
<1> HIDE DEF new
<1> QED
  BY <1>1, <1>3, <1>4, <1>5, <1>6, WroteInv

LEMMA CreateKeeps ==
    ASSUME StateInv, NEW e \in Entries, NEW d \in Drafts, NEW expected,
           CreateResearchEntry(e, d, expected)
    PROVE  StateInv'
<1>1. d \in DraftRows /\ "active" \in Lives
  BY ResearchStateAssumption DEF Lives
<1>2. ValidDraft(d, {}) /\ expected = head
  BY DEF CreateResearchEntry
<1> DEFINE v == [life |-> "active", draft |-> d]
<1>3. v \in VersionRows /\ d.premises \subseteq ExistAt(head)
  BY <1>1, <1>2, DraftFacts
<1>4. Write(head, [x \in {e} |-> v], By("researcher"))
  BY <1>2 DEF CreateResearchEntry
<1>5. v.draft.premises \subseteq ExistAt(head)
  BY <1>3
<1> HIDE DEF v
<1> QED
  BY <1>3, <1>4, <1>5, OneEntryKeeps

LEMMA ReviseKeeps ==
    ASSUME StateInv, NEW e \in Entries, NEW d \in Drafts, NEW expected,
           ReviseResearchEntry(e, d, expected)
    PROVE  StateInv'
<1>1. d \in DraftRows
  BY ResearchStateAssumption
<1>2. ValidDraft(d, {}) /\ expected = head /\ At(e, head) # NoVersion
  BY DEF ReviseResearchEntry
<1>3. At(e, head) \in VersionRows
  BY <1>2, AtType, ResearchStateAssumption DEF StateInv, Tables, HeadType
<1>4. At(e, head).life \in Lives
  BY <1>3 DEF VersionRows
<1> DEFINE v == [life |-> At(e, head).life, draft |-> d]
<1>5. v \in VersionRows /\ d.premises \subseteq ExistAt(head)
  BY <1>1, <1>2, <1>4, DraftFacts
<1>6. Write(head, [x \in {e} |-> v], By("researcher"))
  BY <1>2 DEF ReviseResearchEntry
<1>7. v.draft.premises \subseteq ExistAt(head)
  BY <1>5
<1> HIDE DEF v
<1> QED
  BY <1>5, <1>6, <1>7, OneEntryKeeps

LEMMA SetLifecycleKeeps ==
    ASSUME StateInv, NEW e \in Entries, NEW life \in Reviews, NEW expected,
           SetResearchEntryLifecycle(e, life, expected)
    PROVE  StateInv'
<1>1. life \in Lives
  BY ResearchStateAssumption
<1>2. expected = head /\ At(e, head) # NoVersion
  BY DEF SetResearchEntryLifecycle
<1>3. head \in 0..head /\ e \in ExistAt(head)
  BY <1>2, ResearchStateAssumption DEF ExistAt, StateInv, Tables, HeadType
<1> DEFINE v == [life |-> life, draft |-> At(e, head).draft]
<1>4. v \in VersionRows /\ At(e, head).draft.premises \subseteq ExistAt(head)
  BY <1>1, <1>3, CopyFacts
<1>5. Write(head, [x \in {e} |-> v], By("researcher"))
  BY <1>2 DEF SetResearchEntryLifecycle
<1>6. v.draft.premises \subseteq ExistAt(head)
  BY <1>4
<1> HIDE DEF v
<1> QED
  BY <1>4, <1>5, <1>6, OneEntryKeeps

\* What the restoring of revision t writes.
Restored(t) ==
    [e \in ActiveAt(t) \union LaterEntries(t) |->
        IF e \in ActiveAt(t) THEN [life |-> "active", draft |-> At(e, t).draft]
        ELSE [life |-> "superseded", draft |-> At(e, head).draft]]

\* A checkpoint and what is later are of the shape of new versions.
LEMMA RestoredFits ==
    ASSUME StateInv, NEW t \in Nat, t \in 0..head
    PROVE  /\ Fits(Restored(t))
           /\ DOMAIN Restored(t) = ActiveAt(t) \union LaterEntries(t)
           /\ \A e \in ActiveAt(t) :
                /\ e \in Entries /\ e \in ExistAt(head)
                /\ Restored(t)[e] = At(e, t)
                /\ Restored(t)[e].life = "active"
                /\ Restored(t)[e].draft.premises \subseteq ExistAt(head)
           /\ \A e \in LaterEntries(t) :
                /\ e \in Entries /\ e \in ExistAt(head) /\ e \notin ActiveAt(t)
                /\ Restored(t)[e].life = "superseded"
                /\ Restored(t)[e].draft.premises \subseteq ExistAt(head)
<1>1. head \in Nat /\ head \in 0..head
  BY ByFacts
<1>2. DOMAIN Restored(t) = ActiveAt(t) \union LaterEntries(t)
  BY DEF Restored
<1>3. ASSUME NEW e \in ActiveAt(t)
      PROVE  /\ e \in Entries /\ e \in ExistAt(head)
             /\ Restored(t)[e] = At(e, t) /\ Restored(t)[e] \in VersionRows
             /\ Restored(t)[e].life = "active"
             /\ Restored(t)[e].draft.premises \subseteq ExistAt(head)
  <2>1. e \in ExistAt(t) /\ At(e, t).life = "active" /\ "active" \in Lives
    BY DEF ActiveAt, Lives
  <2>2. Restored(t)[e] = [life |-> "active", draft |-> At(e, t).draft]
    BY DEF Restored
  <2>3. e \in Entries /\ e \in ExistAt(head) /\ At(e, t) \in VersionRows
        /\ At(e, t).draft.premises \subseteq ExistAt(head)
    BY <1>1, <2>1, CopyFacts
  <2>4. At(e, t) = [life |-> "active", draft |-> At(e, t).draft]
    BY <2>1, <2>3 DEF VersionRows
  <2> QED
    BY <2>1, <2>2, <2>3, <2>4
<1>4. ASSUME NEW e \in LaterEntries(t)
      PROVE  /\ e \in Entries /\ e \in ExistAt(head) /\ e \notin ActiveAt(t)
             /\ Restored(t)[e] \in VersionRows
             /\ Restored(t)[e].life = "superseded"
             /\ Restored(t)[e].draft.premises \subseteq ExistAt(head)
  <2>1. e \in ExistAt(head) /\ e \notin ActiveAt(t) /\ "superseded" \in Lives
    BY DEF LaterEntries, ActiveAt, Lives
  <2>2. Restored(t)[e] = [life |-> "superseded", draft |-> At(e, head).draft]
    BY <2>1 DEF Restored
  <2>3. /\ e \in Entries
        /\ [life |-> "superseded", draft |-> At(e, head).draft] \in VersionRows
        /\ At(e, head).draft.premises \subseteq ExistAt(head)
    BY <1>1, <2>1, CopyFacts
  <2> QED
    BY <2>1, <2>2, <2>3
<1>5. Fits(Restored(t))
  BY <1>2, <1>3, <1>4 DEF Fits
<1> QED
  BY <1>2, <1>3, <1>4, <1>5

LEMMA RestoreKeeps ==
    ASSUME StateInv, NEW g \in Runs, NEW expected, RestoreResearchCheckpoint(g, expected),
           NEW t \in Nat, run[g].result = t, t \in 0..head
    PROVE  StateInv'
<1> DEFINE why == [by |-> "restoration", from |-> t]
<1>1. head \in Nat /\ head \in 0..MaxRevision /\ Tables /\ t \in Nat /\ t \in 0..head
  BY ByFacts
<1>2. why \in Reasons /\ why.from = t /\ why.by = "restoration"
  BY <1>1 DEF Reasons
<1>3. Write(head, Restored(t), why)
  BY DEF RestoreResearchCheckpoint, Restored
<1>4. Fits(Restored(t)) /\ DOMAIN Restored(t) = ActiveAt(t) \union LaterEntries(t)
  BY RestoredFits
<1>5. \A e \in ActiveAt(t) :
        /\ e \in Entries /\ e \in ExistAt(head)
        /\ Restored(t)[e] = At(e, t)
        /\ Restored(t)[e].life = "active"
        /\ Restored(t)[e].draft.premises \subseteq ExistAt(head)
  BY RestoredFits
<1>6. \A e \in LaterEntries(t) :
        /\ e \in Entries /\ e \in ExistAt(head) /\ e \notin ActiveAt(t)
        /\ Restored(t)[e].life = "superseded"
        /\ Restored(t)[e].draft.premises \subseteq ExistAt(head)
  BY RestoredFits
<1>7. Fits(Restored(t))
  BY <1>4
<1>8. \A e \in DOMAIN Restored(t) :
        Restored(t)[e].draft.premises \subseteq ExistAt(head) \union DOMAIN Restored(t)
  BY <1>4, <1>5, <1>6
<1>9. ActiveAt(head)' = ActiveAt(t)
  <2>1. ActiveAt(head)' =
            {e \in ExistAt(head) \union DOMAIN Restored(t) : After(Restored(t), e).life = "active"}
    BY <1>1, <1>2, <1>3, <1>7, WroteSets
  <2>2. \A e \in ActiveAt(t) : After(Restored(t), e).life = "active" /\ e \in ExistAt(head)
    BY <1>4, <1>5 DEF After
  <2>3. \A e \in LaterEntries(t) : After(Restored(t), e).life # "active"
    BY <1>4, <1>6 DEF After
  <2>4. ASSUME NEW e \in ExistAt(head), e \notin DOMAIN Restored(t)
        PROVE  After(Restored(t), e).life # "active"
    BY <1>4, <2>4 DEF After, LaterEntries, ActiveAt
  <2> QED
    BY <1>4, <2>1, <2>2, <2>3, <2>4
<1>10. ASSUME NEW r \in Nat, r = head' PROVE SameActive(r, t)'
  <2>1. /\ \A e \in Entries : At(e, t)' = At(e, t)
        /\ \A e \in Entries : At(e, head)' = After(Restored(t), e)
    BY <1>1, <1>2, <1>3, <1>7, WroteTables
  <2>2. ActiveAt(t)' = ActiveAt(t)
    BY <1>1, <1>2, <1>3, <1>7, WroteSets
  <2>3. ActiveAt(r)' = ActiveAt(t) /\ \A e \in Entries : At(e, r)' = After(Restored(t), e)
    BY <1>9, <1>10, <2>1
  <2>4. \A e \in ActiveAt(t) : After(Restored(t), e) = At(e, t) /\ e \in Entries
    BY <1>4, <1>5 DEF After
  <2> QED
    BY <2>1, <2>2, <2>3, <2>4 DEF SameActive
<1>12. \A r \in Nat : r = head' /\ why.by = "restoration" => SameActive(r, why.from)'
  BY <1>2, <1>10
<1>13. \A r \in Nat : r = head' /\ why.by = "run" => SoundAt(r)'
  BY <1>2
<1>14. why.from \in 0..head
  BY <1>1, <1>2
<1> HIDE DEF why
<1> QED
  BY <1>2, <1>3, <1>7, <1>8, <1>12, <1>13, <1>14, WroteInv

\* What a batch makes of an entry it writes, and of one it reviews.
LEMMA BatchEntry ==
    ASSUME StateInv, NEW b \in Batches, AdmitsBatch(b), NEW e \in DOMAIN b
    PROVE  /\ e \in Entries /\ e \in DOMAIN NewVersions(b)
           /\ NewVersions(b)[e] \in VersionRows
           /\ NewVersions(b)[e].draft.premises \subseteq ExistAt(head) \union DOMAIN b
           /\ e \in Rewrites(b) => NewVersions(b)[e].draft = b[e].draft
           /\ e \notin Rewrites(b) =>
                /\ At(e, head) # NoVersion
                /\ NewVersions(b)[e].draft = At(e, head).draft
                /\ NewVersions(b)[e].life = b[e].life
                /\ b[e].op = "review"
<1>1. head \in Nat /\ head \in 0..head /\ head \in 0..MaxRevision /\ Tables
  BY ByFacts
<1>2. e \in Entries /\ b[e] \in Changes
  BY ResearchStateAssumption
<1>3. b[e].op \in {"write", "review"} /\ b[e].draft \in DraftRows /\ b[e].life \in Lives
  BY <1>2 DEF Changes
<1>4. NewVersions(b)[e] = NewVersion(e, b[e]) /\ e \in DOMAIN NewVersions(b)
  BY DEF NewVersions
<1>5. CASE b[e].op = "write"
  <2> DEFINE life == IF At(e, head) = NoVersion THEN "active" ELSE At(e, head).life
  <2>1. life \in Lives
    <3>1. CASE At(e, head) = NoVersion
      BY <3>1 DEF Lives
    <3>2. CASE At(e, head) # NoVersion
      <4>1. At(e, head) \in VersionRows
        BY <1>1, <1>2, <3>2, AtType
      <4> QED
        BY <3>2, <4>1 DEF VersionRows
    <3> QED
      BY <3>1, <3>2
  <2>2. NewVersion(e, b[e]) = [life |-> life, draft |-> b[e].draft]
    BY <1>5 DEF NewVersion
  <2>3. ValidDraft(b[e].draft, Creates(b)) /\ e \in Rewrites(b)
    BY <1>5 DEF AdmitsBatch, Rewrites
  <2> HIDE DEF life
  <2>4. [life |-> life, draft |-> b[e].draft] \in VersionRows
        /\ b[e].draft.premises \subseteq ExistAt(head) \union Creates(b)
    BY <1>3, <2>1, <2>3, DraftFacts
  <2>5. Creates(b) \subseteq DOMAIN b
    BY DEF Creates
  <2> QED
    BY <1>2, <1>4, <2>2, <2>3, <2>4, <2>5
<1>6. CASE b[e].op = "review"
  <2>1. e \in ExistAt(head) /\ e \notin Rewrites(b)
    BY <1>2, <1>6 DEF AdmitsBatch, ExistAt, Rewrites
  <2>2. NewVersion(e, b[e]) = [life |-> b[e].life, draft |-> At(e, head).draft]
    BY <1>6 DEF NewVersion
  <2>3. /\ [life |-> b[e].life, draft |-> At(e, head).draft] \in VersionRows
        /\ At(e, head).draft.premises \subseteq ExistAt(head)
    BY <1>1, <1>3, <2>1, CopyFacts
  <2> QED
    BY <1>2, <1>4, <1>6, <2>1, <2>2, <2>3 DEF ExistAt
<1> QED
  BY <1>3, <1>5, <1>6

LEMMA BatchFits ==
    ASSUME StateInv, NEW b \in Batches, AdmitsBatch(b)
    PROVE  /\ Fits(NewVersions(b)) /\ DOMAIN NewVersions(b) = DOMAIN b
           /\ \A e \in DOMAIN NewVersions(b) :
                NewVersions(b)[e].draft.premises \subseteq ExistAt(head) \union DOMAIN NewVersions(b)
<1>1. DOMAIN NewVersions(b) = DOMAIN b
  BY DEF NewVersions
<1> QED
  BY <1>1, BatchEntry DEF Fits

RequestType ==
    /\ request \in [Requests -> RequestRows]
    /\ \A q \in Requests : request[q].base # Unseen => request[q].changes \in Batches

\* What is applied was composed.
LEMMA AppliedBatch ==
    ASSUME StateInv, RequestType, NEW q \in Requests, ApplyUpdate(q)
    PROVE  /\ request[q].changes \in Batches /\ AdmitsBatch(request[q].changes)
           /\ Write(head, NewVersions(request[q].changes), By("agent"))
           /\ UNCHANGED <<paperVars, run>> /\ head' = head + 1
<1>1. head # Unseen
  BY ByFacts, ResearchStateAssumption
<1>2. request[q].base = head
  BY DEF ApplyUpdate
<1> QED
  BY <1>1, <1>2 DEF ApplyUpdate, RequestType, Write

LEMMA ApplyKeeps ==
    ASSUME StateInv, RequestType, NEW q \in Requests, ApplyUpdate(q)
    PROVE  StateInv'
<1> DEFINE b == request[q].changes
<1>1. b \in Batches /\ AdmitsBatch(b)
  BY AppliedBatch
<1>2. Write(head, NewVersions(b), By("agent"))
  BY AppliedBatch
<1> HIDE DEF b
<1>3. /\ By("agent") \in Reasons /\ By("agent").from \in 0..head
      /\ By("agent").by # "restoration" /\ By("agent").by # "run"
  BY ByFacts
<1> QED
  BY <1>1, <1>2, <1>3, BatchFits, WroteInv

\* What validate_graph checks is what the new revision shows.
LEMMA GraphIsState ==
    ASSUME StateInv, NEW b \in Batches, AdmitsBatch(b), ValidGraph(b),
           Write(head, NewVersions(b), By("run")), NEW r \in Nat, r = head'
    PROVE  SoundAt(r)'
<1>1. Fits(NewVersions(b)) /\ DOMAIN NewVersions(b) = DOMAIN b
  BY BatchFits
<1>2. By("run") \in Reasons /\ Tables
  BY ByFacts
<1>3. \A e \in Entries : At(e, head)' = After(NewVersions(b), e)
  BY <1>1, <1>2, WroteTables
<1>4. ActiveAt(head)' =
        {e \in ExistAt(head) \union DOMAIN b : After(NewVersions(b), e).life = "active"}
  BY <1>1, <1>2, WroteSets
<1>5. \A e \in Entries : At(e, r)' = After(NewVersions(b), e)
  BY <1>3
<1>6. ActiveAt(r)' =
        {e \in ExistAt(head) \union DOMAIN b : After(NewVersions(b), e).life = "active"}
  BY <1>4
<1>7. \A e \in DOMAIN b : After(NewVersions(b), e) = NewVersions(b)[e]
  BY <1>1 DEF After
<1>8. \A e \in Entries \ DOMAIN b : After(NewVersions(b), e) = At(e, head)
  BY <1>1 DEF After
<1>9. ASSUME NEW e \in Entries PROVE Premises(e, r)' = PremisesAfter(b)[e]
  <2>1. CASE e \in Rewrites(b)
    <3>1. e \in DOMAIN b
      BY <2>1 DEF Rewrites
    <3>2. At(e, r)' = NewVersions(b)[e] /\ NewVersions(b)[e] \in VersionRows
          /\ NewVersions(b)[e].draft = b[e].draft
      BY <1>5, <1>7, <2>1, <3>1, BatchEntry
    <3>3. At(e, r)' # NoVersion
      BY <3>2, ResearchStateAssumption
    <3> QED
      BY <2>1, <3>2, <3>3 DEF Premises, PremisesAfter
  <2>2. CASE e \in DOMAIN b /\ e \notin Rewrites(b)
    <3>1. /\ At(e, r)' = NewVersions(b)[e] /\ NewVersions(b)[e] \in VersionRows
          /\ NewVersions(b)[e].draft = At(e, head).draft
          /\ At(e, head) # NoVersion
      BY <1>5, <1>7, <2>2, BatchEntry
    <3>2. At(e, r)' # NoVersion
      BY <3>1, ResearchStateAssumption
    <3> QED
      BY <2>2, <3>1, <3>2 DEF Premises, PremisesAfter
  <2>3. CASE e \notin DOMAIN b
    <3>1. At(e, r)' = At(e, head) /\ e \notin Rewrites(b)
      BY <1>5, <1>8, <2>3 DEF Rewrites
    <3> QED
      BY <3>1 DEF Premises, PremisesAfter
  <2> QED
    BY <2>1, <2>2, <2>3
<1>10. Acyclic([e \in Entries |-> Premises(e, r)'])
  <2>1. [e \in Entries |-> Premises(e, r)'] = PremisesAfter(b)
    BY <1>9 DEF PremisesAfter
  <2> QED
    BY <2>1 DEF ValidGraph
<1>11. ASSUME NEW e \in ActiveAt(r)'
       PROVE  /\ e \in Entries /\ e \in StatingAfter(b)
              /\ At(e, r)'.draft.text = StatementAfter(b, e)
  <2>1. e \in ExistAt(head) \union DOMAIN b /\ After(NewVersions(b), e).life = "active"
    BY <1>6
  <2>2. e \in Entries
    BY <1>1, <2>1 DEF ExistAt, Fits
  <2>3. CASE e \in Rewrites(b)
    <3>1. e \in DOMAIN b
      BY <2>3 DEF Rewrites
    <3>2. At(e, r)' = NewVersions(b)[e] /\ NewVersions(b)[e].draft = b[e].draft
      BY <1>5, <1>7, <2>2, <2>3, <3>1, BatchEntry
    <3> QED
      BY <2>2, <2>3, <3>2 DEF StatingAfter, StatementAfter
  <2>4. CASE e \in DOMAIN b /\ e \notin Rewrites(b)
    <3>1. /\ At(e, r)' = NewVersions(b)[e]
          /\ NewVersions(b)[e].draft = At(e, head).draft
          /\ NewVersions(b)[e].life = b[e].life
          /\ b[e].op = "review"
      BY <1>5, <1>7, <2>2, <2>4, BatchEntry
    <3>2. b[e].life = "active"
      BY <1>7, <2>1, <2>4, <3>1
    <3> QED
      BY <2>2, <2>4, <3>1, <3>2 DEF StatingAfter, StatementAfter
  <2>5. CASE e \notin DOMAIN b
    <3>1. At(e, r)' = At(e, head) /\ e \notin Rewrites(b)
      BY <1>5, <1>8, <2>2, <2>5 DEF Rewrites
    <3>2. e \in ActiveAt(head)
      BY <1>8, <2>1, <2>2, <2>5 DEF ActiveAt
    <3> QED
      BY <2>2, <2>5, <3>1, <3>2 DEF StatingAfter, StatementAfter
  <2> QED
    BY <2>3, <2>4, <2>5
<1>12. \A e, f \in ActiveAt(r)' : e # f => At(e, r)'.draft.text # At(f, r)'.draft.text
  BY <1>11 DEF ValidGraph
<1> QED
  BY <1>10, <1>12 DEF SoundAt, Acyclic

LEMMA SynthesisKeeps ==
    ASSUME StateInv, NEW g \in Runs, NEW b \in Batches, FinalizeSynthesis(g, b)
    PROVE  StateInv'
<1>1. AdmitsBatch(b) /\ ValidGraph(b) /\ run[g].start = head
  BY DEF FinalizeSynthesis, MayFinalize
<1>2. Write(head, NewVersions(b), By("run"))
  BY <1>1 DEF FinalizeSynthesis
<1>3. By("run") \in Reasons /\ By("run").from \in 0..head /\ By("run").by # "restoration"
  BY ByFacts
<1>4. \A r \in Nat : r = head' /\ By("run").by = "run" => SoundAt(r)'
  BY <1>1, <1>2, GraphIsState
<1> QED
  BY <1>1, <1>2, <1>3, <1>4, BatchFits, WroteInv

-----------------------------------------------------------------------------
(* The rest of the invariant: requests, Runs and papers. *)

PaperType == vault \subseteq Papers /\ moves \in Nat /\ indexed \subseteq Papers /\ text \in [Papers -> Nat]
RunType == run \in [Runs -> RunRows]

\* The result of a Run is a revision there is.
ResultsPast == \A g \in Runs : run[g].result \in Nat => run[g].result <= head

\* A Run has a start from its beginning.
RunFresh == \A g \in Runs : run[g].status = "absent" => run[g].start = Unseen

RunInv == RunType /\ ResultsPast /\ RunFresh

Inv == StateInv /\ PaperType /\ RequestType /\ RunInv

\* A request of which calls and answers change keeps its type.
LEMMA RequestRowKeeps ==
    ASSUME RequestType, NEW q \in Requests, NEW row \in RequestRows,
           row.base = request[q].base, row.changes = request[q].changes,
           request' = [request EXCEPT ![q] = row]
    PROVE  RequestType'
<1>1. request' \in [Requests -> RequestRows] /\ request'[q] = row
  BY DEF RequestType
<1>2. \A c \in Requests : c # q => request'[c] = request[c]
  BY DEF RequestType
<1> QED
  BY <1>1, <1>2 DEF RequestType

\* Each field of calls and answers may change by itself.
LEMMA RowFields ==
    ASSUME NEW row \in RequestRows, NEW n \in Nat
    PROVE  /\ [row EXCEPT !.preparing = n] \in RequestRows
           /\ [row EXCEPT !.prepared = n] \in RequestRows
           /\ [row EXCEPT !.receipt = n] \in RequestRows
           /\ [row EXCEPT !.told = "nothing"] \in RequestRows
           /\ [row EXCEPT !.told = "refused"] \in RequestRows
<1>1. [row EXCEPT !.preparing = n] \in RequestRows
  BY DEF RequestRows
<1>2. [row EXCEPT !.prepared = n] \in RequestRows
  BY DEF RequestRows
<1>3. [row EXCEPT !.receipt = n] \in RequestRows
  BY DEF RequestRows
<1>4. [row EXCEPT !.told = "nothing"] \in RequestRows
  BY DEF RequestRows
<1>5. [row EXCEPT !.told = "refused"] \in RequestRows
  BY DEF RequestRows
<1> QED
  BY <1>1, <1>2, <1>3, <1>4, <1>5

LEMMA RequestKeeps ==
    ASSUME StateInv, RequestType, NEW q \in Requests, RequestSteps(q)
    PROVE  RequestType'
<1>1. head \in Nat /\ head + 1 \in Nat
  BY ByFacts
<1>2. request[q] \in RequestRows
  BY DEF RequestType
<1>3. request[q].preparing \in Nat /\ request[q].prepared \in Nat
  BY <1>2 DEF RequestRows
<1>4. ASSUME NEW row \in RequestRows, request' = [request EXCEPT ![q] = row],
             row.base = request[q].base, row.changes = request[q].changes
      PROVE  RequestType'
  BY <1>4, RequestRowKeeps
<1>5. ASSUME NEW b \in Batches, ComposeUpdate(q, b) PROVE RequestType'
  <2> DEFINE begun == [request[q] EXCEPT !.base = head]
             row == [begun EXCEPT !.changes = b]
  <2>1. begun \in RequestRows
    BY <1>1, <1>2 DEF RequestRows
  <2>2. request' = [request EXCEPT ![q] = row]
    BY <1>5 DEF ComposeUpdate, RequestType
  <2> HIDE DEF begun
  <2>3. row \in RequestRows /\ row.changes \in Batches
    BY <2>1 DEF RequestRows
  <2> HIDE DEF row
  <2>4. \A c \in Requests : c # q => request'[c] = request[c]
    BY <2>2 DEF RequestType
  <2>5. request' \in [Requests -> RequestRows] /\ request'[q] = row
    BY <2>2, <2>3 DEF RequestType
  <2> QED
    BY <2>3, <2>4, <2>5 DEF RequestType
<1>6. CASE CallUpdate(q)
  <2> DEFINE called == [request[q] EXCEPT !.preparing = @ + 1]
             row == [called EXCEPT !.told = "nothing"]
  <2>1. request' = [request EXCEPT ![q] = row]
    BY <1>6 DEF CallUpdate, RequestType
  <2>2. row.base = request[q].base /\ row.changes = request[q].changes
    BY <1>2 DEF RequestRows
  <2>3. called \in RequestRows
    <3>1. request[q].preparing + 1 \in Nat
      BY <1>3
    <3> QED
      BY <1>2, <3>1, RowFields
  <2> HIDE DEF called
  <2>4. row \in RequestRows
    BY <2>3, RowFields
  <2> HIDE DEF row
  <2> QED
    BY <1>4, <2>1, <2>2, <2>4
<1>7. CASE PrepareUpdate(q)
  <2> DEFINE taken == [request[q] EXCEPT !.preparing = @ - 1]
             row == [taken EXCEPT !.prepared = @ + 1]
  <2>1. request' = [request EXCEPT ![q] = row]
    BY <1>7 DEF PrepareUpdate, RequestType
  <2>2. row.base = request[q].base /\ row.changes = request[q].changes
    BY <1>2 DEF RequestRows
  <2>3. request[q].preparing - 1 \in Nat
    BY <1>3, <1>7 DEF PrepareUpdate
  <2>4. taken \in RequestRows
    BY <1>2, <2>3, RowFields
  <2> HIDE DEF taken
  <2>5. row \in RequestRows
    <3>1. taken.prepared \in Nat
      BY <2>4 DEF RequestRows
    <3>2. taken.prepared + 1 \in Nat
      BY <3>1
    <3> QED
      BY <2>4, <3>2, RowFields
  <2> HIDE DEF row
  <2> QED
    BY <1>4, <2>1, <2>2, <2>5
<1>8. CASE FailPreparation(q)
  <2> DEFINE taken == [request[q] EXCEPT !.preparing = @ - 1]
             row == [taken EXCEPT !.told = "refused"]
  <2>1. request' = [request EXCEPT ![q] = row]
    BY <1>8 DEF FailPreparation, RequestType
  <2>2. row.base = request[q].base /\ row.changes = request[q].changes
    BY <1>2 DEF RequestRows
  <2>3. request[q].preparing - 1 \in Nat
    BY <1>3, <1>8 DEF FailPreparation
  <2>4. taken \in RequestRows
    BY <1>2, <2>3, RowFields
  <2> HIDE DEF taken
  <2>5. row \in RequestRows
    BY <2>4, RowFields
  <2> HIDE DEF row
  <2> QED
    BY <1>4, <2>1, <2>2, <2>5
<1>9. ASSUME ApplyUpdate(q) \/ ApplyAgain(q) \/ RefuseUpdate(q) PROVE RequestType'
  <2> DEFINE answered == [request[q] EXCEPT !.prepared = @ - 1]
  <2>1. request[q].prepared - 1 \in Nat
    BY <1>3, <1>9 DEF ApplyUpdate, ApplyAgain, RefuseUpdate
  <2>2. answered \in RequestRows
    BY <1>2, <2>1, RowFields
  <2>3. CASE ApplyUpdate(q)
    <3> DEFINE row == [answered EXCEPT !.receipt = head + 1]
    <3>1. head' = head + 1
      BY <2>3, AppliedBatch
    <3>2. request' = [request EXCEPT ![q] = row]
      BY <2>3, <3>1 DEF ApplyUpdate, RequestType
    <3>3. row.base = request[q].base /\ row.changes = request[q].changes
      BY <1>2 DEF RequestRows
    <3> HIDE DEF answered
    <3>4. row \in RequestRows
      BY <1>1, <2>2, RowFields
    <3> HIDE DEF row
    <3> QED
      BY <1>4, <3>2, <3>3, <3>4
  <2>4. CASE ApplyAgain(q)
    <3>1. request' = [request EXCEPT ![q] = answered]
      BY <2>4 DEF ApplyAgain, RequestType
    <3>2. answered.base = request[q].base /\ answered.changes = request[q].changes
      BY <1>2 DEF RequestRows
    <3> HIDE DEF answered
    <3> QED
      BY <1>4, <2>2, <3>1, <3>2
  <2>5. CASE RefuseUpdate(q)
    <3> DEFINE row == [answered EXCEPT !.told = "refused"]
    <3>1. request' = [request EXCEPT ![q] = row]
      BY <2>5 DEF RefuseUpdate, RequestType
    <3>2. row.base = request[q].base /\ row.changes = request[q].changes
      BY <1>2 DEF RequestRows
    <3> HIDE DEF answered
    <3>3. row \in RequestRows
      BY <2>2, RowFields
    <3> HIDE DEF row
    <3> QED
      BY <1>4, <3>1, <3>2, <3>3
  <2> QED
    BY <1>9, <2>3, <2>4, <2>5
<1> QED
  BY <1>5, <1>6, <1>7, <1>8, <1>9 DEF RequestSteps

LEMMA PaperKeeps ==
    ASSUME PaperType, NEW p \in Papers, PaperSteps(p)
    PROVE  PaperType'
<1>1. CASE ExtractPaper(p)
  BY <1>1 DEF ExtractPaper, PaperType
<1>2. CASE AddPaper(p)
  BY <1>2 DEF AddPaper, PaperType
<1>3. CASE RemovePaper(p)
  BY <1>3 DEF RemovePaper, PaperType
<1>4. CASE DeletePaper(p)
  BY <1>4 DEF DeletePaper, PaperType
<1> QED
  BY <1>1, <1>2, <1>3, <1>4 DEF PaperSteps

\* A step that gives one Run a row that fits.
LEMMA RowKeeps ==
    ASSUME RunInv, NEW g \in Runs, NEW row \in RunRows, run' = [run EXCEPT ![g] = row],
           head \in Nat, head' \in Nat, head' >= head,
           row.result \in Nat => row.result <= head',
           row.status = "absent" => row.start = Unseen
    PROVE  RunInv'
<1>1. RunType'
  BY DEF RunInv, RunType
<1>2. run'[g] = row /\ \A h \in Runs : h # g => run'[h] = run[h]
  BY DEF RunInv, RunType
<1>3. ResultsPast'
  BY <1>2 DEF RunInv, ResultsPast
<1>4. RunFresh'
  BY <1>2 DEF RunInv, RunFresh
<1> QED
  BY <1>1, <1>3, <1>4 DEF RunInv

\* A Run that ends.
LEMMA EndKeeps ==
    ASSUME RunInv, NEW g \in Runs, NEW status \in {"committed", "over"}, NEW result \in Nat \union {Unseen},
           End(g, status, result), head \in Nat, head' \in Nat, head' >= head,
           result \in Nat => result <= head'
    PROVE  RunInv'
<1> DEFINE row == [status |-> status, start |-> run[g].start,
                   reading |-> NoReading, anchors |-> {}, moves |-> Unseen, result |-> result]
<1>1. run[g] \in RunRows
  BY DEF RunInv, RunType
<1>2. run[g].start \in Nat \union {Unseen} /\ NoReading \in [Papers -> Nat]
  BY <1>1 DEF RunRows, NoReading
<1>3. row \in RunRows
  BY <1>2 DEF RunRows
<1>4. row.status = status /\ row.result = result
  OBVIOUS
<1>5. run' = [run EXCEPT ![g] = row]
  BY DEF End
<1> HIDE DEF row
<1>6. /\ row.result \in Nat => row.result <= head'
      /\ row.status = "absent" => row.start = Unseen
  BY <1>4
<1> QED
  BY <1>3, <1>5, <1>6, RowKeeps

LEMMA RunKeeps ==
    ASSUME StateInv, PaperType, RunInv, NEW g \in Runs, RunSteps(g)
    PROVE  RunInv'
<1> USE DEF RunInv
<1>1. head \in Nat /\ run[g] \in RunRows
  BY ByFacts DEF RunType
<1>2. run[g].result \in Nat => run[g].result <= head
  BY DEF ResultsPast
<1>3. ASSUME NEW row \in RunRows, run' = [run EXCEPT ![g] = row], head' = head,
             row.result = run[g].result,
             row.status = "absent" => row.start = Unseen
      PROVE  RunInv'
  <2>1. /\ head' \in Nat /\ head' >= head
        /\ row.result \in Nat => row.result <= head'
    BY <1>1, <1>2, <1>3
  <2> QED
    BY <1>1, <1>3, <2>1, RowKeeps
<1>4. CASE StartRun(g)
  <2> DEFINE row == [run[g] EXCEPT !.status = "working", !.start = head]
  <2>1. row \in RunRows /\ row.result = run[g].result /\ row.status # "absent"
    BY <1>1 DEF RunRows
  <2>2. run' = [run EXCEPT ![g] = row] /\ head' = head
    BY <1>4 DEF StartRun, OnlyRun, stateVars, RunType
  <2> HIDE DEF row
  <2> QED
    BY <1>3, <2>1, <2>2
<1>5. CASE BeginSynthesis(g)
  <2> DEFINE row == [run[g] EXCEPT !.status = "reconciling", !.reading = NoReading]
  <2>1. row \in RunRows /\ row.result = run[g].result /\ row.status # "absent"
    BY <1>1 DEF RunRows, NoReading
  <2>2. run' = [run EXCEPT ![g] = row] /\ head' = head
    BY <1>5 DEF BeginSynthesis, OnlyRun, stateVars, RunType
  <2> HIDE DEF row
  <2> QED
    BY <1>3, <2>1, <2>2
<1>6. CASE SaveSynthesisAttempt(g)
  <2> DEFINE row == [run[g] EXCEPT !.moves = moves]
  <2>1. row \in RunRows /\ row.result = run[g].result /\ row.status # "absent"
    BY <1>1, <1>6 DEF RunRows, PaperType, SaveSynthesisAttempt
  <2>2. run' = [run EXCEPT ![g] = row] /\ head' = head
    BY <1>6 DEF SaveSynthesisAttempt, OnlyRun, stateVars, RunType
  <2> HIDE DEF row
  <2> QED
    BY <1>3, <2>1, <2>2
<1>7. ASSUME NEW p \in Papers, ReadPassage(g, p) PROVE RunInv'
  <2> DEFINE reading == [run[g].reading EXCEPT ![p] = text[p]]
             row == [run[g] EXCEPT !.reading = reading]
  <2>1. run[g].reading \in [Papers -> Nat] /\ text[p] \in Nat
    BY <1>1 DEF RunRows, PaperType
  <2>2. reading \in [Papers -> Nat]
    BY <2>1
  <2>3. run' = [run EXCEPT ![g] = row] /\ head' = head
    BY <1>7 DEF ReadPassage, OnlyRun, stateVars, RunType
  <2> HIDE DEF reading
  <2>4. row \in RunRows /\ row.result = run[g].result /\ row.status # "absent"
    BY <1>1, <1>7, <2>2 DEF RunRows, ReadPassage
  <2> HIDE DEF row
  <2> QED
    BY <1>3, <2>3, <2>4
<1>8. ASSUME NEW p \in Papers, DeliverPassage(g, p) PROVE RunInv'
  <2> DEFINE reading == [run[g].reading EXCEPT ![p] = 0]
             passage == [paper |-> p, quote |-> run[g].reading[p], stamp |-> text[p]]
             anchors == run[g].anchors \union {passage}
             row == [run[g] EXCEPT !.reading = reading, !.anchors = anchors]
  <2>1. run[g].reading \in [Papers -> Nat] /\ run[g].anchors \subseteq Anchors /\ text[p] \in Nat
    BY <1>1 DEF RunRows, PaperType
  <2>2. reading \in [Papers -> Nat] /\ run[g].reading[p] \in Nat
    BY <2>1
  <2>3. passage \in Anchors
    BY <2>1, <2>2 DEF Anchors
  <2>4. run' = [run EXCEPT ![g] = row] /\ head' = head
    BY <1>8 DEF DeliverPassage, OnlyRun, stateVars, RunType
  <2> HIDE DEF passage
  <2>5. anchors \subseteq Anchors
    BY <2>1, <2>3
  <2> HIDE DEF reading, anchors
  <2>6. row \in RunRows /\ row.result = run[g].result /\ row.status # "absent"
    BY <1>1, <1>8, <2>2, <2>5 DEF RunRows, DeliverPassage
  <2> HIDE DEF row
  <2> QED
    BY <1>3, <2>4, <2>6
<1>9. ASSUME NEW b \in Batches, FinalizeSynthesis(g, b) PROVE RunInv'
  <2>1. End(g, "committed", head + 1) /\ head' = head + 1
    BY <1>9 DEF FinalizeSynthesis, MayFinalize, Write
  <2> QED
    BY <1>1, <2>1, EndKeeps
<1>10. CASE FinalizeUnchanged(g)
  <2>1. End(g, "over", head) /\ head' = head
    BY <1>10 DEF FinalizeUnchanged, OnlyRun, stateVars
  <2> QED
    BY <1>1, <2>1, EndKeeps
<1>11. CASE FinishRun(g)
  <2>1. End(g, "over", head) /\ head' = head
    BY <1>11 DEF FinishRun, OnlyRun, stateVars
  <2> QED
    BY <1>1, <2>1, EndKeeps
<1>12. CASE FailRun(g)
  <2>1. End(g, "over", Unseen) /\ head' = head
    BY <1>12 DEF FailRun, OnlyRun, stateVars
  <2>2. Unseen \in Nat \union {Unseen} /\ (Unseen \in Nat => Unseen <= head')
    BY ResearchStateAssumption
  <2>3. "over" \in {"committed", "over"} /\ head' \in Nat /\ head' >= head
    BY <1>1, <2>1
  <2> QED
    BY <1>1, <2>1, <2>2, <2>3, EndKeeps
<1> QED
  BY <1>4, <1>5, <1>6, <1>7, <1>8, <1>9, <1>10, <1>11, <1>12 DEF RunSteps

\* The calls are gone and the Runs at work over.
LEMMA RestartKeeps ==
    ASSUME RequestType, RunInv, Restart
    PROVE  RequestType' /\ RunInv'
<1>1. RequestType'
  <2>1. ASSUME NEW q \in Requests
        PROVE  /\ request'[q] \in RequestRows
               /\ request'[q].base = request[q].base /\ request'[q].changes = request[q].changes
    <3>1. request[q] \in RequestRows
      BY DEF RequestType
    <3> DEFINE idle == [request[q] EXCEPT !.preparing = 0]
               row == [idle EXCEPT !.prepared = 0]
    <3>2. request'[q] = row
      BY DEF Restart
    <3>3. row.base = request[q].base /\ row.changes = request[q].changes
      BY <3>1 DEF RequestRows
    <3>4. idle \in RequestRows
      BY <3>1, RowFields
    <3> HIDE DEF idle
    <3>5. row \in RequestRows
      BY <3>4, RowFields
    <3> HIDE DEF row
    <3> QED
      BY <3>2, <3>3, <3>5
  <2>2. request' = [q \in Requests |-> request'[q]]
    BY DEF Restart
  <2>3. request' \in [Requests -> RequestRows]
    BY <2>1, <2>2
  <2> QED
    BY <2>1, <2>3 DEF RequestType
<1>2. head' = head
  BY DEF Restart, stateVars
<1>3. ASSUME NEW g \in Runs
      PROVE  /\ run'[g] \in RunRows
             /\ run'[g].result \in Nat => run'[g].result = run[g].result
             /\ run'[g].status = "absent" => run'[g] = run[g]
  <2>1. run[g] \in RunRows
    BY DEF RunInv, RunType
  <2>2. CASE run[g].status = "working"
    <3> DEFINE row == [NewRun EXCEPT !.status = "over", !.start = run[g].start]
    <3>1. run'[g] = row
      BY <2>2 DEF Restart
    <3>2. run[g].start \in Nat \union {Unseen}
      BY <2>1 DEF RunRows
    <3>3. row \in RunRows /\ row.result = Unseen /\ row.status = "over"
      BY <3>2 DEF RunRows, NewRun, NoReading
    <3> HIDE DEF row
    <3> QED
      BY <3>1, <3>3, ResearchStateAssumption
  <2>3. CASE run[g].status # "working"
    <3>1. run'[g] = run[g]
      BY <2>3 DEF Restart
    <3> QED
      BY <2>1, <3>1
  <2> QED
    BY <2>2, <2>3
<1>4. RunType'
  <2>1. run' = [g \in Runs |-> run'[g]]
    BY DEF Restart
  <2> QED
    BY <1>3, <2>1 DEF RunType
<1>5. ResultsPast' /\ RunFresh'
  BY <1>2, <1>3 DEF RunInv, ResultsPast, RunFresh
<1> QED
  BY <1>1, <1>4, <1>5 DEF RunInv

\* A transaction of somebody else: the results of the Runs stay of the past.
LEMMA RunsStand ==
    ASSUME RunInv, UNCHANGED run, head \in Nat, head' \in {head, head + 1}
    PROVE  RunInv'
  BY DEF RunInv, RunType, ResultsPast, RunFresh, RunRows

-----------------------------------------------------------------------------
(* The invariant holds. *)

LEMMA InitInv ==
    ASSUME Init PROVE Inv
<1> USE ResearchStateAssumption
<1>1. Tables
  BY DEF Init, Tables, HeadType, VersionType, NoneBeyond, ReasonType, Reasons, Revisions
<1>2. ASSUME NEW e \in Entries PROVE At(e, 0) = NoVersion
  BY DEF At, LastOf
<1>3. ExistAt(0) = {} /\ head = 0
  BY <1>2 DEF ExistAt, Init
<1>4. Grown /\ FromPast /\ RestoredAsItWas /\ SynthesisIsSound
  BY <1>3 DEF Grown, FromPast, RestoredAsItWas, SynthesisIsSound
<1>5. PremisesExist
  BY <1>3 DEF PremisesExist
<1>6. PaperType
  BY DEF Init, PaperType
<1>7. RequestType
  BY DEF Init, RequestType, RequestRows, NewRequest
<1>8. NewRun \in RunRows /\ NewRun.status = "absent" /\ NewRun.start = Unseen /\ NewRun.result = Unseen
  BY DEF NewRun, RunRows, NoReading
<1>9. RunInv
  BY <1>8 DEF Init, RunInv, RunType, ResultsPast, RunFresh
<1> QED
  BY <1>1, <1>4, <1>5, <1>6, <1>7, <1>9 DEF Inv, StateInv

LEMMA ResearcherKeeps ==
    ASSUME Inv, ResearcherSteps
    PROVE  Inv'
<1> USE DEF Inv
<1>1. head \in Nat
  BY ByFacts
<1>2. ASSUME StateInv', UNCHANGED <<paperVars, request, run>>, head' = head + 1
      PROVE  Inv'
  BY <1>1, <1>2, RunsStand DEF PaperType, RequestType, paperVars
<1>3. PICK expected \in 0..MaxRevision :
        \/ \E e \in Entries, d \in Drafts :
            CreateResearchEntry(e, d, expected) \/ ReviseResearchEntry(e, d, expected)
        \/ \E e \in Entries, life \in Reviews : SetResearchEntryLifecycle(e, life, expected)
        \/ \E g \in Runs : RestoreResearchCheckpoint(g, expected)
  BY DEF ResearcherSteps
<1>4. ASSUME NEW e \in Entries, NEW d \in Drafts, CreateResearchEntry(e, d, expected)
      PROVE  Inv'
  BY <1>2, <1>4, CreateKeeps DEF CreateResearchEntry, Write
<1>5. ASSUME NEW e \in Entries, NEW d \in Drafts, ReviseResearchEntry(e, d, expected)
      PROVE  Inv'
  BY <1>2, <1>5, ReviseKeeps DEF ReviseResearchEntry, Write
<1>6. ASSUME NEW e \in Entries, NEW life \in Reviews, SetResearchEntryLifecycle(e, life, expected)
      PROVE  Inv'
  BY <1>2, <1>6, SetLifecycleKeeps DEF SetResearchEntryLifecycle, Write
<1>7. ASSUME NEW g \in Runs, RestoreResearchCheckpoint(g, expected)
      PROVE  Inv'
  <2>1. run[g] \in RunRows /\ run[g].result # Unseen
    BY <1>7 DEF RunInv, RunType, RestoreResearchCheckpoint
  <2>2. run[g].result \in Nat /\ run[g].result <= head
    BY <2>1 DEF RunRows, RunInv, ResultsPast
  <2>3. PICK t \in Nat : run[g].result = t /\ t \in 0..head
    BY <1>1, <2>2
  <2>4. StateInv'
    BY <1>7, <2>3, RestoreKeeps
  <2> QED
    BY <1>2, <1>7, <2>4 DEF RestoreResearchCheckpoint, Write
<1> QED
  BY <1>3, <1>4, <1>5, <1>6, <1>7

LEMMA NextKeeps ==
    ASSUME Inv, [Next]_vars
    PROVE  Inv'
<1> USE DEF Inv
<1>1. head \in Nat
  BY ByFacts
<1>2. ASSUME NEW q \in Requests, RequestSteps(q)
      PROVE  Inv'
  <2>1. UNCHANGED <<paperVars, run>> /\ (UNCHANGED stateVars \/ ApplyUpdate(q))
    BY <1>2 DEF RequestSteps, ComposeUpdate, CallUpdate, PrepareUpdate, FailPreparation,
                ApplyAgain, RefuseUpdate, ApplyUpdate, OnlyRequest
  <2>2. StateInv'
    BY <2>1, SameTables, ApplyKeeps
  <2>3. head' \in {head, head + 1}
    BY <2>1 DEF stateVars, ApplyUpdate, Write
  <2>4. RunInv' /\ PaperType' /\ RequestType'
    BY <1>1, <1>2, <2>1, <2>3, RunsStand, RequestKeeps DEF PaperType, paperVars
  <2> QED
    BY <2>2, <2>4
<1>3. ASSUME NEW g \in Runs, RunSteps(g)
      PROVE  Inv'
  <2>1. /\ UNCHANGED <<paperVars, request>>
        /\ UNCHANGED stateVars \/ \E b \in Batches : FinalizeSynthesis(g, b)
    BY <1>3 DEF RunSteps, StartRun, BeginSynthesis, SaveSynthesisAttempt, ReadPassage,
                DeliverPassage, FinalizeSynthesis, FinalizeUnchanged, FinishRun, FailRun, OnlyRun
  <2>2. StateInv'
    BY <2>1, SameTables, SynthesisKeeps
  <2>3. RunInv' /\ PaperType' /\ RequestType'
    BY <1>3, <2>1, RunKeeps DEF PaperType, RequestType, paperVars
  <2> QED
    BY <2>2, <2>3
<1>4. ASSUME NEW p \in Papers, PaperSteps(p)
      PROVE  Inv'
  <2>1. UNCHANGED <<request, run, head>> /\ (UNCHANGED stateVars \/ DeletePaper(p))
    BY <1>4 DEF PaperSteps, ExtractPaper, AddPaper, RemovePaper, DeletePaper, stateVars
  <2>2. StateInv'
    BY <2>1, SameTables, ErasedInv
  <2>3. RunInv' /\ PaperType' /\ RequestType'
    BY <1>1, <1>4, <2>1, RunsStand, PaperKeeps DEF RequestType
  <2> QED
    BY <2>2, <2>3
<1>5. CASE Restart
  <2>1. StateInv'
    BY <1>5, SameTables DEF Restart
  <2>2. PaperType'
    BY <1>5 DEF Restart, PaperType, paperVars
  <2> QED
    BY <1>5, <2>1, <2>2, RestartKeeps
<1>6. CASE UNCHANGED vars
  <2>1. UNCHANGED stateVars /\ UNCHANGED <<paperVars, request, run, head>>
    BY <1>6 DEF vars, stateVars
  <2>2. StateInv'
    BY <2>1, SameTables
  <2> QED
    BY <1>1, <2>1, <2>2, RunsStand DEF PaperType, RequestType, paperVars
<1> QED
  BY <1>2, <1>3, <1>4, <1>5, <1>6, ResearcherKeeps DEF Next

LEMMA AlwaysInv == Spec => []Inv
<1>1. Init => Inv
  BY InitInv
<1>2. Inv /\ [Next]_vars => Inv'
  BY NextKeeps
<1> QED
  BY <1>1, <1>2, PTL DEF Spec

\* The tables and the calls keep their shape, and there is no version of a revision
\* that is not committed.
THEOREM ResearchStateTypeCorrect == Spec => []TypeOK
<1>1. Inv => TypeOK
  BY DEF Inv, StateInv, Tables, HeadType, VersionType, NoneBeyond, ReasonType, PaperType,
         RequestType, RunInv, RunType, TypeOK
<1> QED
  BY <1>1, AlwaysInv, PTL

\* A restored revision shows the active entries of its checkpoint, for good
\* (restore_research_checkpoint).
THEOREM RestoredAlwaysAsItWas == Spec => []RestoredAsItWas
<1>1. Inv => RestoredAsItWas
  BY DEF Inv, StateInv
<1> QED
  BY <1>1, AlwaysInv, PTL

\* What validate_graph admits leaves the Project's State sound, and no later change
\* spoils the revision that a Run committed.
THEOREM SynthesisAlwaysSound == Spec => []SynthesisIsSound
<1>1. Inv => SynthesisIsSound
  BY DEF Inv, StateInv
<1> QED
  BY <1>1, AlwaysInv, PTL

\* No entry, of whatever writer, rests on one its revision does not have.
THEOREM PremisesAlwaysExist == Spec => []PremisesExist
<1>1. Inv => PremisesExist
  BY DEF Inv, StateInv
<1> QED
  BY <1>1, AlwaysInv, PTL

-----------------------------------------------------------------------------
(* The action properties. *)

\* A new revision of which each entry copies a draft or has evidence that is found.
LEMMA WroteGenuine ==
    ASSUME StateInv, NEW new, NEW why, Fits(new), Write(head, new, why),
           \A e \in DOMAIN new :
                \/ At(e, head) # NoVersion /\ new[e].draft = At(e, head).draft
                \/ \A q \in new[e].draft.evidence : Quotes(q),
           NEW e \in Entries
    PROVE  \/ version'[e][head'] = NoVersion
           \/ At(e, head) # NoVersion /\ version'[e][head'].draft = At(e, head).draft
           \/ \A q \in version'[e][head'].draft.evidence : Quotes(q)
<1>1. head \in Nat /\ head < MaxRevision /\ head' = head + 1
  BY ByFacts DEF Write
<1>2. head + 1 \in Revisions
  BY <1>1, ResearchStateAssumption DEF Revisions
<1>3. version[e] \in [Revisions -> VersionRows \union {NoVersion}]
  BY DEF StateInv, Tables, VersionType
<1>4. CASE e \in DOMAIN new
  <2>1. version'[e][head'] = new[e]
    BY <1>1, <1>2, <1>3, <1>4 DEF Write
  <2> QED
    BY <1>4, <2>1
<1>5. CASE e \notin DOMAIN new
  <2>1. version'[e] = version[e]
    BY <1>5 DEF Write
  <2>2. version[e][head + 1] = NoVersion
    BY <1>1, <1>2 DEF StateInv, Tables, NoneBeyond
  <2> QED
    BY <1>1, <2>1, <2>2
<1> QED
  BY <1>4, <1>5

LEMMA BatchGenuine ==
    ASSUME StateInv, NEW b \in Batches, AdmitsBatch(b), NEW e \in DOMAIN b
    PROVE  \/ At(e, head) # NoVersion /\ NewVersions(b)[e].draft = At(e, head).draft
           \/ \A q \in NewVersions(b)[e].draft.evidence : Quotes(q)
<1>1. CASE e \in Rewrites(b)
  <2>1. NewVersions(b)[e].draft = b[e].draft
    BY <1>1, BatchEntry
  <2>2. ValidDraft(b[e].draft, Creates(b))
    BY <1>1 DEF AdmitsBatch, Rewrites
  <2> QED
    BY <2>1, <2>2 DEF ValidDraft
<1>2. CASE e \notin Rewrites(b)
  BY <1>2, BatchEntry
<1> QED
  BY <1>1, <1>2

LEMMA GenuineStep ==
    ASSUME Inv, [Next]_vars, head' # head, NEW e \in Entries
    PROVE  \/ version'[e][head'] = NoVersion
           \/ At(e, head) # NoVersion /\ version'[e][head'].draft = At(e, head).draft
           \/ \A q \in version'[e][head'].draft.evidence : Quotes(q)
<1> DEFINE Genuine == \/ version'[e][head'] = NoVersion
                      \/ At(e, head) # NoVersion /\ version'[e][head'].draft = At(e, head).draft
                      \/ \A q \in version'[e][head'].draft.evidence : Quotes(q)
<1> SUFFICES ASSUME ~Genuine PROVE FALSE
  OBVIOUS
<1> USE DEF Inv
<1>1. ASSUME NEW new, NEW why, Fits(new), Write(head, new, why),
             \A x \in DOMAIN new :
                \/ At(x, head) # NoVersion /\ new[x].draft = At(x, head).draft
                \/ \A q \in new[x].draft.evidence : Quotes(q)
      PROVE  FALSE
  BY <1>1, WroteGenuine
<1> HIDE DEF Genuine
<1>2. ASSUME ResearcherSteps PROVE FALSE
  <2>1. PICK expected \in 0..MaxRevision :
        \/ \E x \in Entries, d \in Drafts :
            CreateResearchEntry(x, d, expected) \/ ReviseResearchEntry(x, d, expected)
        \/ \E x \in Entries, life \in Reviews : SetResearchEntryLifecycle(x, life, expected)
        \/ \E g \in Runs : RestoreResearchCheckpoint(g, expected)
    BY <1>2 DEF ResearcherSteps
  <2>2. ASSUME NEW x \in Entries, NEW v \in VersionRows,
               Write(head, [y \in {x} |-> v], By("researcher")),
               \/ At(x, head) # NoVersion /\ v.draft = At(x, head).draft
               \/ \A q \in v.draft.evidence : Quotes(q)
        PROVE  FALSE
    <3> DEFINE new == [y \in {x} |-> v]
    <3>1. DOMAIN new = {x} /\ new[x] = v
      OBVIOUS
    <3>2. Write(head, new, By("researcher"))
      BY <2>2
    <3> HIDE DEF new
    <3>3. Fits(new)
      BY <3>1 DEF Fits
    <3> QED
      BY <1>1, <2>2, <3>1, <3>2, <3>3
  <2>3. ASSUME NEW x \in Entries, NEW d \in Drafts, CreateResearchEntry(x, d, expected)
        PROVE  FALSE
    <3>1. /\ ValidDraft(d, {}) /\ expected = head
          /\ Write(head, [y \in {x} |-> [life |-> "active", draft |-> d]], By("researcher"))
      BY <2>3 DEF CreateResearchEntry
    <3>2. [life |-> "active", draft |-> d] \in VersionRows
      BY ResearchStateAssumption DEF VersionRows, Lives
    <3>3. \A q \in d.evidence : Quotes(q)
      BY <3>1 DEF ValidDraft
    <3> QED
      BY <2>2, <3>1, <3>2, <3>3
  <2>4. ASSUME NEW x \in Entries, NEW d \in Drafts, ReviseResearchEntry(x, d, expected)
        PROVE  FALSE
    <3>1. /\ ValidDraft(d, {}) /\ expected = head /\ At(x, head) # NoVersion
          /\ Write(head, [y \in {x} |-> [life |-> At(x, head).life, draft |-> d]], By("researcher"))
      BY <2>4 DEF ReviseResearchEntry
    <3>2. head \in 0..MaxRevision /\ Tables
      BY ByFacts
    <3>3. At(x, head).life \in Lives
      BY <3>1, <3>2, AtType DEF VersionRows
    <3>4. [life |-> At(x, head).life, draft |-> d] \in VersionRows
      BY <3>3, ResearchStateAssumption DEF VersionRows
    <3>5. \A q \in d.evidence : Quotes(q)
      BY <3>1 DEF ValidDraft
    <3> QED
      BY <2>2, <3>1, <3>4, <3>5
  <2>5. ASSUME NEW x \in Entries, NEW life \in Reviews,
               SetResearchEntryLifecycle(x, life, expected)
        PROVE  FALSE
    <3>1. /\ expected = head /\ At(x, head) # NoVersion
          /\ Write(head, [y \in {x} |-> [life |-> life, draft |-> At(x, head).draft]],
                   By("researcher"))
      BY <2>5 DEF SetResearchEntryLifecycle
    <3>2. x \in ExistAt(head) /\ head \in 0..head /\ life \in Lives
      BY <3>1, ByFacts, ResearchStateAssumption DEF ExistAt
    <3>3. [life |-> life, draft |-> At(x, head).draft] \in VersionRows
      BY <3>2, CopyFacts
    <3> QED
      BY <2>2, <3>1, <3>3
  <2>6. ASSUME NEW g \in Runs, RestoreResearchCheckpoint(g, expected)
        PROVE  FALSE
    <3>1. run[g] \in RunRows /\ run[g].result # Unseen
      BY <2>6 DEF RunInv, RunType, RestoreResearchCheckpoint
    <3>2. head \in Nat /\ run[g].result \in Nat /\ run[g].result <= head
      BY <3>1, ByFacts DEF RunRows, RunInv, ResultsPast
    <3>3. PICK t \in Nat : run[g].result = t /\ t \in 0..head
      BY <3>2
    <3>4. /\ \A x \in ActiveAt(t) : ValidDraft(At(x, t).draft, {})
          /\ Write(head, Restored(t), [by |-> "restoration", from |-> t])
      BY <2>6, <3>3 DEF RestoreResearchCheckpoint, Restored
    <3>5. /\ DOMAIN Restored(t) = ActiveAt(t) \union LaterEntries(t)
          /\ \A x \in ActiveAt(t) : Restored(t)[x].draft = At(x, t).draft
          /\ \A x \in LaterEntries(t) : Restored(t)[x].draft = At(x, head).draft
      BY DEF Restored, LaterEntries
    <3>6. \A x \in DOMAIN Restored(t) :
                \/ At(x, head) # NoVersion /\ Restored(t)[x].draft = At(x, head).draft
                \/ \A q \in Restored(t)[x].draft.evidence : Quotes(q)
      BY <3>4, <3>5 DEF ValidDraft, LaterEntries, ActiveAt, ExistAt
    <3>7. Fits(Restored(t))
      BY <3>3, RestoredFits
    <3> QED
      BY <1>1, <3>4, <3>6, <3>7
  <2> QED
    BY <2>1, <2>3, <2>4, <2>5, <2>6
<1>3. ASSUME NEW b \in Batches, AdmitsBatch(b), NEW why, Write(head, NewVersions(b), why)
      PROVE  FALSE
  <2>1. Fits(NewVersions(b)) /\ DOMAIN NewVersions(b) = DOMAIN b
    BY <1>3, BatchFits
  <2> QED
    BY <1>1, <1>3, <2>1, BatchGenuine
<1>4. ASSUME NEW q \in Requests, RequestSteps(q)
      PROVE  FALSE
  <2>1. ApplyUpdate(q)
    BY <1>4 DEF RequestSteps, ComposeUpdate, CallUpdate, PrepareUpdate, FailPreparation,
                ApplyAgain, RefuseUpdate, OnlyRequest, stateVars
  <2> QED
    BY <1>3, <2>1, AppliedBatch
<1>5. ASSUME NEW g \in Runs, RunSteps(g)
      PROVE  FALSE
  <2>1. PICK b \in Batches : FinalizeSynthesis(g, b)
    BY <1>5 DEF RunSteps, StartRun, BeginSynthesis, SaveSynthesisAttempt, ReadPassage,
                DeliverPassage, FinalizeUnchanged, FinishRun, FailRun, OnlyRun, stateVars
  <2> QED
    BY <1>3, <2>1 DEF FinalizeSynthesis, MayFinalize
<1>6. ~(\E p \in Papers : PaperSteps(p)) /\ ~Restart /\ ~UNCHANGED vars
  BY DEF PaperSteps, ExtractPaper, AddPaper, RemovePaper, DeletePaper, Restart, stateVars, vars
<1> QED
  BY <1>2, <1>4, <1>5, <1>6 DEF Next

\* Whoever writes a revision, and whenever the quote was read, the evidence it adds is
\* in the text of a paper of the Vault as stored at that moment.
THEOREM EvidenceAlwaysGenuine == Spec => EvidenceIsGenuine
<1>1. Inv /\ [Next]_vars =>
        (head' # head =>
            \A e \in Entries :
                LET new == version'[e][head'] IN
                \/ new = NoVersion
                \/ At(e, head) # NoVersion /\ new.draft = At(e, head).draft
                \/ \A q \in new.draft.evidence :
                        q[1] \in vault /\ q[1] \in indexed /\ q[2] = text[q[1]])
  BY GenuineStep DEF Quotes, Resolves
<1> QED
  BY <1>1, AlwaysInv, PTL DEF Spec, EvidenceIsGenuine

-----------------------------------------------------------------------------
(* The refinement of StateLog. *)

LogNow == [i \in 1..(head + 1) |-> [e \in Entries |-> At(e, i - 1)]]

BaseNow ==
    [c \in Requests \union Runs |->
        IF c \in Requests
        THEN IF request[c].base = Unseen THEN Unseen ELSE request[c].base + 1
        ELSE IF run[c].start = Unseen THEN Unseen ELSE run[c].start + 1]

DoneNow ==
    {q \in Requests : request[q].receipt # 0} \union {g \in Runs : run[g].status = "committed"}

\* The abstract log has the states from 0 to the head.
LEMMA LengthOf ==
    ASSUME NEW n \in Nat, NEW f, NEW S, f \in [1..n -> S]
    PROVE  Len(f) = n
  OBVIOUS

LEMMA LogFacts ==
    ASSUME head \in Nat
    PROVE  /\ Len(LogNow) = head + 1
           /\ \A i \in 1..(head + 1) : LogNow[i] = [e \in Entries |-> At(e, i - 1)]
<1> DEFINE S == {[e \in Entries |-> At(e, i - 1)] : i \in 1..(head + 1)}
<1>1. LogNow \in [1..(head + 1) -> S]
  BY DEF LogNow
<1>2. head + 1 \in Nat
  OBVIOUS
<1> HIDE DEF S
<1>3. Len(LogNow) = head + 1
  BY <1>1, <1>2, LengthOf
<1> QED
  BY <1>3 DEF LogNow

\* Every revision that is written is appended.
LEMMA WriteGrows ==
    ASSUME StateInv, NEW new, NEW why \in Reasons, Fits(new), Write(head, new, why)
    PROVE  Log!Grows
<1>1. /\ head \in Nat /\ head' = head + 1 /\ head' \in Nat
      /\ \A e \in Entries : \A r \in 0..head : At(e, r)' = At(e, r)
      /\ \A e \in Entries : At(e, head)' = After(new, e)
  BY WroteTables, ByFacts
<1>2. /\ Len(LogNow) = head + 1
      /\ \A i \in 1..(head + 1) : LogNow[i] = [e \in Entries |-> At(e, i - 1)]
  BY <1>1, LogFacts
<1>3. /\ Len(LogNow') = head' + 1
      /\ \A i \in 1..(head' + 1) : LogNow'[i] = [e \in Entries |-> At(e, i - 1)']
  <2> DEFINE S == {[e \in Entries |-> At(e, i - 1)'] : i \in 1..(head' + 1)}
  <2>1. LogNow' = [i \in 1..(head' + 1) |-> [e \in Entries |-> At(e, i - 1)']]
    BY DEF LogNow
  <2>2. LogNow' \in [1..(head' + 1) -> S]
    BY <2>1
  <2>3. head' + 1 \in Nat
    BY <1>1
  <2> HIDE DEF S
  <2>4. Len(LogNow') = head' + 1
    BY <2>2, <2>3, LengthOf
  <2> QED
    BY <2>1, <2>4
<1>4. ASSUME NEW i \in 1..Len(LogNow) PROVE LogNow'[i] = LogNow[i]
  <2>1. i \in 1..(head + 1) /\ i \in 1..(head' + 1) /\ i - 1 \in 0..head
    BY <1>1, <1>2
  <2>2. [e \in Entries |-> At(e, i - 1)'] = [e \in Entries |-> At(e, i - 1)]
    BY <1>1, <2>1
  <2> QED
    BY <1>2, <1>3, <2>1, <2>2
<1>5. ASSUME NEW e \in Entries, LogNow[Len(LogNow)][e] # NoVersion
      PROVE  LogNow'[Len(LogNow')][e] # NoVersion
  <2>1. LogNow[head + 1] = [x \in Entries |-> At(x, head)]
    BY <1>1, <1>2
  <2>2. LogNow'[head' + 1] = [x \in Entries |-> At(x, head)']
    BY <1>1, <1>3
  <2>3. At(e, head) # NoVersion
    BY <1>2, <1>5, <2>1
  <2>4. After(new, e) # NoVersion
    BY <2>3, ResearchStateAssumption DEF After, Fits
  <2> QED
    BY <1>1, <1>3, <2>2, <2>4
<1>6. Len(LogNow') = Len(LogNow) + 1
  BY <1>1, <1>2, <1>3
<1> QED
  BY <1>4, <1>5, <1>6 DEF Log!Grows, LogNow

\* Nothing but the writing of a revision and the deleting of a paper changes it.
LEMMA LogStays ==
    ASSUME UNCHANGED stateVars PROVE UNCHANGED LogNow
  BY DEF LogNow, At, stateVars

LEMMA BaseStays ==
    ASSUME \A q \in Requests : request'[q].base = request[q].base,
           \A g \in Runs : run'[g].start = run[g].start
    PROVE  UNCHANGED BaseNow
  BY DEF BaseNow

LEMMA DoneStays ==
    ASSUME \A q \in Requests : request'[q].receipt = request[q].receipt,
           \A g \in Runs : run'[g].status = "committed" <=> run[g].status = "committed"
    PROVE  UNCHANGED DoneNow
  BY DEF DoneNow

LEMMA DeleteForgets ==
    ASSUME StateInv, NEW p \in Papers, DeletePaper(p)
    PROVE  Log!Forget(p)
<1>1. /\ head \in Nat /\ head' = head
      /\ \A e \in Entries : \A r \in 0..head : At(e, r)' = Erased(At(e, r), p)
  BY ErasedAt, ByFacts DEF DeletePaper, StateInv
<1>2. /\ Len(LogNow) = head + 1
      /\ \A i \in 1..(head + 1) : LogNow[i] = [e \in Entries |-> At(e, i - 1)]
  BY <1>1, LogFacts
<1>3. \A v : Log!Erased(v, p) = Erased(v, p)
  BY DEF Log!Erased, Erased
<1>4. ASSUME NEW i \in 1..(head + 1)
      PROVE  [e \in Entries |-> At(e, i - 1)'] = [e \in Entries |-> Log!Erased(LogNow[i][e], p)]
  <2>1. i - 1 \in 0..head
    BY <1>1
  <2>2. \A e \in Entries : LogNow[i][e] = At(e, i - 1)
    BY <1>2
  <2> QED
    BY <1>1, <1>3, <2>1, <2>2
<1>5. LogNow' = [i \in 1..(head + 1) |-> [e \in Entries |-> At(e, i - 1)']]
  BY <1>1 DEF LogNow
<1>6. LogNow' = [i \in 1..Len(LogNow) |-> [e \in Entries |-> Log!Erased(LogNow[i][e], p)]]
  BY <1>2, <1>4, <1>5
<1>7. UNCHANGED BaseNow /\ UNCHANGED DoneNow
  BY BaseStays, DoneStays DEF DeletePaper
<1> QED
  BY <1>6, <1>7 DEF Log!Forget, LogNow, BaseNow, DoneNow

LEMMA InitLog ==
    ASSUME Init PROVE Log!Init
<1> USE ResearchStateAssumption
<1>1. head = 0 /\ \A e \in Entries : At(e, 0) = NoVersion
  BY DEF Init, At, LastOf
<1>2. LogNow = [i \in 1..1 |-> [e \in Entries |-> NoVersion]]
  <2>1. \A i \in 1..1 : [e \in Entries |-> At(e, i - 1)] = [e \in Entries |-> NoVersion]
    BY <1>1
  <2> QED
    BY <1>1, <2>1 DEF LogNow
<1>3. LogNow = <<[e \in Entries |-> NoVersion]>>
  BY <1>2
<1>4. BaseNow = [c \in Requests \union Runs |-> Unseen]
  BY DEF Init, BaseNow, NewRequest, NewRun
<1>5. DoneNow = {}
  BY DEF Init, DoneNow, NewRequest, NewRun
<1> QED
  BY <1>3, <1>4, <1>5 DEF Log!Init, LogNow, BaseNow, DoneNow

\* A client that reads the State announces the revision it works from.
LEMMA AnnounceLog ==
    ASSUME head \in Nat, UNCHANGED <<LogNow, DoneNow>>, NEW c \in Requests \union Runs,
           BaseNow[c] = Unseen, BaseNow' = [BaseNow EXCEPT ![c] = head + 1]
    PROVE  Log!Announce(c)
<1>1. Len(LogNow) = head + 1
  BY LogFacts
<1> QED
  BY <1>1 DEF Log!Announce, LogNow, BaseNow, DoneNow

\* A client commits, on the revision it announced, and for the first time.
LEMMA CommitLog ==
    ASSUME head \in Nat, Log!Grows, UNCHANGED BaseNow, NEW c \in Requests \union Runs,
           BaseNow[c] = head + 1, c \notin DoneNow, DoneNow' = DoneNow \union {c}
    PROVE  Log!CommitBy(c)
<1>1. Len(LogNow) = head + 1
  BY LogFacts
<1> QED
  BY <1>1 DEF Log!CommitBy, LogNow, BaseNow, DoneNow

LEMMA RequestLog ==
    ASSUME Inv, NEW q \in Requests, RequestSteps(q)
    PROVE  [Log!Next]_(Log!vars)
<1> USE DEF Inv
<1>1. head \in Nat /\ head # Unseen /\ request[q] \in RequestRows /\ q \notin Runs
  BY ByFacts, ResearchStateAssumption DEF RequestType
<1>2. ASSUME NEW b \in Batches, ComposeUpdate(q, b) PROVE [Log!Next]_(Log!vars)
  <2>1. /\ request'[q].base = head /\ request'[q].receipt = request[q].receipt
        /\ \A c \in Requests : c # q => request'[c] = request[c]
        /\ request[q].base = Unseen /\ run' = run
    BY <1>1, <1>2 DEF ComposeUpdate, OnlyRequest, RequestType, RequestRows
  <2>2. UNCHANGED LogNow
    BY <1>2, LogStays DEF ComposeUpdate, OnlyRequest
  <2>3. \A c \in Requests : request'[c].receipt = request[c].receipt
    BY <2>1
  <2>4. UNCHANGED DoneNow
    BY <2>1, <2>3, DoneStays
  <2>5. BaseNow[q] = Unseen /\ BaseNow' = [BaseNow EXCEPT ![q] = head + 1]
    BY <1>1, <2>1 DEF BaseNow
  <2> QED
    BY <1>1, <2>2, <2>4, <2>5, AnnounceLog DEF Log!Next
<1>3. CASE ApplyUpdate(q)
  <2> DEFINE b == request[q].changes
  <2>1. /\ b \in Batches /\ AdmitsBatch(b)
        /\ Write(head, NewVersions(b), By("agent")) /\ head' = head + 1
        /\ request[q].base = head /\ request[q].receipt = 0 /\ run' = run
    BY <1>3, AppliedBatch DEF ApplyUpdate
  <2> HIDE DEF b
  <2>2. /\ request'[q].base = request[q].base /\ request'[q].receipt = head + 1
        /\ \A c \in Requests : c # q => request'[c] = request[c]
    BY <1>1, <1>3, <2>1 DEF ApplyUpdate, RequestType, RequestRows
  <2>3. Log!Grows
    BY <2>1, BatchFits, ByFacts, WriteGrows
  <2>4. \A c \in Requests : request'[c].base = request[c].base
    BY <2>2
  <2>5. UNCHANGED BaseNow
    BY <2>1, <2>4, BaseStays
  <2>6. BaseNow[q] = head + 1
    BY <1>1, <2>1 DEF BaseNow
  <2>7. q \notin DoneNow /\ DoneNow' = DoneNow \union {q}
    BY <1>1, <2>1, <2>2 DEF DoneNow
  <2> QED
    BY <1>1, <2>3, <2>5, <2>6, <2>7, CommitLog DEF Log!Next
<1>4. ASSUME UNCHANGED stateVars, run' = run,
             \A c \in Requests : request'[c].base = request[c].base
                              /\ request'[c].receipt = request[c].receipt
      PROVE  [Log!Next]_(Log!vars)
  <2>1. UNCHANGED LogNow /\ UNCHANGED BaseNow /\ UNCHANGED DoneNow
    BY <1>4, LogStays, BaseStays, DoneStays
  <2> QED
    BY <2>1 DEF Log!vars, LogNow, BaseNow, DoneNow
<1>5. CASE CallUpdate(q) \/ PrepareUpdate(q) \/ FailPreparation(q) \/ ApplyAgain(q) \/ RefuseUpdate(q)
  <2>1. UNCHANGED stateVars /\ run' = run
    BY <1>5 DEF CallUpdate, PrepareUpdate, FailPreparation, ApplyAgain, RefuseUpdate, OnlyRequest
  <2>2. /\ request'[q].base = request[q].base /\ request'[q].receipt = request[q].receipt
        /\ \A c \in Requests : c # q => request'[c] = request[c]
    <3>1. CASE CallUpdate(q)
      BY <1>1, <3>1 DEF CallUpdate, RequestType, RequestRows
    <3>2. CASE PrepareUpdate(q)
      BY <1>1, <3>2 DEF PrepareUpdate, RequestType, RequestRows
    <3>3. CASE FailPreparation(q)
      BY <1>1, <3>3 DEF FailPreparation, RequestType, RequestRows
    <3>4. CASE ApplyAgain(q)
      BY <1>1, <3>4 DEF ApplyAgain, RequestType, RequestRows
    <3>5. CASE RefuseUpdate(q)
      BY <1>1, <3>5 DEF RefuseUpdate, RequestType, RequestRows
    <3> QED
      BY <1>5, <3>1, <3>2, <3>3, <3>4, <3>5
  <2> QED
    BY <1>4, <2>1, <2>2
<1> QED
  BY <1>2, <1>3, <1>5 DEF RequestSteps

\* A step that neither starts a Run nor commits for one.
LEMMA RunStutters ==
    ASSUME UNCHANGED stateVars, UNCHANGED request,
           \A g \in Runs : /\ run'[g].start = run[g].start
                           /\ run'[g].status = "committed" <=> run[g].status = "committed"
    PROVE  [Log!Next]_(Log!vars)
<1>1. UNCHANGED LogNow /\ UNCHANGED BaseNow /\ UNCHANGED DoneNow
  BY LogStays, BaseStays, DoneStays
<1> QED
  BY <1>1 DEF Log!vars, LogNow, BaseNow, DoneNow

LEMMA RunLog ==
    ASSUME Inv, NEW g \in Runs, RunSteps(g)
    PROVE  [Log!Next]_(Log!vars)
<1> USE DEF Inv, RunInv
<1>1. head \in Nat /\ head # Unseen /\ run[g] \in RunRows /\ g \notin Requests
  BY ByFacts, ResearchStateAssumption DEF RunType
<1>2. CASE StartRun(g)
  <2>1. /\ run'[g].start = head /\ run'[g].status = "working"
        /\ \A h \in Runs : h # g => run'[h] = run[h]
        /\ run[g].start = Unseen /\ run[g].status = "absent" /\ request' = request
    BY <1>1, <1>2 DEF StartRun, OnlyRun, RunType, RunRows, RunFresh
  <2>2. UNCHANGED LogNow
    BY <1>2, LogStays DEF StartRun, OnlyRun
  <2>3. \A h \in Runs : run'[h].status = "committed" <=> run[h].status = "committed"
    BY <2>1
  <2>4. UNCHANGED DoneNow
    BY <2>1, <2>3, DoneStays
  <2>5. BaseNow[g] = Unseen /\ BaseNow' = [BaseNow EXCEPT ![g] = head + 1]
    BY <1>1, <2>1 DEF BaseNow
  <2> QED
    BY <1>1, <2>2, <2>4, <2>5, AnnounceLog DEF Log!Next
<1>3. ASSUME NEW b \in Batches, FinalizeSynthesis(g, b) PROVE [Log!Next]_(Log!vars)
  <2>1. /\ AdmitsBatch(b) /\ Write(head, NewVersions(b), By("run")) /\ head' = head + 1
        /\ run[g].start = head /\ run[g].status = "reconciling" /\ request' = request
    BY <1>3 DEF FinalizeSynthesis, MayFinalize, Write
  <2>2. /\ run'[g].start = run[g].start /\ run'[g].status = "committed"
        /\ \A h \in Runs : h # g => run'[h] = run[h]
    BY <1>1, <1>3 DEF FinalizeSynthesis, End, RunType, RunRows
  <2>3. Log!Grows
    BY <2>1, BatchFits, ByFacts, WriteGrows
  <2>4. \A h \in Runs : run'[h].start = run[h].start
    BY <2>2
  <2>5. UNCHANGED BaseNow
    BY <2>1, <2>4, BaseStays
  <2>6. BaseNow[g] = head + 1
    BY <1>1, <2>1 DEF BaseNow
  <2>7. g \notin DoneNow /\ DoneNow' = DoneNow \union {g}
    BY <1>1, <2>1, <2>2 DEF DoneNow
  <2> QED
    BY <1>1, <2>3, <2>5, <2>6, <2>7, CommitLog DEF Log!Next
<1>4. ASSUME run'[g].start = run[g].start,
             run'[g].status # "committed", run[g].status # "committed",
             \A h \in Runs : h # g => run'[h] = run[h],
             UNCHANGED stateVars, UNCHANGED request
      PROVE  [Log!Next]_(Log!vars)
  BY <1>4, RunStutters
<1>5. CASE BeginSynthesis(g)
  BY <1>1, <1>4, <1>5 DEF BeginSynthesis, OnlyRun, RunType, RunRows
<1>6. CASE SaveSynthesisAttempt(g)
  BY <1>1, <1>4, <1>6 DEF SaveSynthesisAttempt, OnlyRun, RunType, RunRows
<1>7. ASSUME NEW p \in Papers, ReadPassage(g, p) PROVE [Log!Next]_(Log!vars)
  BY <1>1, <1>4, <1>7 DEF ReadPassage, OnlyRun, RunType, RunRows
<1>8. ASSUME NEW p \in Papers, DeliverPassage(g, p) PROVE [Log!Next]_(Log!vars)
  BY <1>1, <1>4, <1>8 DEF DeliverPassage, OnlyRun, RunType, RunRows
<1>9. CASE FinalizeUnchanged(g)
  BY <1>1, <1>4, <1>9 DEF FinalizeUnchanged, MayFinalize, End, OnlyRun, RunType, RunRows
<1>10. CASE FinishRun(g)
  BY <1>1, <1>4, <1>10 DEF FinishRun, End, OnlyRun, RunType, RunRows
<1>11. CASE FailRun(g)
  BY <1>1, <1>4, <1>11 DEF FailRun, End, OnlyRun, RunType, RunRows
<1> QED
  BY <1>2, <1>3, <1>5, <1>6, <1>7, <1>8, <1>9, <1>10, <1>11 DEF RunSteps

LEMMA ResearcherLog ==
    ASSUME Inv, ResearcherSteps
    PROVE  [Log!Next]_(Log!vars)
<1> USE DEF Inv
<1>1. ASSUME NEW new, NEW why \in Reasons, Fits(new), Write(head, new, why),
             UNCHANGED request, UNCHANGED run
      PROVE  [Log!Next]_(Log!vars)
  <2>1. Log!Grows
    BY <1>1, WriteGrows
  <2>2. UNCHANGED BaseNow /\ UNCHANGED DoneNow
    BY <1>1, BaseStays, DoneStays
  <2> QED
    BY <2>1, <2>2 DEF Log!Next, Log!Edit, LogNow, BaseNow, DoneNow
<1>2. ASSUME NEW x \in Entries, NEW v \in VersionRows,
             Write(head, [y \in {x} |-> v], By("researcher")), UNCHANGED request, UNCHANGED run
      PROVE  [Log!Next]_(Log!vars)
  <2> DEFINE new == [y \in {x} |-> v]
  <2>1. DOMAIN new = {x} /\ new[x] = v
    OBVIOUS
  <2>2. Write(head, new, By("researcher"))
    BY <1>2
  <2> HIDE DEF new
  <2>3. Fits(new) /\ By("researcher") \in Reasons
    BY <2>1, ByFacts DEF Fits
  <2> QED
    BY <1>1, <1>2, <2>2, <2>3
<1>3. PICK expected \in 0..MaxRevision :
        \/ \E x \in Entries, d \in Drafts :
            CreateResearchEntry(x, d, expected) \/ ReviseResearchEntry(x, d, expected)
        \/ \E x \in Entries, life \in Reviews : SetResearchEntryLifecycle(x, life, expected)
        \/ \E g \in Runs : RestoreResearchCheckpoint(g, expected)
  BY DEF ResearcherSteps
<1>4. ASSUME NEW x \in Entries, NEW d \in Drafts, CreateResearchEntry(x, d, expected)
      PROVE  [Log!Next]_(Log!vars)
  <2>1. Write(head, [y \in {x} |-> [life |-> "active", draft |-> d]], By("researcher"))
        /\ UNCHANGED request /\ UNCHANGED run
    BY <1>4 DEF CreateResearchEntry
  <2>2. [life |-> "active", draft |-> d] \in VersionRows
    BY ResearchStateAssumption DEF VersionRows, Lives
  <2> QED
    BY <1>2, <2>1, <2>2
<1>5. ASSUME NEW x \in Entries, NEW d \in Drafts, ReviseResearchEntry(x, d, expected)
      PROVE  [Log!Next]_(Log!vars)
  <2>1. /\ At(x, head) # NoVersion
        /\ Write(head, [y \in {x} |-> [life |-> At(x, head).life, draft |-> d]], By("researcher"))
        /\ UNCHANGED request /\ UNCHANGED run
    BY <1>5 DEF ReviseResearchEntry
  <2>2. head \in 0..MaxRevision /\ Tables
    BY ByFacts
  <2>3. At(x, head).life \in Lives
    BY <2>1, <2>2, AtType DEF VersionRows
  <2>4. [life |-> At(x, head).life, draft |-> d] \in VersionRows
    BY <2>3, ResearchStateAssumption DEF VersionRows
  <2> QED
    BY <1>2, <2>1, <2>4
<1>6. ASSUME NEW x \in Entries, NEW life \in Reviews,
             SetResearchEntryLifecycle(x, life, expected)
      PROVE  [Log!Next]_(Log!vars)
  <2>1. /\ At(x, head) # NoVersion
        /\ Write(head, [y \in {x} |-> [life |-> life, draft |-> At(x, head).draft]],
                 By("researcher"))
        /\ UNCHANGED request /\ UNCHANGED run
    BY <1>6 DEF SetResearchEntryLifecycle
  <2>2. x \in ExistAt(head) /\ head \in 0..head /\ life \in Lives
    BY <2>1, ByFacts, ResearchStateAssumption DEF ExistAt
  <2>3. [life |-> life, draft |-> At(x, head).draft] \in VersionRows
    BY <2>2, CopyFacts
  <2> QED
    BY <1>2, <2>1, <2>3
<1>7. ASSUME NEW g \in Runs, RestoreResearchCheckpoint(g, expected)
      PROVE  [Log!Next]_(Log!vars)
  <2>1. run[g] \in RunRows /\ run[g].result # Unseen
    BY <1>7 DEF RunInv, RunType, RestoreResearchCheckpoint
  <2>2. head \in Nat /\ run[g].result \in Nat /\ run[g].result <= head
    BY <2>1, ByFacts DEF RunRows, RunInv, ResultsPast
  <2>3. PICK t \in Nat : run[g].result = t /\ t \in 0..head
    BY <2>2
  <2>4. Write(head, Restored(t), [by |-> "restoration", from |-> t])
        /\ UNCHANGED request /\ UNCHANGED run
    BY <1>7, <2>3 DEF RestoreResearchCheckpoint, Restored
  <2>5. Fits(Restored(t)) /\ [by |-> "restoration", from |-> t] \in Reasons
    BY <2>3, RestoredFits DEF Reasons
  <2> QED
    BY <1>1, <2>4, <2>5
<1> QED
  BY <1>3, <1>4, <1>5, <1>6, <1>7

LEMMA NextLog ==
    ASSUME Inv, [Next]_vars
    PROVE  [Log!Next]_(Log!vars)
<1> USE DEF Inv
<1>1. ASSUME NEW p \in Papers, PaperSteps(p) PROVE [Log!Next]_(Log!vars)
  <2>1. CASE DeletePaper(p)
    BY <2>1, DeleteForgets DEF Log!Next
  <2>2. CASE UNCHANGED stateVars /\ UNCHANGED request /\ UNCHANGED run
    BY <2>2, RunStutters
  <2> QED
    BY <1>1, <2>1, <2>2 DEF PaperSteps, ExtractPaper, AddPaper, RemovePaper
<1>2. CASE Restart
  <2>1. \A q \in Requests : request'[q].base = request[q].base
                         /\ request'[q].receipt = request[q].receipt
    <3>1. \A q \in Requests : request[q] \in RequestRows
      BY DEF RequestType
    <3> QED
      BY <1>2, <3>1 DEF Restart, RequestRows
  <2>2. \A g \in Runs : /\ run'[g].start = run[g].start
                        /\ run'[g].status = "committed" <=> run[g].status = "committed"
    BY <1>2 DEF Restart, NewRun
  <2>3. UNCHANGED LogNow /\ UNCHANGED BaseNow /\ UNCHANGED DoneNow
    BY <1>2, <2>1, <2>2, LogStays, BaseStays, DoneStays DEF Restart
  <2> QED
    BY <2>3 DEF Log!vars, LogNow, BaseNow, DoneNow
<1>3. CASE UNCHANGED vars
  BY <1>3, RunStutters DEF vars
<1> QED
  BY <1>1, <1>2, <1>3, RequestLog, RunLog, ResearcherLog DEF Next

\* The revisions are an append-only log to which a request or a Run commits at most
\* once, and only on the revision it started from (require_current_state_revision).
THEOREM StateImplementsLog == Spec => ImplementsLog
<1>1. Init => Log!Init
  BY InitLog
<1>2. Inv /\ [Next]_vars => [Log!Next]_(Log!vars)
  BY NextLog
<1> QED
  BY <1>1, <1>2, AlwaysInv, PTL DEF Spec, ImplementsLog, Log!Spec
=============================================================================
