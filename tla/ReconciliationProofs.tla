------------------------ MODULE ReconciliationProofs ------------------------
(***************************************************************************)
(* What holds of Reconciliation for any number of batches, refreshes and   *)
(* pairs, and any bounds.                                                  *)
(*                                                                         *)
(* The argument.  The states of the HCM are numbered by edition, and       *)
(* within one life of the HCM a later edition has a later instant and      *)
(* another version (Ordered, VersionsDiffer).  Every row, run, batch in    *)
(* flight and reading in flight stems from an edition that had begun when  *)
(* it was dated (Rows, RunsArePublished, PostsInFlight, Refreshes-         *)
(* InFlight).  So comparing instants, as applyBatch does, compares         *)
(* editions.                                                               *)
(***************************************************************************)
EXTENDS Reconciliation, MockHcmProofs

USE MaxChangesAssumption, SourceVersionsAssumption

BatchBalances == UNION {[K -> Nat] : K \in SUBSET Pairs}
Editions == [version: 0..MaxChanges, effectiveAt: Nat, balances: BatchBalances, edition: Nat]
Posting == [stage: PostStages, batch: Editions, processedAt: Nat]

-----------------------------------------------------------------------------
(* The invariant, part by part.                                            *)

\* ResetBetween, of given editions P.
Separated(P, d, e) == \E s \in P : s.version = 0 /\ (d < s.edition) # (e < s.edition)

\* Instants and versions of the HCM's states.
Ordered ==
    \A s, t \in published :
        s.edition < t.edition => s.effectiveAt <= t.effectiveAt \/ ResetBetween(s.edition, t.edition)
VersionsDiffer ==
    \A s, t \in published :
        s.version = t.version => s.edition = t.edition \/ ResetBetween(s.edition, t.edition)
VersionsBehind ==
    \A s \in published : s.version <= batchSequence \/ ResetBetween(s.edition, edition)

PublishedOK ==
    /\ now \in Nat
    /\ HcmTypeOK
    /\ edition \in 0..MaxChanges
    /\ batchSequence <= edition
    /\ effectiveAt <= now
    /\ published \subseteq Editions
    /\ \A s \in published : s.edition <= edition /\ s.effectiveAt <= now
    /\ \E s \in published : s.edition = edition

\* e is a state of the HCM that had begun at the instant `at`.
BegunBy(e, at) == \E s \in published : s.edition = e /\ s.effectiveAt <= at

KnownVersions == {run.version : run \in runs} \cup {NoVersion}

RunsArePublished ==
    \A run \in runs : \E s \in published : /\ s.version = run.version
                                           /\ s.effectiveAt = run.effectiveAt
                                           /\ s.edition = run.edition

Rows ==
    \A k \in Pairs :
        IF projections[k] = NoProjection THEN asOf[k] = 0
        ELSE /\ projections[k].sourceVersion \in KnownVersions
             /\ BegunBy(asOf[k], projections[k].lastSyncedAt)

TableOK ==
    /\ ProjectionsTypeOK
    /\ asOf \in [Pairs -> 0..edition]
    /\ runs \subseteq Run
    /\ RunsArePublished
    /\ Rows

PostsInFlight ==
    /\ post \in [Posts -> Posting]
    /\ \A p \in Posts :
          /\ IF post[p].stage = "idle" THEN post[p].batch = NoBatch
                                       ELSE post[p].batch \in published
          /\ post[p].stage = "apply" => post[p].batch.effectiveAt <= post[p].processedAt

RefreshesInFlight ==
    /\ refresh \in [Refreshes -> Refreshing]
    /\ \A f \in Refreshes :
          /\ refresh[f].version \in KnownVersions
          /\ refresh[f].stage # "idle" => refresh[f].pair \in Pairs
          /\ refresh[f].stage = "stamp" => BegunBy(refresh[f].reading.edition, now)
          /\ refresh[f].stage = "upsert" =>
                /\ refresh[f].reading.edition <= edition
                /\ BegunBy(refresh[f].reading.edition, refresh[f].reading.lastSyncedAt)

Inv == /\ PublishedOK /\ Ordered /\ VersionsDiffer /\ VersionsBehind
       /\ TableOK /\ PostsInFlight /\ RefreshesInFlight

-----------------------------------------------------------------------------
(* The HCM's side.                                                         *)

(* What the HCM gives as a batch is an edition (getBatchSnapshot).         *)
LEMMA SnapshotTyping ==
    ASSUME HcmTypeOK, NEW e \in Nat, batchSequence <= MaxChanges
    PROVE  EditionOf(Snapshot, e) \in Editions
<1>1. [k \in seeded |-> balances[k]] \in [seeded -> Nat]
    BY DEF HcmTypeOK
<1>2. [k \in seeded |-> balances[k]] \in BatchBalances
    BY <1>1 DEF BatchBalances, HcmTypeOK
<1> QED
    BY <1>2 DEF EditionOf, Snapshot, Editions, HcmTypeOK

(* More states published, and a later edition: resets that separated two   *)
(* editions still do, and what had begun still had.                        *)
LEMMA PublishedGrows ==
    ASSUME published \subseteq published'
    PROVE  /\ \A d, e : Separated(published, d, e) => Separated(published', d, e)
           /\ \A e, at : BegunBy(e, at) => \E s \in published' : s.edition = e /\ s.effectiveAt <= at
    BY DEF Separated, BegunBy

(* Steps that leave the versions and instants of the HCM alone.            *)
LEMMA PublishedStays ==
    ASSUME Inv, HcmTypeOK', now' \in Nat, now <= now',
           UNCHANGED <<published, edition, batchSequence, effectiveAt>>
    PROVE  PublishedOK' /\ Ordered' /\ VersionsDiffer' /\ VersionsBehind'
<1>1. PublishedOK'
    <2>1. \A s \in published : s.edition <= edition /\ s.effectiveAt <= now'
        BY DEF Inv, PublishedOK, Editions
    <2> QED
        BY <2>1 DEF Inv, PublishedOK, HcmTypeOK
<1>2. Ordered' /\ VersionsDiffer' /\ VersionsBehind'
    BY DEF Inv, Ordered, VersionsDiffer, VersionsBehind, ResetBetween
<1> QED
    BY <1>1, <1>2

(* A change of the HCM publishes a new edition (adjustBalance, reset): a   *)
(* reset separates it from every earlier one, and without one its instant  *)
(* is the latest and its version new.                                      *)
LEMMA PublishedChanges ==
    ASSUME Inv, Publish, UNCHANGED now,
           Reset \/ \E k \in Pairs, delta \in Adjustments : AdjustAccepted(k, delta)
    PROVE  PublishedOK' /\ Ordered' /\ VersionsDiffer' /\ VersionsBehind'
<1> DEFINE new == EditionOf(Snapshot', edition')
<1>1. /\ edition' = edition + 1 /\ edition' \in 0..MaxChanges
      /\ published' = published \cup {new}
      /\ now' = now /\ now \in Nat
    BY DEF Publish, Inv, PublishedOK
<1>2. HcmTypeOK'
    BY <1>1, AdjustTyping, ResetTyping DEF Inv, PublishedOK
<1>3. \/ batchSequence' = batchSequence + 1 /\ effectiveAt' = now
      \/ batchSequence' = 0 /\ effectiveAt' = 0
    BY DEF AdjustAccepted, AdvanceBatchVersion, Reset
<1>4. batchSequence' <= edition' /\ effectiveAt' <= now
    BY <1>1, <1>3 DEF Inv, PublishedOK, HcmTypeOK
<1>5. new \in Editions
    <2>1. batchSequence' <= MaxChanges /\ edition' \in Nat
        BY <1>1, <1>2, <1>4 DEF HcmTypeOK
    <2> QED
        BY <1>2, <2>1, SnapshotTyping
        DEF EditionOf, Snapshot, Editions, HcmTypeOK, BatchBalances
<1>6. /\ new.edition = edition' /\ new.version = batchSequence'
      /\ new.effectiveAt = effectiveAt'
    BY DEF EditionOf, Snapshot
<1>7. \A s \in published : /\ s \in Editions
                           /\ s.edition \in Nat /\ s.edition < edition'
                           /\ s.effectiveAt \in Nat /\ s.effectiveAt <= now
                           /\ s.version \in Nat
    BY <1>1 DEF Inv, PublishedOK, Editions
<1>8. PublishedOK'
    BY <1>1, <1>2, <1>4, <1>5, <1>6, <1>7 DEF PublishedOK
<1>9. \A d, e : Separated(published, d, e) => Separated(published', d, e)
    BY <1>1, PublishedGrows
<1>10. ASSUME NEW s \in published
       PROVE  /\ s.effectiveAt <= new.effectiveAt \/ Separated(published', s.edition, new.edition)
              /\ s.version # new.version \/ Separated(published', s.edition, new.edition)
              /\ s.version <= batchSequence' \/ Separated(published', s.edition, edition')
    <2>1. CASE batchSequence' = 0
        <3>1. new \in published' /\ new.version = 0
            BY <1>1, <1>6, <2>1
        <3>2. Separated(published', s.edition, new.edition)
            BY <1>1, <1>6, <1>7, <3>1 DEF Separated
        <3> QED
            BY <1>6, <3>2 DEF Separated
    <2>2. CASE batchSequence' = batchSequence + 1 /\ effectiveAt' = now
        <3>1. CASE s.version <= batchSequence
            BY <1>6, <1>7, <2>2, <3>1 DEF Inv, PublishedOK, HcmTypeOK
        <3>2. CASE Separated(published, s.edition, edition)
            <4>1. PICK x \in published :
                        x.version = 0 /\ (s.edition < x.edition) # (edition < x.edition)
                BY <3>2 DEF Separated
            <4>2. x.edition <= edition /\ x.edition \in Nat /\ edition \in Nat
                BY <4>1, <1>7 DEF Inv, PublishedOK
            <4>3. x \in published' /\ (s.edition < x.edition) # (edition' < x.edition)
                BY <1>1, <1>7, <4>1, <4>2
            <4>4. Separated(published', s.edition, new.edition)
                BY <1>6, <4>1, <4>3 DEF Separated
            <4> QED
                BY <1>6, <4>4 DEF Separated
        <3> QED
            BY <3>1, <3>2 DEF Inv, VersionsBehind, ResetBetween, Separated
    <2> QED
        BY <1>3, <2>1, <2>2
<1>11. Ordered'
    <2> SUFFICES ASSUME NEW s \in published', NEW t \in published', s.edition < t.edition
                 PROVE  s.effectiveAt <= t.effectiveAt \/ Separated(published', s.edition, t.edition)
        BY DEF Ordered, ResetBetween, Separated
    <2>1. CASE s \in published /\ t \in published
        <3>1. s.effectiveAt <= t.effectiveAt \/ Separated(published, s.edition, t.edition)
            BY <2>1 DEF Inv, Ordered, ResetBetween, Separated
        <3> QED
            BY <1>9, <3>1
    <2>2. CASE s \in published /\ t = new
        BY <1>10, <2>2
    <2>3. CASE s = new
        BY <1>1, <1>6, <1>7, <2>3
    <2> QED
        BY <1>1, <2>1, <2>2, <2>3
<1>12. VersionsDiffer'
    <2> SUFFICES ASSUME NEW s \in published', NEW t \in published', s.version = t.version
                 PROVE  s.edition = t.edition \/ Separated(published', s.edition, t.edition)
        BY DEF VersionsDiffer, ResetBetween, Separated
    <2>1. CASE s \in published /\ t \in published
        <3>1. s.edition = t.edition \/ Separated(published, s.edition, t.edition)
            BY <2>1 DEF Inv, VersionsDiffer, ResetBetween, Separated
        <3> QED
            BY <1>9, <3>1
    <2>2. CASE s \in published /\ t = new
        BY <1>10, <2>2
    <2>3. CASE s = new /\ t \in published
        <3>1. Separated(published', t.edition, s.edition)
            BY <1>10, <2>3
        <3> QED
            BY <3>1 DEF Separated
    <2> QED
        BY <1>1, <2>1, <2>2, <2>3
<1>13. VersionsBehind'
    <2> SUFFICES ASSUME NEW s \in published'
                 PROVE  s.version <= batchSequence' \/ Separated(published', s.edition, edition')
        BY DEF VersionsBehind, ResetBetween, Separated
    <2>1. CASE s \in published
        <3>1. s.version <= batchSequence' \/ Separated(published', s.edition, edition')
            BY <1>10, <2>1
        <3> QED
            BY <3>1
    <2>2. CASE s = new
        <3>1. batchSequence' \in Nat
            BY <1>2 DEF HcmTypeOK
        <3>2. s.version <= batchSequence'
            BY <1>6, <2>2, <3>1
        <3> QED
            BY <3>2
    <2> QED
        BY <1>1, <2>1, <2>2
<1> QED
    BY <1>8, <1>11, <1>12, <1>13

-----------------------------------------------------------------------------
(* The calls in flight.                                                    *)

(* Calls that are not in flight are well typed.                            *)
LEMMA IdleTyping == IdlePost \in Posting /\ IdleRefresh \in Refreshing
<1>1. [k \in {} |-> 0] \in BatchBalances
    <2>1. [k \in {} |-> 0] \in [{} -> Nat]
        OBVIOUS
    <2> QED
        BY <2>1 DEF BatchBalances
<1>2. NoBatch \in Editions
    BY <1>1 DEF NoBatch, Editions
<1> QED
    BY <1>2 DEF IdlePost, Posting, PostStages, IdleRefresh, Refreshing,
                RefreshStages, HcmReading, NoReading

(* A step that leaves the posts alone and forgets no snapshot.             *)
LEMMA PostsStay ==
    ASSUME PostsInFlight, UNCHANGED post, published \subseteq published'
    PROVE  PostsInFlight'
    BY DEF PostsInFlight

(* A post ends.                                                            *)
LEMMA PostAnswered ==
    ASSUME PostsInFlight, NEW p \in Posts, NEW from, AnswerPost(p, from),
           published \subseteq published'
    PROVE  PostsInFlight'
<1>1. IdlePost \in Posting /\ IdlePost.stage = "idle" /\ IdlePost.batch = NoBatch
    BY IdleTyping DEF IdlePost
<1> QED
    BY <1>1 DEF PostsInFlight, AnswerPost

(* A post goes on to its next read.                                        *)
LEMMA PostAdvances ==
    ASSUME PostsInFlight, NEW p \in Posts, NEW from \in PostStages \ {"idle"},
           NEW to \in PostStages \ {"idle", "apply"}, ToStage(p, from, to), UNCHANGED published
    PROVE  PostsInFlight'
    BY DEF PostsInFlight, ToStage, Posting

(* A step that leaves the refreshes alone and forgets no run or snapshot.  *)
LEMMA RefreshesStay ==
    ASSUME RefreshesInFlight, UNCHANGED refresh, published \subseteq published',
           runs \subseteq runs', now \in Nat, now' \in Nat, now <= now',
           edition \in Nat, edition' \in Nat, edition <= edition',
           published \subseteq Editions
    PROVE  RefreshesInFlight'
<1> SUFFICES ASSUME NEW f \in Refreshes
             PROVE  /\ refresh'[f].version \in KnownVersions'
                    /\ refresh'[f].stage # "idle" => refresh'[f].pair \in Pairs
                    /\ refresh'[f].stage = "stamp" => BegunBy(refresh[f].reading.edition, now)'
                    /\ refresh'[f].stage = "upsert" =>
                          /\ refresh'[f].reading.edition <= edition'
                          /\ BegunBy(refresh[f].reading.edition, refresh[f].reading.lastSyncedAt)'
    BY DEF RefreshesInFlight
<1>1. refresh[f] \in Refreshing /\ refresh'[f] = refresh[f]
    BY DEF RefreshesInFlight
<1>2. refresh'[f].version \in KnownVersions'
    BY <1>1 DEF RefreshesInFlight, KnownVersions
<1>3. refresh'[f].stage = "stamp" => BegunBy(refresh[f].reading.edition, now)'
    BY <1>1 DEF RefreshesInFlight, BegunBy, Editions
<1>4. refresh'[f].stage = "upsert" =>
          /\ refresh'[f].reading.edition <= edition'
          /\ BegunBy(refresh[f].reading.edition, refresh[f].reading.lastSyncedAt)'
    BY <1>1 DEF RefreshesInFlight, BegunBy, Refreshing, HcmReading
<1> QED
    BY <1>1, <1>2, <1>3, <1>4 DEF RefreshesInFlight

(* A refresh ends.                                                         *)
LEMMA RefreshAnswered ==
    ASSUME RefreshesInFlight, NEW f \in Refreshes, NEW from, AnswerRefresh(f, from),
           UNCHANGED <<published, runs, now, edition>>
    PROVE  RefreshesInFlight'
<1>1. /\ IdleRefresh.stage = "idle" /\ IdleRefresh.version = NoVersion
      /\ IdleRefresh \in Refreshing
    BY IdleTyping DEF IdleRefresh
<1> QED
    BY <1>1 DEF RefreshesInFlight, AnswerRefresh, KnownVersions, BegunBy

-----------------------------------------------------------------------------
(* The table.                                                              *)

(* A step that leaves the table and the runs alone.                        *)
LEMMA TableStays ==
    ASSUME TableOK, UNCHANGED <<projections, asOf, runs>>, published \subseteq published',
           edition \in Nat, edition' \in Nat, edition <= edition'
    PROVE  TableOK'
<1>1. asOf' \in [Pairs -> 0..edition']
    BY DEF TableOK
<1>2. RunsArePublished'
    BY DEF TableOK, RunsArePublished
<1>3. Rows'
    BY DEF TableOK, Rows, KnownVersions, BegunBy
<1> QED
    BY <1>1, <1>2, <1>3 DEF TableOK, ProjectionsTypeOK

(* One row is replaced by a reading of a state that had begun.             *)
LEMMA RowReplaced ==
    ASSUME TableOK, edition \in Nat, UNCHANGED <<runs, published, edition>>,
           NEW k \in Pairs, NEW row \in Projection, NEW e \in 0..edition,
           row.sourceVersion \in KnownVersions, BegunBy(e, row.lastSyncedAt),
           projections' = [projections EXCEPT ![k] = row], asOf' = [asOf EXCEPT ![k] = e]
    PROVE  TableOK'
<1>1. ProjectionsTypeOK' /\ asOf' \in [Pairs -> 0..edition']
    BY DEF TableOK, ProjectionsTypeOK
<1>2. RunsArePublished'
    BY DEF TableOK, RunsArePublished
<1>3. row # NoProjection
    BY NoProjectionAssumption
<1>4. Rows'
    BY <1>3 DEF TableOK, Rows, KnownVersions, BegunBy, ProjectionsTypeOK
<1> QED
    BY <1>1, <1>2, <1>4 DEF TableOK

(* A batch replaces the rows it names and leaves the others (applyBatch).  *)
LEMMA BatchApplied ==
    ASSUME Inv, NEW p \in Posts, ApplyBatch(p)
    PROVE  TableOK'
<1> DEFINE b == post[p].batch
           at == post[p].processedAt
           reading(k) == [availableDays |-> b.balances[k], lastSyncedAt |-> at]
           new == [version |-> b.version, effectiveAt |-> b.effectiveAt,
                   completedAt |-> at, edition |-> b.edition]
<1>1. /\ b \in published /\ b \in Editions /\ at \in Nat
      /\ b.effectiveAt <= at /\ b.edition \in 0..edition
    BY DEF Inv, PostsInFlight, Posting, ApplyBatch, AnswerPost, PublishedOK, Editions
<1>2. runs' = runs \cup {new} /\ new \in Run /\ UNCHANGED <<published, edition>>
    BY <1>1 DEF ApplyBatch, RunsWith, Run, Editions
<1>3. /\ projections' = [k \in Pairs |-> IF k \in DOMAIN b.balances
                                         THEN Row(reading(k), b.version) ELSE projections[k]]
      /\ asOf' = [k \in Pairs |-> IF k \in DOMAIN b.balances THEN b.edition ELSE asOf[k]]
    BY DEF ApplyBatch
<1>4. ASSUME NEW k \in DOMAIN b.balances
      PROVE  /\ Row(reading(k), b.version) \in Projection
             /\ Row(reading(k), b.version).sourceVersion = b.version
             /\ Row(reading(k), b.version).lastSyncedAt = at
    <2>1. b.balances[k] \in Nat
        BY <1>1 DEF Editions, BatchBalances
    <2> QED
        BY <1>1, <2>1 DEF Row, Projection, Editions
<1>5. ProjectionsTypeOK'
    BY <1>3, <1>4 DEF ProjectionsTypeOK, Inv, TableOK
<1>6. asOf' \in [Pairs -> 0..edition']
    BY <1>1, <1>2, <1>3 DEF Inv, TableOK
<1>7. runs' \subseteq Run /\ RunsArePublished'
    BY <1>1, <1>2 DEF Inv, TableOK, RunsArePublished
<1>8. Rows'
    <2> SUFFICES ASSUME NEW k \in Pairs
                 PROVE  IF projections'[k] = NoProjection THEN asOf'[k] = 0
                        ELSE /\ projections'[k].sourceVersion \in KnownVersions'
                             /\ \E s \in published : /\ s.edition = asOf'[k]
                                                     /\ s.effectiveAt <= projections'[k].lastSyncedAt
        BY <1>2 DEF Rows, BegunBy
    <2>1. CASE k \in DOMAIN b.balances
        <3>1. projections'[k] # NoProjection
            BY <1>3, <1>4, <2>1, NoProjectionAssumption
        <3>2. b.version \in KnownVersions'
            BY <1>2 DEF KnownVersions
        <3> QED
            BY <1>1, <1>3, <1>4, <2>1, <3>1, <3>2
    <2>2. CASE k \notin DOMAIN b.balances
        <3>1. projections'[k] = projections[k] /\ asOf'[k] = asOf[k]
            BY <1>3, <2>2
        <3>2. KnownVersions \subseteq KnownVersions'
            BY <1>2 DEF KnownVersions
        <3> QED
            BY <3>1, <3>2 DEF Inv, TableOK, Rows, BegunBy
    <2> QED
        BY <2>1, <2>2
<1> QED
    BY <1>5, <1>6, <1>7, <1>8 DEF TableOK

-----------------------------------------------------------------------------
(* The invariant is inductive.                                             *)

(* The invariant holds at the start.                                       *)
LEMMA InitInv == Init => Inv
<1> SUFFICES ASSUME Init PROVE Inv
    OBVIOUS
<1> DEFINE s0 == EditionOf(Snapshot, 0)
<1>1. HcmTypeOK /\ batchSequence = 0 /\ effectiveAt = 0
    BY HcmInitTyping DEF Init, HcmInit
<1>2. /\ s0 \in Editions /\ s0.version = 0 /\ s0.effectiveAt = 0 /\ s0.edition = 0
      /\ published = {s0} /\ edition = 0 /\ now = 0 /\ runs = {}
    BY <1>1, SnapshotTyping DEF Init, EditionOf, Snapshot
<1>3. PublishedOK /\ Ordered /\ VersionsDiffer /\ VersionsBehind
    BY <1>1, <1>2 DEF PublishedOK, Ordered, VersionsDiffer, VersionsBehind
<1>4. TableOK
    BY <1>2 DEF Init, TableOK, ProjectionsTypeOK, RunsArePublished, Rows
<1>5. PostsInFlight
    BY IdleTyping DEF Init, PostsInFlight, IdlePost
<1>6. RefreshesInFlight
    BY IdleTyping DEF Init, RefreshesInFlight, IdleRefresh, KnownVersions
<1> QED
    BY <1>3, <1>4, <1>5, <1>6 DEF Inv

(* Steps of posts that leave all else alone.                               *)
LEMMA OnlyPosts ==
    ASSUME Inv, PostsInFlight',
           UNCHANGED <<now, hcmVars, projections, runs, published, refresh, edition, asOf>>
    PROVE  Inv'
<1>1. now \in Nat /\ edition \in Nat /\ published \subseteq Editions
    BY DEF Inv, PublishedOK
<1>2. HcmTypeOK' /\ UNCHANGED <<batchSequence, effectiveAt>>
    BY HcmUnchangedTyping DEF Inv, PublishedOK, hcmVars
<1>3. PublishedOK' /\ Ordered' /\ VersionsDiffer' /\ VersionsBehind'
    BY <1>1, <1>2, PublishedStays
<1>4. TableOK'
    BY <1>1, TableStays DEF Inv
<1>5. RefreshesInFlight'
    BY <1>1, RefreshesStay DEF Inv
<1> QED
    BY <1>3, <1>4, <1>5 DEF Inv

(* Steps of refreshes that leave the tables alone; the HCM may consume a   *)
(* queued failure.                                                         *)
LEMMA OnlyRefreshes ==
    ASSUME Inv, RefreshesInFlight', HcmTypeOK',
           UNCHANGED <<now, batchSequence, effectiveAt, projections, runs, published, post,
                       edition, asOf>>
    PROVE  Inv'
<1>1. now \in Nat /\ edition \in Nat
    BY DEF Inv, PublishedOK
<1>2. PublishedOK' /\ Ordered' /\ VersionsDiffer' /\ VersionsBehind'
    BY <1>1, PublishedStays
<1>3. TableOK'
    BY <1>1, TableStays DEF Inv
<1>4. PostsInFlight'
    BY PostsStay DEF Inv
<1> QED
    BY <1>2, <1>3, <1>4 DEF Inv

(* A step of a post (reconcileBatch, applyBatch).                          *)
LEMMA PostStep ==
    ASSUME Inv, NEW p \in Posts, Reconcile(p) \/ PostDuplicateRows(p)
                                              \/ \E b \in published : PostBatch(p, b)
    PROVE  Inv'
<1>1. PostsInFlight
    BY DEF Inv
<1>2. {"findRun", "findLatest", "apply", "reread"} \subseteq PostStages \ {"idle"}
      /\ {"findLatest", "reread"} \subseteq PostStages \ {"idle", "apply"}
    BY DEF PostStages
<1>3. now \in Nat /\ edition \in Nat /\ published \subseteq Editions
    BY DEF Inv, PublishedOK
<1>a. CASE \E b \in published : PostBatch(p, b)
    <2>1. PICK b \in published : PostBatch(p, b)
        BY <1>a
    <2>2. [IdlePost EXCEPT !.stage = "findRun", !.batch = b] \in Posting
        BY <1>3, <2>1, IdleTyping DEF Posting, IdlePost, PostStages
    <2>3. PostsInFlight'
        BY <1>1, <2>1, <2>2 DEF PostBatch, PostsInFlight, IdlePost
    <2> QED
        BY <2>1, <2>3, OnlyPosts DEF PostBatch
<1>b. CASE PostDuplicateRows(p)
    BY <1>1, <1>b, PostAnswered, OnlyPosts DEF PostDuplicateRows
<1>c. CASE FindRun(p)
    <2>1. PostsInFlight'
        BY <1>1, <1>2, <1>c, PostAnswered, PostAdvances DEF FindRun
    <2> QED
        BY <1>c, <2>1, OnlyPosts DEF FindRun
<1>d. CASE FindLatest(p)
    <2>1. CASE AnswerPost(p, "findLatest")
        BY <1>1, <1>d, <2>1, PostAnswered, OnlyPosts DEF FindLatest
    <2>2. CASE /\ post[p].stage = "findLatest"
               /\ post' = [post EXCEPT ![p].stage = "apply", ![p].processedAt = now]
        <3>1. post[p] \in Posting /\ post[p].batch \in published
            BY <1>1, <2>2 DEF PostsInFlight
        <3>2. post[p].batch.effectiveAt <= now
            BY <3>1 DEF Inv, PublishedOK
        <3>3. PostsInFlight'
            BY <1>1, <1>2, <1>3, <1>d, <2>2, <3>1, <3>2 DEF PostsInFlight, Posting, FindLatest
        <3> QED
            BY <1>d, <3>3, OnlyPosts DEF FindLatest
    <2> QED
        BY <1>d, <2>1, <2>2 DEF FindLatest
<1>e. CASE ApplyBatch(p)
    <2>1. TableOK'
        BY <1>e, BatchApplied
    <2>2. PostsInFlight'
        BY <1>1, <1>e, PostAnswered DEF ApplyBatch
    <2>3. HcmTypeOK' /\ UNCHANGED <<batchSequence, effectiveAt>>
        BY <1>e, HcmUnchangedTyping DEF Inv, PublishedOK, hcmVars, ApplyBatch
    <2>4. PublishedOK' /\ Ordered' /\ VersionsDiffer' /\ VersionsBehind'
        BY <1>3, <1>e, <2>3, PublishedStays DEF ApplyBatch
    <2>5. RefreshesInFlight'
        BY <1>3, <1>e, RefreshesStay DEF ApplyBatch, RunsWith, Inv
    <2> QED
        BY <2>1, <2>2, <2>4, <2>5 DEF Inv
<1>f. CASE RefuseBatch(p)
    <2>1. PostsInFlight'
        BY <1>1, <1>2, <1>f, PostAnswered, PostAdvances DEF RefuseBatch
    <2> QED
        BY <1>f, <2>1, OnlyPosts DEF RefuseBatch
<1>g. CASE RereadRun(p)
    <2>1. PostsInFlight'
        BY <1>1, <1>g, PostAnswered DEF RereadRun
    <2> QED
        BY <1>g, <2>1, OnlyPosts DEF RereadRun
<1> QED
    BY <1>a, <1>b, <1>c, <1>d, <1>e, <1>f, <1>g DEF Reconcile

(* A step of a refresh (refreshBalance).                                   *)
LEMMA RefreshStep ==
    ASSUME Inv, NEW f \in Refreshes, ServeRefresh(f) \/ \E k \in Pairs : RefreshBalance(f, k)
    PROVE  Inv'
<1>1. /\ now \in Nat /\ edition \in Nat /\ published \subseteq Editions /\ HcmTypeOK
      /\ RefreshesInFlight /\ refresh[f] \in Refreshing
    BY DEF Inv, PublishedOK, RefreshesInFlight
<1>a. CASE \E k \in Pairs : RefreshBalance(f, k)
    <2>1. PICK k \in Pairs : RefreshBalance(f, k)
        BY <1>a
    <2>2. VersionOf(projections[k]) \in KnownVersions /\
          VersionOf(projections[k]) \in SourceVersions \cup {NoVersion}
        BY NoProjectionAssumption
        DEF VersionOf, Inv, TableOK, Rows, KnownVersions, ProjectionsTypeOK, Projection
    <2>3. [IdleRefresh EXCEPT !.stage = "getBalance", !.pair = k,
                              !.version = VersionOf(projections[k])] \in Refreshing
        BY <2>2, IdleTyping DEF Refreshing, IdleRefresh, RefreshStages
    <2>4. RefreshesInFlight'
        BY <1>1, <2>1, <2>2, <2>3
        DEF RefreshBalance, RefreshesInFlight, IdleRefresh, KnownVersions, BegunBy
    <2>5. HcmTypeOK'
        BY <1>1, <2>1, HcmUnchangedTyping DEF RefreshBalance
    <2> QED
        BY <2>1, <2>4, <2>5, OnlyRefreshes DEF RefreshBalance, hcmVars
<1>b. CASE RefreshFromHcm(f)
    <2> DEFINE k == refresh[f].pair
    <2>1. HcmTypeOK' /\ UNCHANGED <<batchSequence, effectiveAt>>
        BY <1>1, <1>b, HcmUnchangedTyping, FailureTyping
        DEF RefreshFromHcm, GetBalanceFound, GetBalanceUnknown, GetBalanceUnavailable,
            ConsumeTransientFailure, Operations, hcmVars
    <2>2. CASE AnswerRefresh(f, "getBalance")
        BY <1>1, <1>b, <2>1, <2>2, RefreshAnswered, OnlyRefreshes DEF RefreshFromHcm
    <2>3. CASE /\ refresh[f].stage = "getBalance"
               /\ refresh' = [refresh EXCEPT
                    ![f].stage = "stamp",
                    ![f].reading = [availableDays |-> balances[k], lastSyncedAt |-> 0,
                                    edition |-> edition]]
        <3>1. balances[k] \in Nat
            BY <1>1, <2>3 DEF RefreshesInFlight, HcmTypeOK
        <3>2. refresh'[f] \in Refreshing
            BY <1>1, <2>3, <3>1 DEF RefreshesInFlight, Refreshing, HcmReading, RefreshStages
        <3>3. BegunBy(edition, now)
            BY DEF BegunBy, Inv, PublishedOK
        <3>4. RefreshesInFlight'
            BY <1>1, <1>b, <2>3, <3>2, <3>3
            DEF RefreshesInFlight, RefreshFromHcm, KnownVersions, BegunBy, Refreshing
        <3> QED
            BY <1>b, <2>1, <3>4, OnlyRefreshes DEF RefreshFromHcm
    <2> QED
        BY <1>b, <2>2, <2>3 DEF RefreshFromHcm
<1>c. CASE StampReading(f)
    <2>1. refresh'[f] \in Refreshing
        BY <1>1, <1>c DEF StampReading, RefreshesInFlight, Refreshing, HcmReading, RefreshStages
    <2>2. refresh[f].reading.edition <= edition /\ BegunBy(refresh[f].reading.edition, now)
        BY <1>1, <1>c DEF StampReading, RefreshesInFlight, BegunBy, Inv, PublishedOK
    <2>3. RefreshesInFlight'
        BY <1>1, <1>c, <2>1, <2>2
        DEF RefreshesInFlight, StampReading, KnownVersions, BegunBy, Refreshing, HcmReading
    <2>4. HcmTypeOK'
        BY <1>1, <1>c, HcmUnchangedTyping DEF StampReading
    <2> QED
        BY <1>c, <2>3, <2>4, OnlyRefreshes DEF StampReading, hcmVars
<1>d. CASE UpsertProjection(f)
    <2> DEFINE k == refresh[f].pair
               reading == refresh[f].reading
               row == Row(reading, refresh[f].version)
    <2>1. /\ k \in Pairs /\ reading.edition \in 0..edition
          /\ BegunBy(reading.edition, reading.lastSyncedAt)
          /\ refresh[f].version \in KnownVersions
        BY <1>1, <1>d
        DEF UpsertProjection, AnswerRefresh, RefreshesInFlight, Refreshing, HcmReading
    <2>2. /\ row \in Projection /\ row.sourceVersion = refresh[f].version
          /\ row.lastSyncedAt = reading.lastSyncedAt
        BY <1>1 DEF Row, Projection, Refreshing, HcmReading
    <2>3. TableOK'
        <3>1. TableOK
            BY DEF Inv
        <3>2. /\ projections' = [projections EXCEPT ![k] = row]
              /\ asOf' = [asOf EXCEPT ![k] = reading.edition]
              /\ UNCHANGED <<runs, published, edition>>
            BY <1>d DEF UpsertProjection
        <3> HIDE DEF row
        <3> QED
            BY <1>1, <2>1, <2>2, <3>1, <3>2, RowReplaced
    <2>4. HcmTypeOK' /\ UNCHANGED <<batchSequence, effectiveAt>>
        BY <1>1, <1>d, HcmUnchangedTyping DEF UpsertProjection, hcmVars
    <2>5. PublishedOK' /\ Ordered' /\ VersionsDiffer' /\ VersionsBehind'
        BY <1>1, <1>d, <2>4, PublishedStays DEF UpsertProjection
    <2>6. PostsInFlight'
        BY <1>d, PostsStay DEF UpsertProjection, Inv
    <2>7. RefreshesInFlight'
        BY <1>1, <1>d, RefreshAnswered DEF UpsertProjection
    <2> QED
        BY <2>3, <2>5, <2>6, <2>7 DEF Inv
<1> QED
    BY <1>a, <1>b, <1>c, <1>d DEF ServeRefresh

(* A failure, a crash, a change of the HCM or of the clock.                *)
LEMMA OutsideStep ==
    ASSUME Inv, StatementFails \/ ProcessDies \/ HcmAdjusts \/ HcmReset \/ HcmWillFail \/ TimePasses
    PROVE  Inv'
<1>1. /\ now \in Nat /\ edition \in Nat /\ published \subseteq Editions /\ HcmTypeOK
      /\ PostsInFlight /\ RefreshesInFlight /\ TableOK
    BY DEF Inv, PublishedOK
<1>a. CASE StatementFails
    <2>1. CASE \E p \in Posts : /\ AnswerPost(p, post[p].stage)
                                /\ UNCHANGED refresh
        <3>1. PostsInFlight'
            BY <1>1, <1>a, <2>1, PostAnswered DEF StatementFails
        <3> QED
            BY <1>a, <2>1, <3>1, OnlyPosts DEF StatementFails
    <2>2. CASE \E f \in Refreshes : /\ AnswerRefresh(f, "upsert")
                                    /\ UNCHANGED post
        <3>1. RefreshesInFlight'
            BY <1>1, <1>a, <2>2, RefreshAnswered DEF StatementFails
        <3>2. HcmTypeOK' /\ UNCHANGED <<batchSequence, effectiveAt>>
            BY <1>1, <1>a, HcmUnchangedTyping DEF StatementFails, hcmVars
        <3> QED
            BY <1>a, <2>2, <3>1, <3>2, OnlyRefreshes DEF StatementFails
    <2> QED
        BY <1>a, <2>1, <2>2 DEF StatementFails
<1>b. CASE ProcessDies
    <2>1. PostsInFlight' /\ RefreshesInFlight'
        BY <1>b, IdleTyping
        DEF ProcessDies, PostsInFlight, RefreshesInFlight, IdlePost, IdleRefresh, KnownVersions
    <2>2. ASSUME Reset, Publish
          PROVE  PublishedOK' /\ Ordered' /\ VersionsDiffer' /\ VersionsBehind'
        BY <1>b, <2>2, PublishedChanges DEF ProcessDies
    <2>3. ASSUME UNCHANGED <<hcmVars, published, edition>>
          PROVE  PublishedOK' /\ Ordered' /\ VersionsDiffer' /\ VersionsBehind'
        <3>1. HcmTypeOK' /\ UNCHANGED <<batchSequence, effectiveAt>>
            BY <1>1, <2>3, HcmUnchangedTyping DEF hcmVars
        <3> QED
            BY <1>1, <1>b, <2>3, <3>1, PublishedStays DEF ProcessDies
    <2>4. PublishedOK' /\ Ordered' /\ VersionsDiffer' /\ VersionsBehind'
        BY <1>b, <2>2, <2>3 DEF ProcessDies
    <2>5. published \subseteq published' /\ edition' \in Nat /\ edition <= edition'
        BY <1>1, <1>b DEF ProcessDies, Publish
    <2>6. TableOK'
        BY <1>1, <1>b, <2>5, TableStays DEF ProcessDies
    <2> QED
        BY <2>1, <2>4, <2>6 DEF Inv
<1>c. CASE HcmAdjusts \/ HcmReset
    <2>1. /\ published \subseteq published' /\ edition' = edition + 1
          /\ UNCHANGED <<now, serviceVars>>
        BY <1>c DEF HcmAdjusts, HcmReset, NewEdition, Publish
    <2>2. PublishedOK' /\ Ordered' /\ VersionsDiffer' /\ VersionsBehind'
        BY <1>c, PublishedChanges DEF HcmAdjusts, HcmReset, NewEdition
    <2>3. TableOK'
        BY <1>1, <2>1, TableStays DEF serviceVars
    <2>4. PostsInFlight'
        BY <1>1, <2>1, PostsStay DEF serviceVars
    <2>5. RefreshesInFlight'
        BY <1>1, <2>1, RefreshesStay DEF serviceVars
    <2> QED
        BY <2>2, <2>3, <2>4, <2>5 DEF Inv
<1>d. CASE HcmWillFail
    <2>1. HcmTypeOK' /\ UNCHANGED <<batchSequence, effectiveAt>>
        BY <1>1, <1>d, FailureTyping DEF HcmWillFail, ScheduleTransientFailure, Operations
    <2>2. RefreshesInFlight'
        BY <1>1, <1>d, RefreshesStay DEF HcmWillFail, serviceVars
    <2> QED
        BY <1>d, <2>1, <2>2, OnlyRefreshes DEF HcmWillFail, serviceVars
<1>e. CASE TimePasses
    <2>1. /\ now' = now + 1 /\ UNCHANGED <<serviceVars, published, edition, hcmVars>>
        BY <1>e DEF TimePasses, Tick
    <2>2. HcmTypeOK' /\ UNCHANGED <<batchSequence, effectiveAt>>
        BY <1>1, <2>1, HcmUnchangedTyping DEF hcmVars
    <2>3. PublishedOK' /\ Ordered' /\ VersionsDiffer' /\ VersionsBehind'
        BY <1>1, <2>1, <2>2, PublishedStays
    <2>4. TableOK'
        BY <1>1, <2>1, TableStays DEF serviceVars
    <2>5. PostsInFlight'
        BY <1>1, <2>1, PostsStay DEF serviceVars
    <2>6. RefreshesInFlight'
        BY <1>1, <2>1, RefreshesStay DEF serviceVars
    <2> QED
        BY <2>3, <2>4, <2>5, <2>6 DEF Inv
<1> QED
    BY <1>a, <1>b, <1>c, <1>d, <1>e

(* The invariant is kept by every step.                                    *)
LEMMA NextInv == Inv /\ [Next]_reconVars => Inv'
<1> SUFFICES ASSUME Inv, [Next]_reconVars PROVE Inv'
    OBVIOUS
<1>1. CASE UNCHANGED reconVars
    <2>1. PostsInFlight'
        BY <1>1, PostsStay DEF Inv, reconVars
    <2> QED
        BY <1>1, <2>1, OnlyPosts DEF reconVars
<1>2. CASE Next
    BY <1>2, PostStep, RefreshStep, OutsideStep DEF Next, Proceed
<1> QED
    BY <1>1, <1>2

(* The invariant always holds.                                             *)
LEMMA Invariance == Spec => []Inv
    BY InitInv, NextInv, PTL DEF Spec

-----------------------------------------------------------------------------
(* The theorems.                                                           *)

(* The faults are counted.                                                 *)
LEMMA FaultsCounted == Spec => [](faults \in Nat)
<1> DEFINE Counted == faults \in Nat
<1>1. Init => Counted
    BY DEF Init
<1>2. ASSUME Counted, [Next]_reconVars
      PROVE  Counted'
    <2>1. ASSUME NEW p \in Posts, \/ \E b \in published : PostBatch(p, b)
                                  \/ PostDuplicateRows(p) \/ Reconcile(p)
          PROVE  faults' = faults
        BY <2>1 DEF PostBatch, PostDuplicateRows, Reconcile, FindRun, FindLatest,
                    ApplyBatch, RefuseBatch, RereadRun
    <2>2. ASSUME NEW f \in Refreshes,
                 ServeRefresh(f) \/ \E k \in Pairs : RefreshBalance(f, k)
          PROVE  faults' = faults
        BY <2>2 DEF ServeRefresh, RefreshBalance, RefreshFromHcm, StampReading,
                    UpsertProjection
    <2>3. StatementFails \/ ProcessDies \/ HcmReset \/ HcmWillFail => faults' = faults + 1
        BY DEF StatementFails, ProcessDies, HcmReset, HcmWillFail
    <2>4. HcmAdjusts \/ TimePasses \/ UNCHANGED reconVars => faults' = faults
        BY DEF HcmAdjusts, TimePasses, reconVars
    <2> QED
        BY <1>2, <2>1, <2>2, <2>3, <2>4 DEF Next, Proceed
<1>3. Counted /\ [Next]_reconVars => Counted'
    BY <1>2
<1> QED
    BY <1>1, <1>3, PTL DEF Spec

(* Every variable keeps its type; the source version of a row is one that  *)
(* a completed run carries, and a post in flight carries a snapshot that   *)
(* the HCM gave (upsertProjection, applyBatch).                            *)
THEOREM TablesAreTyped == Spec => []TypeOK
<1>1. ASSUME Inv, faults \in Nat PROVE TypeOK
    <2>1. /\ now \in Nat /\ HcmTypeOK /\ edition \in 0..MaxChanges
          /\ ProjectionsTypeOK /\ asOf \in [Pairs -> 0..edition] /\ runs \subseteq Run
          /\ refresh \in [Refreshes -> Refreshing]
        BY <1>1 DEF Inv, PublishedOK, TableOK, RefreshesInFlight
    <2>2. \A k \in Pairs : projections[k] # NoProjection =>
             projections[k].sourceVersion \in {run.version : run \in runs} \cup {NoVersion}
        BY <1>1 DEF Inv, TableOK, Rows, KnownVersions
    <2>3. ASSUME NEW s \in published PROVE \E K \in SUBSET Pairs : s \in SnapshotOf(K)
        <3>1. s \in Editions
            BY <1>1 DEF Inv, PublishedOK
        <3>2. PICK K \in SUBSET Pairs : s.balances \in [K -> Nat]
            BY <3>1 DEF Editions, BatchBalances
        <3> QED
            BY <3>1, <3>2 DEF Editions, SnapshotOf
    <2>4. post \in [Posts -> [stage: PostStages, batch: published \cup {NoBatch},
                              processedAt: Nat]]
        BY <1>1 DEF Inv, PostsInFlight, Posting
    <2> QED
        BY <1>1, <2>1, <2>2, <2>3, <2>4 DEF TypeOK
<1>2. Inv /\ faults \in Nat => TypeOK
    BY <1>1
<1> QED
    BY <1>2, Invariance, FaultsCounted, PTL

(* No other step adds a run.                                               *)
LEMMA OnlyApplyBatchAddsRuns ==
    ASSUME Next, runs' # runs
    PROVE  \E p \in Posts : ApplyBatch(p)
<1>1. CASE Proceed
    BY <1>1
    DEF Proceed, PostBatch, PostDuplicateRows, Reconcile, FindRun, FindLatest, RefuseBatch,
        RereadRun, RefreshBalance, ServeRefresh, RefreshFromHcm, StampReading,
        UpsertProjection, StatementFails, HcmAdjusts, HcmReset, NewEdition, HcmWillFail,
        TimePasses, serviceVars
<1>2. CASE ProcessDies
    BY <1>2 DEF ProcessDies
<1> QED
    BY <1>1, <1>2 DEF Next

(* What a post that gets through the transaction has been compared with.   *)
LEMMA BatchInFlight ==
    ASSUME Inv, NEW p \in Posts, ApplyBatch(p)
    PROVE  /\ post[p].batch \in published
           /\ Acceptable(post[p].batch)
           /\ \A run \in runs : run.effectiveAt < post[p].batch.effectiveAt
<1>1. post[p].batch \in published /\ post[p].batch.effectiveAt \in Nat
    BY DEF Inv, PostsInFlight, PublishedOK, Editions, ApplyBatch, AnswerPost
<1>2. Acceptable(post[p].batch)
    BY DEF ApplyBatch
<1>3. \A run \in runs : run.effectiveAt \in Nat
    BY DEF Inv, TableOK, Run
<1> QED
    BY <1>1, <1>2, <1>3 DEF Acceptable, NotAfterLatest

(* Batches are applied in the order of their effectiveAt and each version  *)
(* once, however many are posted at the same time (applyBatch).            *)
THEOREM BatchesApplyInOrder == Spec => BatchesInOrder
<1> DEFINE Order == \A new \in runs' \ runs :
                       /\ \A run \in runs : run.effectiveAt < new.effectiveAt
                       /\ RunOf(new.version) = {}
<1>1. ASSUME Inv, [Next]_reconVars PROVE Order
    <2>1. CASE runs' = runs
        BY <2>1
    <2>2. CASE runs' # runs
        <3>1. PICK p \in Posts : ApplyBatch(p)
            BY <1>1, <2>2, OnlyApplyBatchAddsRuns DEF reconVars
        <3>2. \A new \in runs' \ runs : /\ new.version = post[p].batch.version
                                        /\ new.effectiveAt = post[p].batch.effectiveAt
            BY <3>1 DEF ApplyBatch, RunsWith
        <3> QED
            BY <1>1, <3>1, <3>2, BatchInFlight DEF Acceptable
    <2> QED
        BY <2>1, <2>2
<1>2. Inv /\ [Next]_reconVars => [Order]_reconVars
    BY <1>1
<1> QED
    BY <1>2, Invariance, PTL DEF Spec, BatchesInOrder

(* A batch never replaces a reading of a later state of the HCM, except a  *)
(* row dated no later than the run whose version it carries, or across a   *)
(* reset of the HCM (isProjectionFresherThanBatch).  The row and the batch *)
(* both stem from published states; if the row's is the later one, it had  *)
(* begun by the row's date, which is before the batch's instant.           *)
THEOREM BatchesRespectLaterStates == Spec => BatchNeverClobbersFresher
<1> DEFINE Respect == \A k \in Pairs :
                         runs' # runs /\ asOf'[k] < asOf[k] =>
                            DatedByItsRun(k) \/ ResetBetween(asOf'[k], asOf[k])
<1>1. ASSUME Inv, [Next]_reconVars PROVE Respect
    <2> SUFFICES ASSUME NEW k \in Pairs, runs' # runs, asOf'[k] < asOf[k],
                        ~DatedByItsRun(k)
                 PROVE  ResetBetween(asOf'[k], asOf[k])
        OBVIOUS
    <2>1. PICK p \in Posts : ApplyBatch(p)
        BY <1>1, OnlyApplyBatchAddsRuns DEF reconVars
    <2> DEFINE b == post[p].batch
               row == projections[k]
    <2>2. b \in published /\ Acceptable(b) /\ \A run \in runs : run.effectiveAt < b.effectiveAt
        BY <1>1, <2>1, BatchInFlight
    <2>3. asOf[k] \in Nat
        BY <1>1 DEF Inv, TableOK, PublishedOK
    <2>4. k \in DOMAIN b.balances /\ asOf'[k] = b.edition
        BY <2>1, <2>3 DEF ApplyBatch
    <2>5. b.edition \in Nat /\ b.effectiveAt \in Nat
        BY <1>1, <2>2 DEF Inv, PublishedOK, Editions
    <2>6. row # NoProjection /\ BegunBy(asOf[k], row.lastSyncedAt)
        BY <1>1, <2>3, <2>4, <2>5 DEF Inv, TableOK, Rows
    <2>7. row.lastSyncedAt \in Nat
        BY <1>1, <2>6 DEF Inv, TableOK, ProjectionsTypeOK, Projection
    <2>8. ASSUME NEW s \in published, s.edition = asOf[k], s.effectiveAt < b.effectiveAt
          PROVE  ResetBetween(b.edition, asOf[k])
        <3>1. s.effectiveAt \in Nat
            BY <1>1 DEF Inv, PublishedOK, Editions
        <3>2. b.edition < s.edition
            BY <2>4, <2>8
        <3> QED
            BY <1>1, <2>2, <2>5, <2>8, <3>1, <3>2 DEF Inv, Ordered
    <2>9. CASE row.lastSyncedAt < b.effectiveAt
        <3>1. PICK s \in published : s.edition = asOf[k] /\ s.effectiveAt <= row.lastSyncedAt
            BY <2>6 DEF BegunBy
        <3>2. s.effectiveAt \in Nat
            BY <1>1 DEF Inv, PublishedOK, Editions
        <3> QED
            BY <2>4, <2>5, <2>7, <2>8, <2>9, <3>1, <3>2
    <2>10. CASE b.effectiveAt <= row.lastSyncedAt
        <3>1. ~FresherThanBatch(row, b.effectiveAt)
            BY <2>2, <2>4 DEF Acceptable
        <3>2. PICK run \in RunOf(row.sourceVersion) : ~(row.lastSyncedAt > run.completedAt)
            BY <2>6, <2>10, <3>1 DEF FresherThanBatch
        <3>3. run \in runs /\ run.completedAt \in Nat
            BY <1>1, <3>2 DEF RunOf, Inv, TableOK, Run
        <3>4. run.edition = asOf[k]
            BY <2>7, <3>2, <3>3 DEF DatedByItsRun
        <3>5. PICK s \in published : s.effectiveAt = run.effectiveAt /\ s.edition = run.edition
            BY <1>1, <3>3 DEF Inv, TableOK, RunsArePublished
        <3> QED
            BY <2>2, <2>4, <2>8, <3>3, <3>4, <3>5
    <2> QED
        BY <2>5, <2>7, <2>9, <2>10
<1>2. Inv /\ [Next]_reconVars => [Respect]_reconVars
    BY <1>1
<1> QED
    BY <1>2, Invariance, PTL DEF Spec, BatchNeverClobbersFresher

(* A batch answered as a replay has the content that was applied under its *)
(* version, unless the HCM was reset between the two (reconcileBatch).     *)
THEOREM ReplaysAreReplays == Spec => ReplayHasSameContent
<1> DEFINE Same == \A p \in Posts :
                      /\ post[p].stage \in {"findRun", "reread"} /\ post'[p].stage = "idle"
                      /\ faults' = faults
                      => \E run \in RunOf(post[p].batch.version) :
                            \/ run.edition = post[p].batch.edition
                            \/ ResetBetween(run.edition, post[p].batch.edition)
<1>1. ASSUME Inv, faults \in Nat, [Next]_reconVars PROVE Same
    <2> SUFFICES ASSUME NEW p \in Posts, post[p].stage \in {"findRun", "reread"},
                        post'[p].stage = "idle", faults' = faults
                 PROVE  \E run \in RunOf(post[p].batch.version) :
                            \/ run.edition = post[p].batch.edition
                            \/ ResetBetween(run.edition, post[p].batch.edition)
        OBVIOUS
    <2>1. post \in [Posts -> Posting] /\ post[p].batch \in published /\ post' # post
        BY <1>1 DEF Inv, PostsInFlight
    <2>2. RunOf(post[p].batch.version) # {}
        <3>1. faults' # faults + 1
            BY <1>1
        <3>2. ~StatementFails /\ ~ProcessDies
            BY <3>1 DEF StatementFails, ProcessDies
        <3>3. ~HcmAdjusts /\ ~HcmReset /\ ~HcmWillFail /\ ~TimePasses
            BY <2>1 DEF HcmAdjusts, HcmReset, NewEdition, HcmWillFail, TimePasses, serviceVars
        <3>4. ~\E f \in Refreshes : ServeRefresh(f) \/ \E k \in Pairs : RefreshBalance(f, k)
            BY <2>1 DEF RefreshBalance, ServeRefresh, RefreshFromHcm, StampReading, UpsertProjection
        <3>5. PICK q \in Posts : \/ Reconcile(q) \/ PostDuplicateRows(q)
                                 \/ \E b \in published : PostBatch(q, b)
            BY <1>1, <2>1, <3>2, <3>3, <3>4 DEF Next, Proceed, reconVars
        <3>6. q = p
            BY <2>1, <3>5
            DEF Reconcile, PostDuplicateRows, PostBatch, FindRun, FindLatest, ApplyBatch,
                RefuseBatch, RereadRun, AnswerPost, ToStage
        <3>7. FindRun(p) \/ RereadRun(p)
            BY <3>5, <3>6
            DEF Reconcile, PostDuplicateRows, PostBatch, FindLatest, ApplyBatch,
                RefuseBatch, AnswerPost, ToStage
        <3> QED
            BY <2>1, <3>7 DEF FindRun, RereadRun, ToStage, Posting
    <2>3. PICK run \in RunOf(post[p].batch.version) : TRUE
        BY <2>2
    <2>4. PICK s \in published : s.version = run.version /\ s.edition = run.edition
        BY <1>1, <2>3 DEF RunOf, Inv, TableOK, RunsArePublished
    <2>5. s.version = post[p].batch.version
        BY <2>3, <2>4 DEF RunOf
    <2>6. VersionsDiffer
        BY <1>1 DEF Inv
    <2>7. \/ s.edition = post[p].batch.edition
          \/ ResetBetween(s.edition, post[p].batch.edition)
        BY <2>1, <2>4, <2>5, <2>6 DEF VersionsDiffer
    <2>8. \/ run.edition = post[p].batch.edition
          \/ ResetBetween(run.edition, post[p].batch.edition)
        BY <2>4, <2>7
    <2> QED
        BY <2>3, <2>8
<1>2. Inv /\ faults \in Nat /\ [Next]_reconVars => [Same]_reconVars
    BY <1>1
<1> QED
    BY <1>2, Invariance, FaultsCounted, PTL DEF Spec, ReplayHasSameContent
=============================================================================
