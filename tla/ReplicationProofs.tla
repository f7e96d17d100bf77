--------------------------- MODULE ReplicationProofs ---------------------------
(***************************************************************************)
(* What replication promises, proved for every number of cursors,          *)
(* connections, participants, images and generations and any limits, in    *)
(* four parts that share the facts about one lineage of the authority:     *)
(*                                                                         *)
(*  - one lineage: each operation keeps an inductive invariant and relates *)
(*    the lineage before and after it as the action properties say;        *)
(*  - the lineages of a session under their shared limits: every step      *)
(*    changes one lineage by one such operation (AuthorityReplication);    *)
(*  - replication from end to end, whatever the network loses, delays,     *)
(*    repeats or reorders (Replication);                                   *)
(*  - prediction: it never carries input across a recovery of the lineage  *)
(*    it follows, however late the host observes it (Prediction).          *)
(***************************************************************************)
EXTENDS Prediction, AuthorityReplication, PartialMapTheorems

-----------------------------------------------------------------------------
(* One lineage of the authority                                            *)

\* Nothing the lineage remembers is beyond what it emitted, and evidence tagged
\* for the current recovery is newer than the boundary that began it.
MemoryIsPast(l) ==
  /\ l.latest_confirmed <= l.greatest_emitted
  /\ l.watermark <= l.greatest_emitted
  /\ \A c \in DOMAIN l.evidence :
       /\ c <= l.greatest_emitted
       /\ l.evidence[c].generation <= l.generation
       /\ ~DeltaEligible(l) /\ l.evidence[c].generation = l.generation => l.watermark < c

LineageInv(l) ==
  l \in Lineage /\ EligibleBase(l) /\ PendingIsCurrent(l) /\ MemoryIsPast(l)

\* What every operation on a lineage guarantees.
GoodStep(l, m) ==
  LineageInv(m) /\ EndsByItsOwnFull(l, m) /\ RecoveryBoundary(l, m) /\ Advances(l, m)

Evidence == [kind : {Full, Delta}, generation : Generation \cup {NoGeneration}]
Retained == [tick : Tick, image : Images]

LEMMA RetentionIsPartialMap ==
  ASSUME NEW f
  PROVE  f \in Retention <=> DOMAIN f \subseteq Cursor /\ f \in [DOMAIN f -> Retained]
  <1>1. f \in Retention => DOMAIN f \subseteq Cursor /\ f \in [DOMAIN f -> Retained]
    BY DEF Retention, Retained
  <1>2. DOMAIN f \subseteq Cursor /\ f \in [DOMAIN f -> Retained] => f \in Retention
    BY DEF Retention, Retained
  <1> QED
    BY <1>1, <1>2

LEMMA LineageType ==
  ASSUME NEW l \in Lineage
  PROVE  /\ l.delta_base \in Cursor \cup {NoCursor}
         /\ l.generation \in Generation
         /\ l.watermark \in Cursor \cup {NoCursor}
         /\ l.latest_confirmed \in Cursor \cup {NoCursor}
         /\ l.greatest_emitted \in Cursor \cup {NoCursor}
         /\ l.greatest_emitted_tick \in Tick \cup {NoTick}
         /\ DOMAIN l.retained \subseteq Cursor /\ l.retained \in [DOMAIN l.retained -> Retained]
         /\ DOMAIN l.evidence \subseteq Cursor /\ l.evidence \in [DOMAIN l.evidence -> Evidence]
         /\ l.pending \in Candidate \cup {NoCandidate}
  <1>1. l.retained \in Retention
    BY DEF Lineage
  <1>2. \E S \in SUBSET Cursor : l.evidence \in [S -> Evidence]
    BY DEF Lineage, Evidence
  <1> QED
    BY <1>1, <1>2, RetentionIsPartialMap DEF Lineage

LEMMA Numbers ==
  /\ Cursor \subseteq Nat /\ Tick \subseteq Nat /\ Generation \subseteq Nat
  /\ NoCursor \in Nat /\ NoTick \in Nat /\ NoGeneration \in Int
  /\ NoCursor \notin Cursor /\ NoGeneration \notin Generation
  /\ MaxGeneration \in Nat
  BY ReplicationModelAssumption, AuthorityLineageAssumption
  DEF Cursor, Tick, Generation, NoCursor, NoTick, NoGeneration

LEMMA LineageNumbers ==
  ASSUME NEW l \in Lineage
  PROVE  /\ l.delta_base \in Nat /\ l.watermark \in Nat
         /\ l.latest_confirmed \in Nat /\ l.greatest_emitted \in Nat
         /\ l.greatest_emitted_tick \in Nat /\ l.generation \in Nat
         /\ \A c \in DOMAIN l.retained : c \in Nat /\ c # NoCursor
         /\ \A c \in DOMAIN l.evidence : c \in Nat /\ l.evidence[c].generation \in Int
  <1>1. \A e \in Evidence : e.generation \in Int
    <2>1. Generation \cup {NoGeneration} \subseteq Int
      BY Numbers
    <2> QED
      BY <2>1 DEF Evidence
  <1>2. DOMAIN l.evidence \subseteq Cursor /\ l.evidence \in [DOMAIN l.evidence -> Evidence]
    BY LineageType
  <1>3. \A c \in DOMAIN l.evidence : c \in Nat /\ l.evidence[c].generation \in Int
    BY <1>1, <1>2, Numbers
  <1>4. \A c \in DOMAIN l.retained : c \in Nat /\ c # NoCursor
    BY LineageType, Numbers
  <1>5. /\ l.delta_base \in Cursor \cup {NoCursor} /\ l.watermark \in Cursor \cup {NoCursor}
        /\ l.latest_confirmed \in Cursor \cup {NoCursor}
        /\ l.greatest_emitted \in Cursor \cup {NoCursor}
        /\ l.greatest_emitted_tick \in Tick \cup {NoTick}
        /\ l.generation \in Generation
    BY LineageType
  <1> QED
    BY <1>3, <1>4, <1>5, Numbers

LEMMA NewLineageInv == LineageInv(NewLineage)
  <1>1. NewLineage \in Lineage
    <2>1. EmptyMap \in Retention
      BY RetentionIsPartialMap, EmptyMapIsEmpty DEF EmptyMap
    <2>2. EmptyMap \in [{} -> Evidence] /\ {} \in SUBSET Cursor
      BY EmptyMapIsEmpty
    <2>3. 0 \in Generation
      BY Numbers DEF Generation
    <2> QED
      BY <2>1, <2>2, <2>3 DEF NewLineage, Lineage, Evidence
  <1>2. MemoryIsPast(NewLineage)
    BY EmptyMapIsEmpty DEF NewLineage, MemoryIsPast, NoCursor
  <1> QED
    BY <1>1, <1>2
    DEF LineageInv, EligibleBase, PendingIsCurrent, NewLineage, DeltaEligible, HasPending

\* Doing nothing is a good step.
LEMMA SameIsGood ==
  ASSUME NEW l, LineageInv(l)
  PROVE  GoodStep(l, l)
  <1>1. l \in Lineage
    BY DEF LineageInv
  <1> QED
    BY <1>1, LineageNumbers
    DEF GoodStep, EndsByItsOwnFull, RecoveryBoundary, Advances

\* Recovery begun from k, a lineage that came from l and may have lost its base.
LEMMA RecoveryFrom ==
  ASSUME NEW l \in Lineage, NEW k \in Lineage, MemoryIsPast(k), CanStartRecovery(k),
         k.generation = l.generation, Advances(l, k)
  PROVE  GoodStep(l, StartRecovery(k))
  <1> DEFINE m == StartRecovery(k)
  <1>1. /\ m.pending = NoCandidate /\ m.generation = k.generation + 1
        /\ m.delta_base = NoCursor /\ m.watermark = k.greatest_emitted
        /\ m.latest_confirmed = k.latest_confirmed
        /\ m.greatest_emitted = k.greatest_emitted
        /\ m.greatest_emitted_tick = k.greatest_emitted_tick
        /\ m.retained = k.retained /\ m.evidence = k.evidence
    BY DEF StartRecovery, Lineage
  <1>2. m \in Lineage
    <2>1. k.generation + 1 \in Generation
      BY LineageType, Numbers DEF CanStartRecovery, Generation
    <2> QED
      BY <2>1 DEF StartRecovery, Lineage
  <1>3. ~DeltaEligible(m) /\ ~HasPending(m)
    BY <1>1 DEF DeltaEligible, HasPending
  <1>4. MemoryIsPast(m)
    BY <1>1, <1>3, LineageNumbers DEF MemoryIsPast
  <1>5. LineageInv(m)
    BY <1>2, <1>3, <1>4 DEF LineageInv, EligibleBase, PendingIsCurrent
  <1>6. EndsByItsOwnFull(l, m)
    BY <1>3 DEF EndsByItsOwnFull
  <1>7. RecoveryBoundary(l, m)
    BY <1>1, <1>3, LineageNumbers DEF RecoveryBoundary
  <1>8. Advances(l, m)
    BY <1>1 DEF Advances
  <1> HIDE DEF m
  <1> QED
    BY <1>5, <1>6, <1>7, <1>8 DEF GoodStep, m

LEMMA StartRecoveryIsGood ==
  ASSUME NEW l, LineageInv(l), CanStartRecovery(l)
  PROVE  GoodStep(l, StartRecovery(l))
  <1>1. GoodStep(l, l)
    BY SameIsGood
  <1> QED
    BY <1>1, RecoveryFrom DEF LineageInv, GoodStep

\* A step that changes nothing but the pending candidate, and leaves one that
\* is current.
LEMMA SamePastIsGood ==
  ASSUME NEW l, LineageInv(l), NEW m \in Lineage,
         m.delta_base = l.delta_base, m.generation = l.generation,
         m.watermark = l.watermark, m.latest_confirmed = l.latest_confirmed,
         m.greatest_emitted = l.greatest_emitted,
         m.greatest_emitted_tick = l.greatest_emitted_tick,
         m.retained = l.retained, m.evidence = l.evidence,
         PendingIsCurrent(m)
  PROVE  GoodStep(l, m)
  <1>0. l \in Lineage
    BY DEF LineageInv
  <1>1. LineageInv(m)
    BY DEF LineageInv, EligibleBase, MemoryIsPast, DeltaEligible, BaselineAvailable
  <1>2. EndsByItsOwnFull(l, m) /\ RecoveryBoundary(l, m)
    BY DEF EndsByItsOwnFull, RecoveryBoundary, DeltaEligible
  <1>3. Advances(l, m)
    BY <1>0, LineageNumbers DEF Advances
  <1> QED
    BY <1>1, <1>2, <1>3 DEF GoodStep

LEMMA PreparedIsGood ==
  ASSUME NEW l, LineageInv(l), NEW new \in Candidate,
         l.greatest_emitted < new.cursor, l.greatest_emitted_tick <= new.tick,
         new.kind = Delta => DeltaEligible(l),
         new.generation \in {NoGeneration, l.generation}
  PROVE  GoodStep(l, [l EXCEPT !.pending = new])
  <1> DEFINE m == [l EXCEPT !.pending = new]
  <1>0. l \in Lineage
    BY DEF LineageInv
  <1>1. /\ m \in Lineage /\ m.pending = new
        /\ m.delta_base = l.delta_base /\ m.generation = l.generation
        /\ m.watermark = l.watermark /\ m.latest_confirmed = l.latest_confirmed
        /\ m.greatest_emitted = l.greatest_emitted
        /\ m.greatest_emitted_tick = l.greatest_emitted_tick
        /\ m.retained = l.retained /\ m.evidence = l.evidence
    BY <1>0 DEF Lineage
  <1>2. PendingIsCurrent(m)
    BY <1>1 DEF PendingIsCurrent, DeltaEligible
  <1> QED
    BY <1>1, <1>2, SamePastIsGood

LEMMA PrepareFullIsGood ==
  ASSUME NEW l, LineageInv(l),
         NEW cursor \in Cursor, NEW tick \in Tick, NEW image \in Images,
         NEW designate \in BOOLEAN,
         CanPrepareFull(l, cursor, tick, image, designate)
  PROVE  GoodStep(l, PrepareFull(l, cursor, tick, image, designate))
  <1> DEFINE m == PrepareFull(l, cursor, tick, image, designate)
             g == IF designate THEN l.generation ELSE NoGeneration
             new == [kind |-> Full, base |-> NoCursor, cursor |-> cursor, tick |-> tick,
                     image |-> image, extra |-> 0, generation |-> g]
  <1>0. l \in Lineage
    BY DEF LineageInv
  <1>1. m = [l EXCEPT !.pending = new]
    BY DEF PrepareFull
  <1>2. new \in Candidate
    BY <1>0, LineageType DEF Candidate
  <1>3. /\ new.cursor = cursor /\ new.tick = tick /\ new.kind = Full /\ Full # Delta
        /\ new.generation \in {NoGeneration, l.generation}
    BY DEF Full, Delta
  <1> QED
    BY <1>0, <1>1, <1>2, <1>3, PreparedIsGood DEF CanPrepareFull, IsNewTarget

LEMMA PrepareDeltaIsGood ==
  ASSUME NEW l, LineageInv(l),
         NEW cursor \in Cursor, NEW tick \in Tick, NEW image \in Images, NEW extra \in Nat,
         CanPrepareDelta(l, cursor, tick, image, extra)
  PROVE  GoodStep(l, PrepareDelta(l, cursor, tick, image, extra))
  <1> DEFINE m == PrepareDelta(l, cursor, tick, image, extra)
             new == [kind |-> Delta, base |-> l.delta_base, cursor |-> cursor,
                     tick |-> tick, image |-> image, extra |-> extra,
                     generation |-> NoGeneration]
  <1>0. l \in Lineage
    BY DEF LineageInv
  <1>1. m = [l EXCEPT !.pending = new]
    BY DEF PrepareDelta
  <1>2. new \in Candidate
    BY <1>0, LineageType DEF Candidate
  <1>3. /\ new.cursor = cursor /\ new.tick = tick /\ new.generation = NoGeneration
        /\ DeltaEligible(l)
    BY DEF CanPrepareDelta
  <1> QED
    BY <1>0, <1>1, <1>2, <1>3, PreparedIsGood DEF CanPrepareDelta, IsNewTarget

LEMMA CancelIsGood ==
  ASSUME NEW l, LineageInv(l)
  PROVE  GoodStep(l, CancelPending(l))
  <1> DEFINE m == CancelPending(l)
  <1>0. l \in Lineage
    BY DEF LineageInv
  <1>1. /\ m \in Lineage /\ m.pending = NoCandidate
        /\ m.delta_base = l.delta_base /\ m.generation = l.generation
        /\ m.watermark = l.watermark /\ m.latest_confirmed = l.latest_confirmed
        /\ m.greatest_emitted = l.greatest_emitted
        /\ m.greatest_emitted_tick = l.greatest_emitted_tick
        /\ m.retained = l.retained /\ m.evidence = l.evidence
    BY <1>0 DEF CancelPending, Lineage
  <1> QED
    BY <1>0, <1>1, SamePastIsGood DEF PendingIsCurrent, HasPending
\* Retaining a state evicts and adds images, but never evicts the delta base.
LEMMA RetainStateFacts ==
  ASSUME NEW l \in Lineage, NEW cursor \in Cursor, NEW tick \in Tick, NEW image \in Images
  PROVE  \E r \in Retention :
           /\ RetainState(l, cursor, tick, image) = [l EXCEPT !.retained = r]
           /\ BaselineAvailable(l, l.delta_base) => l.delta_base \in DOMAIN r
  <1> DEFINE Fits(gone) == HasRoom(l.retained, gone, image, AuthorityLimits)
             evicted == EvictOldest(DOMAIN l.retained \ {l.delta_base}, Fits)
             kept == Drop(l.retained, evicted)
             put == Put(kept, cursor, [tick |-> tick, image |-> image])
             r == IF Fits(evicted) THEN put ELSE kept
  <1>1. evicted \subseteq DOMAIN l.retained \ {l.delta_base}
    BY DEF EvictOldest
  <1>2. RetainState(l, cursor, tick, image) = [l EXCEPT !.retained = r]
    BY DEF RetainState
  <1>3. DOMAIN l.retained \subseteq Cursor /\ l.retained \in [DOMAIN l.retained -> Retained]
    BY LineageType
  <1> HIDE DEF evicted
  <1>4. DOMAIN kept = DOMAIN l.retained \ evicted /\ kept \in [DOMAIN kept -> Retained]
    BY <1>3 DEF Drop, Restrict
  <1>5. DOMAIN put = DOMAIN kept \cup {cursor} /\ put \in [DOMAIN put -> Retained]
    <2> HIDE DEF kept
    <2> QED
      BY <1>4 DEF Put, Retained
  <1> HIDE DEF kept, put, Fits
  <1>6. DOMAIN r \subseteq Cursor /\ r \in [DOMAIN r -> Retained]
    BY <1>3, <1>4, <1>5
  <1>7. r \in Retention
    BY <1>6, RetentionIsPartialMap
  <1>8. BaselineAvailable(l, l.delta_base) => l.delta_base \in DOMAIN r
    BY <1>1, <1>4, <1>5 DEF BaselineAvailable
  <1> QED
    BY <1>2, <1>7, <1>8

\* The emission records e are those of l, some forgotten, and the new one.
Remembers(e, l, cursor, kind, generation) ==
  /\ RetainEvidence(l, cursor, kind, generation) = [l EXCEPT !.evidence = e]
  /\ [l EXCEPT !.evidence = e] \in Lineage
  /\ DOMAIN e \subseteq DOMAIN l.evidence \cup {cursor}
  /\ e[cursor] = [kind |-> kind, generation |-> generation]
  /\ \A c \in DOMAIN e : c # cursor => e[c] = l.evidence[c]

\* Retaining evidence forgets older evidence and records the new emission.
LEMMA RetainEvidenceFacts ==
  ASSUME NEW l \in Lineage, NEW cursor \in Cursor, NEW kind \in {Full, Delta},
         NEW generation \in Generation \cup {NoGeneration}
  PROVE  \E e : Remembers(e, l, cursor, kind, generation)
  <1> DEFINE known == DOMAIN l.evidence
             Fits(gone) == Cardinality(known \ gone) < AuthorityLimits.evidence
             evicted == EvictOldest(known, Fits)
             kept == Drop(l.evidence, evicted)
             new == [kind |-> kind, generation |-> generation]
             e == Put(kept, cursor, new)
  <1>1. RetainEvidence(l, cursor, kind, generation) = [l EXCEPT !.evidence = e]
    BY DEF RetainEvidence
  <1>2. known \subseteq Cursor /\ l.evidence \in [known -> Evidence]
    BY LineageType
  <1>3. new \in Evidence
    BY DEF Evidence
  <1> HIDE DEF evicted, known, new
  <1>4. /\ DOMAIN kept = known \ evicted
        /\ kept \in [DOMAIN kept -> Evidence]
        /\ \A c \in DOMAIN kept : kept[c] = l.evidence[c]
    BY <1>2 DEF Drop, Restrict, known
  <1> HIDE DEF kept
  <1>5. /\ DOMAIN e = DOMAIN kept \cup {cursor} /\ e \in [DOMAIN e -> Evidence]
        /\ e[cursor] = new
        /\ \A c \in DOMAIN e : c # cursor => e[c] = kept[c]
    BY <1>3, <1>4 DEF Put
  <1> HIDE DEF e
  <1>6. [l EXCEPT !.evidence = e] \in Lineage
    <2>1. DOMAIN e \in SUBSET Cursor
      BY <1>2, <1>4, <1>5
    <2>2. e \in UNION {[S -> Evidence] : S \in SUBSET Cursor}
      BY <1>5, <2>1
    <2> QED
      BY <2>2 DEF Lineage, Evidence
  <1>7. DOMAIN e \subseteq known \cup {cursor}
    BY <1>4, <1>5
  <1>8. \A c \in DOMAIN e : c # cursor => e[c] = l.evidence[c]
    BY <1>4, <1>5
  <1> QED
    BY <1>1, <1>5, <1>6, <1>7, <1>8 DEF Remembers, known, new

\* m is l after the emission of what was pending: some images and some evidence may
\* be gone, the delta base is not, and the emission has its own evidence.
Emission(l, m) ==
  LET c == l.pending
  IN /\ m \in Lineage /\ m.pending = NoCandidate
     /\ m.greatest_emitted = c.cursor /\ m.greatest_emitted_tick = c.tick
     /\ m.delta_base = l.delta_base /\ m.generation = l.generation
     /\ m.watermark = l.watermark /\ m.latest_confirmed = l.latest_confirmed
     /\ BaselineAvailable(l, l.delta_base) => BaselineAvailable(m, l.delta_base)
     /\ DOMAIN m.evidence \subseteq DOMAIN l.evidence \cup {c.cursor}
     /\ m.evidence[c.cursor] = [kind |-> c.kind, generation |-> c.generation]
     /\ \A d \in DOMAIN m.evidence : d # c.cursor => m.evidence[d] = l.evidence[d]

LEMMA PendingType ==
  ASSUME NEW l \in Lineage, HasPending(l)
  PROVE  /\ l.pending \in Candidate
         /\ l.pending.cursor \in Cursor /\ l.pending.tick \in Tick
         /\ l.pending.image \in Images /\ l.pending.kind \in {Full, Delta}
         /\ l.pending.base \in Cursor \cup {NoCursor}
         /\ l.pending.generation \in Generation \cup {NoGeneration}
  <1>1. l.pending \in Candidate
    BY LineageType DEF HasPending
  <1> QED
    BY <1>1 DEF Candidate

LEMMA EmitFacts ==
  ASSUME NEW l \in Lineage, HasPending(l)
  PROVE  Emission(l, Emit(l))
  <1> DEFINE c == l.pending
             emitted_l == [l EXCEPT !.pending = NoCandidate, !.greatest_emitted = c.cursor,
                                    !.greatest_emitted_tick = c.tick]
             m == Emit(l)
  <1>1. /\ c.cursor \in Cursor /\ c.tick \in Tick /\ c.image \in Images
        /\ c.kind \in {Full, Delta} /\ c.generation \in Generation \cup {NoGeneration}
    BY PendingType
  <1>2. emitted_l \in Lineage
    BY <1>1 DEF Lineage
  <1> HIDE DEF emitted_l, c
  <1>b. \A cursor \in Cursor, tick \in Tick, image \in Images :
          \E r \in Retention :
            /\ RetainState(emitted_l, cursor, tick, image) = [emitted_l EXCEPT !.retained = r]
            /\ BaselineAvailable(emitted_l, emitted_l.delta_base)
                 => emitted_l.delta_base \in DOMAIN r
    BY <1>2, RetainStateFacts
  <1>3. PICK r \in Retention :
          /\ RetainState(emitted_l, c.cursor, c.tick, c.image)
               = [emitted_l EXCEPT !.retained = r]
          /\ BaselineAvailable(emitted_l, emitted_l.delta_base)
               => emitted_l.delta_base \in DOMAIN r
    BY <1>1, <1>b
  <1> DEFINE n == [emitted_l EXCEPT !.retained = r]
  <1>4. n \in Lineage
    BY <1>2 DEF Lineage
  <1> HIDE DEF n
  <1>a. PICK e : Remembers(e, n, c.cursor, c.kind, c.generation)
    BY <1>1, <1>4, RetainEvidenceFacts
  <1>5. /\ RetainEvidence(n, c.cursor, c.kind, c.generation) = [n EXCEPT !.evidence = e]
        /\ [n EXCEPT !.evidence = e] \in Lineage
        /\ DOMAIN e \subseteq DOMAIN n.evidence \cup {c.cursor}
        /\ e[c.cursor] = [kind |-> c.kind, generation |-> c.generation]
        /\ \A d \in DOMAIN e : d # c.cursor => e[d] = n.evidence[d]
    BY <1>a DEF Remembers
  <1>6. m = [n EXCEPT !.evidence = e]
    BY <1>3, <1>5 DEF Emit, emitted_l, n, c
  <1>7. /\ m \in Lineage /\ m.pending = NoCandidate
        /\ m.greatest_emitted = c.cursor /\ m.greatest_emitted_tick = c.tick
        /\ m.delta_base = l.delta_base /\ m.generation = l.generation
        /\ m.watermark = l.watermark /\ m.latest_confirmed = l.latest_confirmed
        /\ m.retained = r /\ m.evidence = e
        /\ n.evidence = l.evidence
        /\ emitted_l.delta_base = l.delta_base /\ emitted_l.retained = l.retained
    BY <1>5, <1>6 DEF Lineage, emitted_l, n
  <1> HIDE DEF m
  <1> QED
    BY <1>3, <1>5, <1>7 DEF Emission, BaselineAvailable, m, c

LEMMA EmitIsGood ==
  ASSUME NEW l, LineageInv(l), HasPending(l)
  PROVE  GoodStep(l, Emit(l))
  <1> DEFINE c == l.pending
             m == Emit(l)
  <1>0. l \in Lineage
    BY DEF LineageInv
  <1>1. Emission(l, m)
    BY <1>0, EmitFacts
  <1>2. /\ c.cursor \in Nat /\ c.tick \in Nat
        /\ l.greatest_emitted < c.cursor /\ l.greatest_emitted_tick <= c.tick
        /\ c.generation \in {NoGeneration, l.generation}
    BY <1>0, PendingType, Numbers DEF LineageInv, PendingIsCurrent
  <1> HIDE DEF m, c
  <1>7. /\ m \in Lineage /\ m.pending = NoCandidate
        /\ m.greatest_emitted = c.cursor /\ m.greatest_emitted_tick = c.tick
        /\ m.delta_base = l.delta_base /\ m.generation = l.generation
        /\ m.watermark = l.watermark /\ m.latest_confirmed = l.latest_confirmed
        /\ DOMAIN m.evidence \subseteq DOMAIN l.evidence \cup {c.cursor}
        /\ m.evidence[c.cursor] = [kind |-> c.kind, generation |-> c.generation]
        /\ \A d \in DOMAIN m.evidence : d # c.cursor => m.evidence[d] = l.evidence[d]
    BY <1>1 DEF Emission, c
  <1>8. EligibleBase(m)
    BY <1>1, <1>7 DEF EligibleBase, DeltaEligible, LineageInv, Emission
  <1>9. MemoryIsPast(m)
    <2>1. m.latest_confirmed <= m.greatest_emitted /\ m.watermark <= m.greatest_emitted
      BY <1>0, <1>7, <1>2, LineageNumbers DEF LineageInv, MemoryIsPast
    <2>2. ASSUME NEW d \in DOMAIN m.evidence
          PROVE  /\ d <= m.greatest_emitted
                 /\ m.evidence[d].generation <= m.generation
                 /\ ~DeltaEligible(m) /\ m.evidence[d].generation = m.generation
                      => m.watermark < d
      <3>1. CASE d = c.cursor
        <4>1. m.evidence[d].generation = c.generation
          BY <1>7, <3>1
        <4>2. NoGeneration <= l.generation
          BY <1>0, LineageNumbers DEF NoGeneration
        <4> QED
          BY <1>0, <1>7, <1>2, <3>1, <4>1, <4>2, LineageNumbers DEF LineageInv, MemoryIsPast
      <3>2. CASE d # c.cursor
        <4>1. d \in DOMAIN l.evidence /\ m.evidence[d] = l.evidence[d]
          BY <1>7, <3>2
        <4> QED
          BY <1>0, <1>7, <1>2, <4>1, LineageNumbers
          DEF LineageInv, MemoryIsPast, DeltaEligible
      <3> QED
        BY <3>1, <3>2
    <2> QED
      BY <2>1, <2>2 DEF MemoryIsPast
  <1>10. PendingIsCurrent(m)
    BY <1>7 DEF PendingIsCurrent, HasPending
  <1>11. EndsByItsOwnFull(l, m) /\ RecoveryBoundary(l, m)
    BY <1>7 DEF EndsByItsOwnFull, RecoveryBoundary, DeltaEligible
  <1>12. Advances(l, m)
    <2>1. \A d \in DOMAIN l.evidence : d # c.cursor
      BY <1>0, <1>2, LineageNumbers DEF LineageInv, MemoryIsPast
    <2> QED
      BY <1>0, <1>7, <1>2, <2>1, LineageNumbers DEF Advances
  <1> QED
    BY <1>7, <1>8, <1>9, <1>10, <1>11, <1>12 DEF GoodStep, LineageInv, m

\* k knows c as confirmed and is otherwise l; b has c as its delta base too.
LEMMA ConfirmIsGood ==
  ASSUME NEW l, LineageInv(l), NEW c \in Cursor, CanConfirm(l, c)
  PROVE  GoodStep(l, Confirm(l, c))
  <1> DEFINE k == [l EXCEPT !.latest_confirmed = c]
             b == BecomeDeltaEligible(k, c)
  <1>0. l \in Lineage /\ c \in Nat /\ c # NoCursor
    BY Numbers DEF LineageInv
  <1>1. /\ k \in Lineage /\ k.latest_confirmed = c /\ k.pending = l.pending
        /\ k.delta_base = l.delta_base /\ k.generation = l.generation
        /\ k.watermark = l.watermark /\ k.greatest_emitted = l.greatest_emitted
        /\ k.greatest_emitted_tick = l.greatest_emitted_tick
        /\ k.retained = l.retained /\ k.evidence = l.evidence
    BY <1>0 DEF Lineage
  <1>2. /\ b \in Lineage /\ b.latest_confirmed = c /\ b.pending = l.pending
        /\ b.delta_base = c /\ b.generation = l.generation
        /\ b.watermark = NoCursor /\ b.greatest_emitted = l.greatest_emitted
        /\ b.greatest_emitted_tick = l.greatest_emitted_tick
        /\ b.retained = l.retained /\ b.evidence = l.evidence
    BY <1>0 DEF BecomeDeltaEligible, Lineage
  <1>3. l.latest_confirmed < c /\ c <= l.greatest_emitted /\ c \in DOMAIN l.evidence
    BY DEF CanConfirm
  <1> HIDE DEF k, b
  <1>4. Advances(l, k) /\ Advances(l, b)
    BY <1>0, <1>1, <1>2, <1>3, LineageNumbers DEF Advances
  <1>5. MemoryIsPast(k) /\ PendingIsCurrent(k)
    BY <1>0, <1>1, <1>3
    DEF LineageInv, MemoryIsPast, PendingIsCurrent, DeltaEligible, HasPending
  <1>6. ASSUME BaselineAvailable(l, c),
               ~DeltaEligible(l) => QualifiesForRecovery(l, c)
        PROVE  GoodStep(l, b)
    <2>1. DeltaEligible(b) /\ EligibleBase(b)
      BY <1>0, <1>2, <1>6 DEF DeltaEligible, EligibleBase, BaselineAvailable
    <2>2. MemoryIsPast(b)
      BY <1>0, <1>2, <1>3, <2>1, LineageNumbers DEF LineageInv, MemoryIsPast, NoCursor
    <2>3. PendingIsCurrent(b)
      BY <1>2, <2>1 DEF LineageInv, PendingIsCurrent, HasPending
    <2>4. EndsByItsOwnFull(l, b)
      <3> SUFFICES ASSUME ~DeltaEligible(l)
                   PROVE  /\ l.evidence[c] = [kind |-> Full, generation |-> l.generation]
                          /\ l.watermark < c
        BY <1>2, <1>3 DEF EndsByItsOwnFull
      <3>1. l.evidence[c].kind = Full /\ l.evidence[c].generation = l.generation
        BY <1>6 DEF QualifiesForRecovery
      <3>2. l.evidence[c] \in Evidence
        BY <1>0, <1>3, LineageType
      <3>3. l.evidence[c] = [kind |-> Full, generation |-> l.generation]
        BY <3>1, <3>2 DEF Evidence
      <3>4. l.watermark < c
        BY <1>3, <3>1 DEF LineageInv, MemoryIsPast
      <3> QED
        BY <3>3, <3>4
    <2>5. RecoveryBoundary(l, b)
      BY <1>2, <2>1 DEF RecoveryBoundary
    <2> QED
      BY <1>2, <1>4, <2>1, <2>2, <2>3, <2>4, <2>5 DEF GoodStep, LineageInv
  <1>7. ASSUME ~DeltaEligible(l)
        PROVE  GoodStep(l, k)
    <2>1. ~DeltaEligible(k)
      BY <1>1, <1>7 DEF DeltaEligible
    <2>2. EligibleBase(k) /\ EndsByItsOwnFull(l, k)
      BY <2>1 DEF EligibleBase, EndsByItsOwnFull
    <2>3. RecoveryBoundary(l, k)
      BY <1>1, <1>7 DEF RecoveryBoundary
    <2> QED
      BY <1>1, <1>4, <1>5, <2>2, <2>3 DEF GoodStep, LineageInv
  <1>8. ASSUME DeltaEligible(l), ~BaselineAvailable(l, c)
        PROVE  GoodStep(l, StartRecovery(k))
    <2>1. CanStartRecovery(k)
      BY <1>1, <1>8 DEF CanConfirm, CanStartRecovery
    <2> QED
      BY <1>0, <1>1, <1>4, <1>5, <2>1, RecoveryFrom
  <1>9. Confirm(l, c) = IF DeltaEligible(l)
                        THEN IF BaselineAvailable(l, c) THEN b ELSE StartRecovery(k)
                        ELSE IF QualifiesForRecovery(l, c) THEN b ELSE k
    BY DEF Confirm, k, b
  <1>10. QualifiesForRecovery(l, c) => BaselineAvailable(l, c)
    BY DEF QualifiesForRecovery
  <1> QED
    BY <1>6, <1>7, <1>8, <1>9, <1>10

LEMMA EvictStateIsGood ==
  ASSUME NEW l, LineageInv(l), NEW c, CanEvictState(l, c)
  PROVE  GoodStep(l, EvictState(l, c))
  <1> DEFINE r == Drop(l.retained, {c})
             k == [l EXCEPT !.retained = r]
  <1>0. l \in Lineage
    BY DEF LineageInv
  <1>1. DOMAIN l.retained \subseteq Cursor /\ l.retained \in [DOMAIN l.retained -> Retained]
    BY <1>0, LineageType
  <1>2. DOMAIN r = DOMAIN l.retained \ {c} /\ r \in [DOMAIN r -> Retained]
    BY <1>1 DEF Drop, Restrict
  <1> HIDE DEF r
  <1>3. r \in Retention
    BY <1>1, <1>2, RetentionIsPartialMap
  <1>4. /\ k \in Lineage /\ k.latest_confirmed = l.latest_confirmed
        /\ k.pending = l.pending
        /\ k.delta_base = l.delta_base /\ k.generation = l.generation
        /\ k.watermark = l.watermark /\ k.greatest_emitted = l.greatest_emitted
        /\ k.greatest_emitted_tick = l.greatest_emitted_tick
        /\ k.retained = r /\ k.evidence = l.evidence
    BY <1>0, <1>3 DEF Lineage
  <1> HIDE DEF k
  <1>5. Advances(l, k)
    BY <1>0, <1>4, LineageNumbers DEF Advances
  <1>6. MemoryIsPast(k) /\ PendingIsCurrent(k)
    BY <1>4 DEF LineageInv, MemoryIsPast, PendingIsCurrent, DeltaEligible, HasPending
  <1>7. EvictState(l, c) = IF l.delta_base = c THEN StartRecovery(k) ELSE k
    BY DEF EvictState, k, r
  <1>8. CASE l.delta_base = c
    <2>1. CanStartRecovery(k)
      BY <1>4, <1>8 DEF CanEvictState, CanStartRecovery
    <2> QED
      BY <1>0, <1>4, <1>5, <1>6, <1>7, <1>8, <2>1, RecoveryFrom
  <1>9. CASE l.delta_base # c
    <2>1. EligibleBase(k)
      BY <1>2, <1>4, <1>9 DEF LineageInv, EligibleBase, DeltaEligible, BaselineAvailable
    <2>2. EndsByItsOwnFull(l, k) /\ RecoveryBoundary(l, k)
      BY <1>4 DEF EndsByItsOwnFull, RecoveryBoundary, DeltaEligible
    <2> QED
      BY <1>4, <1>5, <1>6, <1>7, <1>9, <2>1, <2>2 DEF GoodStep, LineageInv
  <1> QED
    BY <1>8, <1>9

-----------------------------------------------------------------------------

\* m is l after an operation that neither emits nor confirms: it may have begun a
\* recovery, which drops what is pending.
Remains(l, m) ==
  /\ m.latest_confirmed = l.latest_confirmed /\ m.evidence = l.evidence
  /\ m.greatest_emitted = l.greatest_emitted
  /\ m.greatest_emitted_tick = l.greatest_emitted_tick
  /\ \/ m.generation = l.generation /\ m.delta_base = l.delta_base
     \/ /\ m.generation = l.generation + 1 /\ m.delta_base = NoCursor
        /\ m.pending = NoCandidate

LEMMA StartRecoveryRemains ==
  ASSUME NEW l \in Lineage
  PROVE  /\ Remains(l, StartRecovery(l))
         /\ StartRecovery(l).generation = l.generation + 1
         /\ StartRecovery(l).delta_base = NoCursor
         /\ StartRecovery(l).pending = NoCandidate
  BY DEF Remains, StartRecovery, Lineage

LEMMA PendingRemains ==
  ASSUME NEW l \in Lineage, NEW new
  PROVE  Remains(l, [l EXCEPT !.pending = new]) /\ [l EXCEPT !.pending = new].pending = new
  BY DEF Remains, Lineage

LEMMA EvictStateRemains ==
  ASSUME NEW l \in Lineage, NEW c
  PROVE  /\ Remains(l, EvictState(l, c))
         /\ EvictState(l, c).pending \in {l.pending, NoCandidate}
  BY DEF Remains, EvictState, StartRecovery, Lineage

\* m is l after the confirmation of c.
Confirmation(l, m, c) ==
  /\ m.latest_confirmed = c /\ m.evidence = l.evidence
  /\ m.greatest_emitted = l.greatest_emitted
  /\ m.greatest_emitted_tick = l.greatest_emitted_tick
  /\ \/ /\ m.generation = l.generation /\ m.pending = l.pending
        /\ \/ m.delta_base = c /\ (DeltaEligible(l) \/ QualifiesForRecovery(l, c))
           \/ m.delta_base = NoCursor /\ ~DeltaEligible(l)
     \/ /\ m.generation = l.generation + 1 /\ m.delta_base = NoCursor
        /\ m.pending = NoCandidate

LEMMA ConfirmFacts ==
  ASSUME NEW l \in Lineage, NEW c
  PROVE  Confirmation(l, Confirm(l, c), c)
  <1> DEFINE k == [l EXCEPT !.latest_confirmed = c]
             b == BecomeDeltaEligible(k, c)
             r == StartRecovery(k)
  <1>1. /\ k.latest_confirmed = c /\ k.evidence = l.evidence /\ k.pending = l.pending
        /\ k.greatest_emitted = l.greatest_emitted /\ k.generation = l.generation
        /\ k.greatest_emitted_tick = l.greatest_emitted_tick
        /\ k.delta_base = l.delta_base
    BY DEF Lineage
  <1>2. /\ b.latest_confirmed = c /\ b.evidence = l.evidence /\ b.pending = l.pending
        /\ b.greatest_emitted = l.greatest_emitted /\ b.generation = l.generation
        /\ b.greatest_emitted_tick = l.greatest_emitted_tick
        /\ b.delta_base = c
    BY DEF BecomeDeltaEligible, Lineage
  <1>3. /\ r.latest_confirmed = c /\ r.evidence = l.evidence /\ r.pending = NoCandidate
        /\ r.greatest_emitted = l.greatest_emitted /\ r.generation = l.generation + 1
        /\ r.greatest_emitted_tick = l.greatest_emitted_tick
        /\ r.delta_base = NoCursor
    BY DEF StartRecovery, Lineage
  <1>4. Confirm(l, c) = IF DeltaEligible(l)
                        THEN IF BaselineAvailable(l, c) THEN b ELSE r
                        ELSE IF QualifiesForRecovery(l, c) THEN b ELSE k
    BY DEF Confirm
  <1> HIDE DEF k, b, r
  <1> QED
    BY <1>1, <1>2, <1>3, <1>4 DEF Confirmation, DeltaEligible

-----------------------------------------------------------------------------
(* The lineages of a session                                               *)

LineagesInv ==
  /\ DOMAIN lineages \subseteq Participants
  /\ \A p \in DOMAIN lineages : LineageInv(lineages[p])

LEMMA UpdateStep ==
  ASSUME LineagesInv, NEW p \in DOMAIN lineages, NEW m, GoodStep(lineages[p], m), Update(p, m)
  PROVE  LineagesInv' /\ \A q \in DOMAIN lineages \cap DOMAIN lineages' :
                    GoodStep(lineages[q], lineages'[q])
  <1>1. DOMAIN lineages' = DOMAIN lineages
    BY DEF Update
  <1>2. \A q \in DOMAIN lineages : lineages'[q] = IF q = p THEN m ELSE lineages[q]
    BY DEF Update
  <1>3. \A q \in DOMAIN lineages : GoodStep(lineages[q], lineages'[q])
    BY <1>2, SameIsGood DEF LineagesInv
  <1>4. \A q \in DOMAIN lineages' : LineageInv(lineages'[q])
    BY <1>1, <1>3 DEF GoodStep
  <1> QED
    BY <1>1, <1>3, <1>4 DEF LineagesInv

LEMMA NextIsGood ==
  ASSUME LineagesInv, [AuthorityNext]_lineages
  PROVE  LineagesInv' /\ \A q \in DOMAIN lineages \cap DOMAIN lineages' :
                    GoodStep(lineages[q], lineages'[q])
  <1> DEFINE Good == LineagesInv' /\ \A q \in DOMAIN lineages \cap DOMAIN lineages' :
                                GoodStep(lineages[q], lineages'[q])
  <1>1. ASSUME NEW p \in Participants, AddLineage(p)
        PROVE  Good
    <2>1. /\ DOMAIN lineages' = DOMAIN lineages \cup {p} /\ lineages'[p] = NewLineage
          /\ \A q \in DOMAIN lineages : lineages'[q] = lineages[q]
      BY <1>1 DEF AddLineage, Put
    <2>2. \A q \in DOMAIN lineages' : LineageInv(lineages'[q])
      BY <2>1, NewLineageInv DEF LineagesInv
    <2>3. \A q \in DOMAIN lineages : GoodStep(lineages[q], lineages'[q])
      BY <2>1, SameIsGood DEF LineagesInv
    <2> QED
      BY <2>1, <2>2, <2>3 DEF LineagesInv
  <1>2. ASSUME NEW p \in DOMAIN lineages, RemoveLineage(p)
        PROVE  Good
    <2>1. /\ DOMAIN lineages' = DOMAIN lineages \ {p}
          /\ \A q \in DOMAIN lineages' : lineages'[q] = lineages[q]
      BY <1>2 DEF RemoveLineage, Drop, Restrict
    <2>2. \A q \in DOMAIN lineages' : LineageInv(lineages'[q])
      BY <2>1 DEF LineagesInv
    <2>3. \A q \in DOMAIN lineages' : GoodStep(lineages[q], lineages'[q])
      BY <2>1, SameIsGood DEF LineagesInv
    <2> QED
      BY <2>1, <2>2, <2>3 DEF LineagesInv
  <1> HIDE DEF Good
  <1>3. ASSUME NEW p \in DOMAIN lineages, Prepare(p)
        PROVE  Good
    <2> SUFFICES ASSUME NEW cursor \in Cursor, NEW tick \in Tick, NEW image \in Images,
                        \/ \E designate \in BOOLEAN :
                             PrepareFullSnapshot(p, cursor, tick, image, designate)
                        \/ \E extra \in ExtraBytes :
                             PrepareDeltaSnapshot(p, cursor, tick, image, extra)
                 PROVE  Good
      BY <1>3 DEF Prepare
    <2>0. LineageInv(lineages[p])
      BY DEF LineagesInv
    <2>1. ASSUME NEW designate \in BOOLEAN,
                 PrepareFullSnapshot(p, cursor, tick, image, designate)
          PROVE  Good
      BY <2>0, <2>1, PrepareFullIsGood, UpdateStep DEF PrepareFullSnapshot, Good
    <2>2. ASSUME NEW extra \in ExtraBytes,
                 PrepareDeltaSnapshot(p, cursor, tick, image, extra)
          PROVE  Good
      <3>1. extra \in Nat
        BY AuthorityReplicationAssumption
      <3> QED
        BY <2>0, <2>2, <3>1, PrepareDeltaIsGood, UpdateStep DEF PrepareDeltaSnapshot, Good
    <2> QED
      BY <2>1, <2>2
  <1>4. ASSUME NEW p \in DOMAIN lineages, RecordAccepted(p)
        PROVE  Good
    BY <1>4, EmitIsGood, UpdateStep DEF RecordAccepted, LineagesInv, Good
  <1>5. ASSUME NEW p \in DOMAIN lineages, CancelCandidate(p)
        PROVE  Good
    BY <1>5, CancelIsGood, UpdateStep DEF CancelCandidate, LineagesInv, Good
  <1>6. ASSUME NEW p \in DOMAIN lineages, NEW cursor \in Cursor,
               AcknowledgeAuthorized(p, cursor)
        PROVE  Good
    BY <1>6, ConfirmIsGood, UpdateStep DEF AcknowledgeAuthorized, LineagesInv, Good
  <1>7. ASSUME NEW p \in DOMAIN lineages, RequireFullRecovery(p) \/ ConnectionReplaced(p)
        PROVE  Good
    BY <1>7, StartRecoveryIsGood, UpdateStep
    DEF RequireFullRecovery, CanRequireFull, ConnectionReplaced, LineagesInv, Good
  <1>8. ASSUME NEW p \in DOMAIN lineages, NEW cursor \in Cursor,
               EvictRetainedState(p, cursor)
        PROVE  Good
    BY <1>8, EvictStateIsGood, UpdateStep DEF EvictRetainedState, LineagesInv, Good
  <1>9. CASE UNCHANGED lineages
    BY <1>9, SameIsGood DEF LineagesInv, Good
  <1> QED
    BY <1>1, <1>2, <1>3, <1>4, <1>5, <1>6, <1>7, <1>8, <1>9 DEF AuthorityNext, Operate, Good

LEMMA LineagesInvariance == AuthoritySpec => []LineagesInv
  <1>1. AuthorityInit => LineagesInv
    BY EmptyMapIsEmpty DEF AuthorityInit, LineagesInv
  <1>2. LineagesInv /\ [AuthorityNext]_lineages => LineagesInv'
    BY NextIsGood
  <1> QED
    BY <1>1, <1>2, PTL DEF AuthoritySpec

-----------------------------------------------------------------------------

\* Every lineage is a record the code's types allow; in particular no recovery
\* begins past the last generation.
THEOREM AuthorityTypeCorrect == AuthoritySpec => []AuthorityTypeOK
  <1>1. LineagesInv => AuthorityTypeOK
    BY DEF LineagesInv, AuthorityTypeOK, LineageInv
  <1> QED
    BY <1>1, LineagesInvariance, PTL

\* A delta-eligible lineage always retains the state its deltas are built on,
\* and that state is the last one the peer confirmed.
THEOREM BaseAlwaysAvailable == AuthoritySpec => []EligibleBaseIsConfirmedAndRetained
  <1>1. LineagesInv => EligibleBaseIsConfirmedAndRetained
    BY DEF LineagesInv, EligibleBaseIsConfirmedAndRetained, LineageInv
  <1> QED
    BY <1>1, LineagesInvariance, PTL

\* No delta, and no full snapshot for an earlier generation, can be emitted
\* after the boundary of a recovery.
THEOREM PendingNeverCrossesRecovery == AuthoritySpec => []NoPendingWorkCrossesRecovery
  <1>1. LineagesInv => NoPendingWorkCrossesRecovery
    BY DEF LineagesInv, NoPendingWorkCrossesRecovery, LineageInv
  <1> QED
    BY <1>1, LineagesInvariance, PTL

\* A recovery ends only with a confirmed full snapshot of its own.
THEOREM RecoveryEndsProperly == AuthoritySpec => RecoveryEndsByItsOwnFull
  <1>1. LineagesInv /\ [AuthorityNext]_lineages =>
          [\A p \in DOMAIN lineages \cap DOMAIN lineages' :
             EndsByItsOwnFull(lineages[p], lineages'[p])]_lineages
    BY NextIsGood DEF GoodStep
  <1> QED
    BY <1>1, LineagesInvariance, PTL DEF AuthoritySpec, RecoveryEndsByItsOwnFull

\* Losing delta eligibility always opens the next recovery generation, at the
\* greatest emitted cursor and with nothing pending.
THEOREM BoundariesAreGenerations == AuthoritySpec => EveryBoundaryIsAGeneration
  <1>1. LineagesInv /\ [AuthorityNext]_lineages =>
          [\A p \in DOMAIN lineages \cap DOMAIN lineages' :
             RecoveryBoundary(lineages[p], lineages'[p])]_lineages
    BY NextIsGood DEF GoodStep
  <1> QED
    BY <1>1, LineagesInvariance, PTL DEF AuthoritySpec, EveryBoundaryIsAGeneration

\* Cursors and ticks never go back, and an emission's evidence is never
\* rewritten.
THEOREM LineagesAdvance == AuthoritySpec => LineagesOnlyAdvance
  <1>1. LineagesInv /\ [AuthorityNext]_lineages =>
          [\A p \in DOMAIN lineages \cap DOMAIN lineages' :
             Advances(lineages[p], lineages'[p])]_lineages
    BY NextIsGood DEF GoodStep
  <1> QED
    BY <1>1, LineagesInvariance, PTL DEF AuthoritySpec, LineagesOnlyAdvance
-----------------------------------------------------------------------------
(* The limits. Only preparation looks at them. A lineage keeps within its  *)
(* own because an emission evicts first, and nothing but a preparation     *)
(* makes the sum of what a lineage holds and what is reserved for its      *)
(* pending snapshot any greater.                                           *)

\* The oldest-first eviction stops at the first suffix of S that is in the
\* family fitting, and fails only if not even the empty suffix is.
LEMMA EvictionFits ==
  ASSUME NEW S, S \subseteq Cursor, NEW fitting, {} \in fitting
  PROVE  S \ {c \in S : \A x \in S : x <= c => S \ {d \in S : d < x} \notin fitting} \in fitting
  <1> DEFINE gone == {c \in S : \A x \in S : x <= c => S \ {d \in S : d < x} \notin fitting}
             Below(c) == {d \in S : d < c}
             family == {Below(c) : c \in S \ gone}
  <1>1. CASE S = gone
    BY <1>1
  <1>2. CASE S # gone
    <2>1. IsFiniteSet(S)
      <3>1. IsFiniteSet(Cursor)
        <4>1. 1 \in Int /\ MaxCursor \in Int
          BY ReplicationModelAssumption
        <4> QED
          BY <4>1, FS_Interval DEF Cursor
      <3> QED
        BY <3>1, FS_Subset
    <2>2. family \subseteq SUBSET S /\ family # {}
      BY <1>2
    <2>3. PICK T \in family : \A U \in family : U \subseteq T => U = T
      <3> HIDE DEF family
      <3> QED
        BY <2>1, <2>2, SmallestSet
    <2>4. PICK c \in S \ gone : T = Below(c)
      BY <2>3
    <2>5. \A d \in S : d \in Nat
      BY Numbers
    <2>6. ASSUME NEW d \in S, d < c PROVE d \in gone
      <3> SUFFICES ASSUME d \notin gone PROVE FALSE
        OBVIOUS
      <3>1. Below(d) \in family /\ Below(d) \subseteq T
        BY <2>4, <2>5, <2>6
      <3>2. Below(d) = T
        BY <2>3, <3>1
      <3>3. d \in T /\ d \notin Below(d)
        BY <2>4, <2>5, <2>6
      <3> QED
        BY <3>2, <3>3
    <2>7. PICK x \in S : x <= c /\ S \ Below(x) \in fitting
      BY <2>4
    <2>8. x = c
      <3>1. x \notin gone
        BY <2>5, <2>7
      <3>2. ~(x < c)
        BY <2>6, <3>1
      <3> QED
        BY <2>5, <2>7, <3>2
    <2>9. ASSUME NEW d \in S, ~(d < c) PROVE d \notin gone
      BY <2>5, <2>7, <2>8, <2>9
    <2>10. S \ gone = S \ Below(c)
      BY <2>6, <2>9
    <2> QED
      BY <2>7, <2>8, <2>10
  <1> QED
    BY <1>1, <1>2

\* Counting the sets of cursors of a lineage.
LEMMA CursorsAreFinite ==
  ASSUME NEW S, S \subseteq Cursor
  PROVE  IsFiniteSet(S) /\ Cardinality(S) \in Nat
  <1>1. 1 \in Int /\ MaxCursor \in Int
    BY ReplicationModelAssumption
  <1>2. IsFiniteSet(Cursor)
    BY <1>1, FS_Interval DEF Cursor
  <1> QED
    BY <1>2, FS_Subset, FS_CardinalityType

\* The accounted sizes of retained images.
LEMMA BytesAreNat ==
  ASSUME NEW r \in Retention, NEW cursors, cursors \subseteq DOMAIN r
  PROVE  BytesOf(r, cursors) \in Nat
  <1> DEFINE f == [c \in cursors |-> ImageBytes[r[c].image]]
  <1>1. r \in [DOMAIN r -> Retained] /\ DOMAIN r \subseteq Cursor
    BY RetentionIsPartialMap
  <1>2. f \in [cursors -> Nat]
    BY <1>1, ReplicationModelAssumption DEF Retained
  <1>3. IsFiniteSet(cursors)
    BY <1>1, CursorsAreFinite
  <1> HIDE DEF f
  <1>4. SumFunction(f) \in Nat
    BY <1>2, <1>3, SumIsNat
  <1> QED
    BY <1>4 DEF BytesOf, f

\* Evicting images frees what they occupied.
LEMMA EvictionFrees ==
  ASSUME NEW r \in Retention, NEW gone
  PROVE  LET kept == Drop(r, gone)
         IN /\ kept \in Retention /\ DOMAIN kept = DOMAIN r \ gone
            /\ BytesOf(kept, DOMAIN kept) = BytesOf(r, DOMAIN r \ gone)
            /\ BytesOf(r, DOMAIN r \ gone) <= BytesOf(r, DOMAIN r)
            /\ Cardinality(DOMAIN kept) <= Cardinality(DOMAIN r)
  <1> DEFINE kept == Drop(r, gone)
             S == DOMAIN r
             T == S \ gone
             f == [c \in S |-> ImageBytes[r[c].image]]
             g == [c \in T |-> ImageBytes[r[c].image]]
  <1>1. r \in [S -> Retained] /\ S \subseteq Cursor
    BY RetentionIsPartialMap
  <1>2. DOMAIN kept = T /\ \A c \in T : kept[c] = r[c]
    BY DEF Drop, Restrict
  <1>3. kept \in Retention
    <2>1. kept \in [DOMAIN kept -> Retained]
      BY <1>1 DEF Drop, Restrict
    <2> HIDE DEF kept
    <2> QED
      BY <1>1, <1>2, <2>1, RetentionIsPartialMap
  <1>4. BytesOf(kept, DOMAIN kept) = BytesOf(r, T)
    BY <1>2 DEF BytesOf
  <1>5. f \in [S -> Nat] /\ g \in [T -> Nat]
    BY <1>1, ReplicationModelAssumption DEF Retained
  <1>6. /\ IsFiniteSet(S) /\ IsFiniteSet(T) /\ IsFiniteSet(S \ T) /\ T \in SUBSET S
    BY <1>1, CursorsAreFinite, FS_Subset
  <1>7. BytesOf(r, S) = SumFunction(f) /\ BytesOf(r, T) = SumFunction(g)
    BY DEF BytesOf
  <1>8. \A c \in T : g[c] = f[c]
    OBVIOUS
  <1>10. Cardinality(DOMAIN kept) <= Cardinality(DOMAIN r)
    BY <1>2, <1>6, FS_Subset
  <1> HIDE DEF f, g, S, T, kept
  <1>9. SumFunction(g) <= SumFunction(f)
    <2>1. f \in [S -> Int] /\ \A c \in S \ T : f[c] \in Int /\ f[c] >= 0
      BY <1>5, <1>6
    <2>2. SumFunction(f) = SumFunctionOnSet(f, T) + SumFunctionOnSet(f, S \ T)
      BY <1>6, <2>1, SumSplits
    <2>3. SumFunction(g) = SumFunctionOnSet(f, T)
      BY <1>5, <1>6, <1>8, SumOverSubset
    <2>4. SumFunctionOnSet(f, S \ T) \in Int /\ SumFunctionOnSet(f, S \ T) >= 0
      BY <1>6, <2>1, SumType
    <2>5. SumFunction(g) \in Nat
      BY <1>5, <1>6, SumIsNat
    <2> QED
      BY <2>2, <2>3, <2>4, <2>5
  <1> QED
    BY <1>2, <1>3, <1>4, <1>7, <1>9, <1>10 DEF S, T, kept

\* Retaining an image costs its size, or less when it replaces another.
LEMMA RetentionCosts ==
  ASSUME NEW r \in Retention, NEW cursor \in Cursor, NEW tick \in Tick, NEW image \in Images
  PROVE  LET put == Put(r, cursor, [tick |-> tick, image |-> image])
         IN /\ BytesOf(put, DOMAIN put) <= BytesOf(r, DOMAIN r) + ImageBytes[image]
            /\ Cardinality(DOMAIN put) <= Cardinality(DOMAIN r) + 1
            /\ put \in Retention
  <1> DEFINE put == Put(r, cursor, [tick |-> tick, image |-> image])
             S == DOMAIN r
             T == DOMAIN put
             f == [c \in S |-> ImageBytes[r[c].image]]
             g == [c \in T |-> ImageBytes[put[c].image]]
  <1>1. r \in [S -> Retained] /\ S \subseteq Cursor
    BY RetentionIsPartialMap
  <1>2. /\ T = S \cup {cursor} /\ put[cursor].image = image
        /\ \A c \in S : c # cursor => put[c] = r[c]
    BY DEF Put
  <1>3. put \in Retention
    <2>1. put \in [T -> Retained]
      BY <1>1 DEF Put, Retained
    <2> HIDE DEF put
    <2> QED
      BY <1>1, <1>2, <2>1, RetentionIsPartialMap
  <1>4. f \in [S -> Nat] /\ g \in [T -> Nat] /\ ImageBytes[image] \in Nat
    <2>1. put \in [T -> Retained]
      BY <1>3, RetentionIsPartialMap
    <2> HIDE DEF put
    <2> QED
      BY <1>1, <2>1, ReplicationModelAssumption DEF Retained
  <1>5. IsFiniteSet(S) /\ Cardinality(T) <= Cardinality(S) + 1
    BY <1>1, <1>2, CursorsAreFinite, FS_AddElement
  <1>6. BytesOf(r, S) = SumFunction(f) /\ BytesOf(put, T) = SumFunction(g)
    BY DEF BytesOf
  <1>7. g[cursor] = ImageBytes[image] /\ \A c \in S : c # cursor => g[c] = f[c]
    BY <1>2
  <1> HIDE DEF f, g, S, T, put
  <1>8. SumFunction(g) <= SumFunction(f) + ImageBytes[image]
    <2>1. SumFunction(f) \in Int
      BY <1>4, <1>5, SumIsNat
    <2>2. CASE cursor \in S
      <3>1. /\ f \in [S -> Int] /\ g \in [S -> Int] /\ \A c \in S \ {cursor} : g[c] = f[c]
            /\ T = S
        BY <1>2, <1>4, <1>7, <2>2
      <3>2. SumFunction(g) = SumFunction(f) - f[cursor] + g[cursor]
        BY <1>5, <2>2, <3>1, SumChanges
      <3>3. f[cursor] \in Nat
        BY <1>4, <2>2
      <3> QED
        BY <1>4, <1>7, <2>1, <3>2, <3>3
    <2>3. CASE cursor \notin S
      <3>1. f \in [S -> Int] /\ g \in [T -> Int] /\ \A c \in S : g[c] = f[c]
        BY <1>4, <1>7, <2>3
      <3>2. SumFunction(g) = SumFunction(f) + g[cursor]
        BY <1>2, <1>5, <2>3, <3>1, SumGrows
      <3> QED
        BY <1>4, <1>7, <2>1, <3>2
    <2> QED
      BY <2>2, <2>3
  <1> QED
    BY <1>3, <1>5, <1>6, <1>8 DEF S, T, put

LEMMA LimitsAreNat ==
  /\ AuthorityLimits.images \in Nat /\ AuthorityLimits.retained_bytes \in Nat
  /\ AuthorityLimits.evidence \in Nat \ {0}
  /\ SessionLimits.state_bytes \in Nat /\ SessionLimits.images \in Nat
  /\ SessionLimits.retained_bytes \in Nat /\ SessionLimits.evidence \in Nat
  BY AuthorityLineageAssumption, AuthorityReplicationAssumption
  DEF ValidLimits, RetentionLimits

\* What a lineage holds and has reserved.
LEMMA HoldingsAreNat ==
  ASSUME NEW l \in Lineage
  PROVE  /\ RetainedBytes(l) \in Nat /\ ImageCount(l) \in Nat /\ EvidenceCount(l) \in Nat
         /\ PendingCount(l) \in Nat /\ PendingStateBytes(l) \in Nat
         /\ PendingCandidateBytes(l) \in Nat
         /\ PendingStateBytes(l) <= PendingCandidateBytes(l)
  <1>1. l.retained \in Retention /\ DOMAIN l.retained \subseteq Cursor
        /\ DOMAIN l.evidence \subseteq Cursor
    BY LineageType DEF Lineage
  <1>2. RetainedBytes(l) \in Nat
    BY <1>1, BytesAreNat DEF RetainedBytes
  <1>3. ImageCount(l) \in Nat /\ EvidenceCount(l) \in Nat
    BY <1>1, CursorsAreFinite DEF ImageCount, EvidenceCount
  <1>4. HasPending(l) => ImageBytes[l.pending.image] \in Nat /\ l.pending.extra \in Nat
    BY PendingType, ReplicationModelAssumption DEF Candidate
  <1> QED
    BY <1>2, <1>3, <1>4 DEF PendingCount, PendingStateBytes, PendingCandidateBytes

\* The image is retained within the limits of the lineage or not at all.
LEMMA RetainStateKeepsLimits ==
  ASSUME NEW l \in Lineage, NEW cursor \in Cursor, NEW tick \in Tick, NEW image \in Images
  PROVE  \E r \in Retention :
           /\ RetainState(l, cursor, tick, image) = [l EXCEPT !.retained = r]
           /\ BytesOf(r, DOMAIN r) <= RetainedBytes(l) + ImageBytes[image]
           /\ Cardinality(DOMAIN r) <= ImageCount(l) + 1
           /\ ImageCount(l) <= AuthorityLimits.images
                => Cardinality(DOMAIN r) <= AuthorityLimits.images
           /\ RetainedBytes(l) <= AuthorityLimits.retained_bytes
                => BytesOf(r, DOMAIN r) <= AuthorityLimits.retained_bytes
  <1> DEFINE old == l.retained
             Fits(gone) == HasRoom(old, gone, image, AuthorityLimits)
             evicted == EvictOldest(DOMAIN old \ {l.delta_base}, Fits)
             kept == Drop(old, evicted)
             put == Put(kept, cursor, [tick |-> tick, image |-> image])
             r == IF Fits(evicted) THEN put ELSE kept
  <1>1. RetainState(l, cursor, tick, image) = [l EXCEPT !.retained = r]
    BY DEF RetainState
  <1>2. old \in Retention
    BY DEF Lineage
  <1>3. Fits(evicted) => /\ Cardinality(DOMAIN old \ evicted) < AuthorityLimits.images
                         /\ BytesOf(old, DOMAIN old \ evicted) + ImageBytes[image]
                              <= AuthorityLimits.retained_bytes
    BY DEF HasRoom
  <1> HIDE DEF evicted, old, Fits
  <1>4. /\ kept \in Retention /\ DOMAIN kept = DOMAIN old \ evicted
        /\ BytesOf(kept, DOMAIN kept) = BytesOf(old, DOMAIN old \ evicted)
        /\ BytesOf(kept, DOMAIN kept) <= BytesOf(old, DOMAIN old)
        /\ Cardinality(DOMAIN kept) <= Cardinality(DOMAIN old)
    BY <1>2, EvictionFrees
  <1> HIDE DEF kept
  <1>5. /\ BytesOf(put, DOMAIN put) <= BytesOf(kept, DOMAIN kept) + ImageBytes[image]
        /\ Cardinality(DOMAIN put) <= Cardinality(DOMAIN kept) + 1
        /\ put \in Retention
    BY <1>4, RetentionCosts
  <1>6. /\ BytesOf(kept, DOMAIN kept) \in Nat /\ Cardinality(DOMAIN kept) \in Nat
        /\ BytesOf(old, DOMAIN old) \in Nat /\ Cardinality(DOMAIN old) \in Nat
        /\ ImageBytes[image] \in Nat
    <2>1. DOMAIN kept \subseteq Cursor /\ DOMAIN old \subseteq Cursor
      BY <1>2, <1>4, RetentionIsPartialMap
    <2> QED
      BY <1>2, <1>4, <2>1, BytesAreNat, CursorsAreFinite, ReplicationModelAssumption
  <1>7. /\ BytesOf(put, DOMAIN put) \in Nat /\ Cardinality(DOMAIN put) \in Nat
    <2> HIDE DEF put
    <2>1. DOMAIN put \subseteq Cursor
      BY <1>5, RetentionIsPartialMap
    <2> QED
      BY <1>5, <2>1, BytesAreNat, CursorsAreFinite
  <1> HIDE DEF put
  <1>8. /\ RetainedBytes(l) = BytesOf(old, DOMAIN old) /\ ImageCount(l) = Cardinality(DOMAIN old)
    BY DEF RetainedBytes, ImageCount, old
  <1> HIDE DEF r
  <1>9. \/ r = put /\ Fits(evicted)
        \/ r = kept
    BY DEF r
  <1>10. CASE r = kept
    BY <1>1, <1>4, <1>6, <1>8, <1>10, LimitsAreNat
  <1>11. CASE r = put /\ Fits(evicted)
    <2>1. /\ BytesOf(put, DOMAIN put) <= AuthorityLimits.retained_bytes
          /\ Cardinality(DOMAIN put) <= AuthorityLimits.images
      BY <1>3, <1>4, <1>5, <1>6, <1>7, <1>11, LimitsAreNat
    <2>2. /\ BytesOf(put, DOMAIN put) <= RetainedBytes(l) + ImageBytes[image]
          /\ Cardinality(DOMAIN put) <= ImageCount(l) + 1
      BY <1>4, <1>5, <1>6, <1>7, <1>8
    <2> QED
      BY <1>1, <1>5, <1>11, <2>1, <2>2
  <1> QED
    BY <1>9, <1>10, <1>11

\* e is the evidence of l within its limit, with one more emission.
BoundedEvidence(e, l, cursor, kind, generation) ==
  /\ RetainEvidence(l, cursor, kind, generation) = [l EXCEPT !.evidence = e]
  /\ Cardinality(DOMAIN e) <= AuthorityLimits.evidence
  /\ Cardinality(DOMAIN e) <= EvidenceCount(l) + 1

\* Eviction always makes room for the evidence of one more emission.
LEMMA RetainEvidenceKeepsLimits ==
  ASSUME NEW l \in Lineage, NEW cursor \in Cursor, NEW kind, NEW generation
  PROVE  \E e : BoundedEvidence(e, l, cursor, kind, generation)
  <1> DEFINE known == DOMAIN l.evidence
             fitting == {T \in SUBSET known : Cardinality(T) < AuthorityLimits.evidence}
             Fits(gone) == Cardinality(known \ gone) < AuthorityLimits.evidence
             evicted == EvictOldest(known, Fits)
             gone_set == {c \in known : \A x \in known :
                            x <= c => known \ {d \in known : d < x} \notin fitting}
             kept == Drop(l.evidence, evicted)
             e == Put(kept, cursor, [kind |-> kind, generation |-> generation])
  <1>1. RetainEvidence(l, cursor, kind, generation) = [l EXCEPT !.evidence = e]
    BY DEF RetainEvidence
  <1>2. known \subseteq Cursor
    BY LineageType
  <1>3. evicted = gone_set
    BY DEF EvictOldest
  <1>4. DOMAIN e = (known \ evicted) \cup {cursor}
    BY DEF Put, Drop, Restrict
  <1>5. {} \in fitting
    BY LimitsAreNat, FS_EmptySet
  <1>6. known \ gone_set \in fitting
    <2> HIDE DEF fitting, known
    <2> QED
      BY <1>2, <1>5, EvictionFits
  <1>7. Cardinality(known \ evicted) < AuthorityLimits.evidence
    BY <1>3, <1>6
  <1>8. /\ IsFiniteSet(known \ evicted) /\ Cardinality(known \ evicted) \in Nat
        /\ IsFiniteSet(known) /\ Cardinality(known) \in Nat
        /\ Cardinality(known \ evicted) <= Cardinality(known)
    BY <1>2, CursorsAreFinite, FS_Subset
  <1>9. EvidenceCount(l) = Cardinality(known)
    BY DEF EvidenceCount
  <1> HIDE DEF e, evicted, known
  <1>10. Cardinality(DOMAIN e) \in Nat /\ Cardinality(DOMAIN e) <= Cardinality(known \ evicted) + 1
    BY <1>4, <1>8, FS_AddElement
  <1> QED
    BY <1>1, <1>7, <1>8, <1>9, <1>10, LimitsAreNat DEF BoundedEvidence

\* m holds and reserves no more than l, and keeps within the limits of a lineage.
Frugal(l, m) ==
  /\ RetainedBytes(m) + PendingCandidateBytes(m) <= RetainedBytes(l) + PendingCandidateBytes(l)
  /\ ImageCount(m) + PendingCount(m) <= ImageCount(l) + PendingCount(l)
  /\ RetainedBytes(m) + PendingStateBytes(m) <= RetainedBytes(l) + PendingStateBytes(l)
  /\ EvidenceCount(m) + PendingCount(m) <= EvidenceCount(l) + PendingCount(l)
  /\ WithinOwnLimits(m)

\* The emission uses what was reserved for it.
LEMMA EmitIsFrugal ==
  ASSUME NEW l \in Lineage, HasPending(l), WithinOwnLimits(l)
  PROVE  Frugal(l, Emit(l))
  <1> DEFINE c == l.pending
             emitted_l == [l EXCEPT !.pending = NoCandidate, !.greatest_emitted = c.cursor,
                                    !.greatest_emitted_tick = c.tick]
             m == Emit(l)
  <1>1. /\ c.cursor \in Cursor /\ c.tick \in Tick /\ c.image \in Images
    BY PendingType
  <1>2. emitted_l \in Lineage /\ emitted_l.retained = l.retained
        /\ emitted_l.evidence = l.evidence /\ emitted_l.pending = NoCandidate
    BY <1>1 DEF Lineage
  <1> HIDE DEF emitted_l, c
  <1>3. PICK r \in Retention :
           /\ RetainState(emitted_l, c.cursor, c.tick, c.image)
                = [emitted_l EXCEPT !.retained = r]
           /\ BytesOf(r, DOMAIN r) <= RetainedBytes(emitted_l) + ImageBytes[c.image]
           /\ Cardinality(DOMAIN r) <= ImageCount(emitted_l) + 1
           /\ ImageCount(emitted_l) <= AuthorityLimits.images
                => Cardinality(DOMAIN r) <= AuthorityLimits.images
           /\ RetainedBytes(emitted_l) <= AuthorityLimits.retained_bytes
                => BytesOf(r, DOMAIN r) <= AuthorityLimits.retained_bytes
    BY <1>1, <1>2, RetainStateKeepsLimits
  <1> DEFINE n == [emitted_l EXCEPT !.retained = r]
  <1>4. n \in Lineage /\ n.retained = r /\ n.evidence = l.evidence /\ n.pending = NoCandidate
    BY <1>2 DEF Lineage
  <1> HIDE DEF n
  <1>a. PICK e : BoundedEvidence(e, n, c.cursor, c.kind, c.generation)
    BY <1>1, <1>4, RetainEvidenceKeepsLimits
  <1>5. /\ RetainEvidence(n, c.cursor, c.kind, c.generation) = [n EXCEPT !.evidence = e]
        /\ Cardinality(DOMAIN e) <= AuthorityLimits.evidence
        /\ Cardinality(DOMAIN e) <= EvidenceCount(n) + 1
    BY <1>a DEF BoundedEvidence
  <1>6. m = [n EXCEPT !.evidence = e]
    BY <1>3, <1>5 DEF Emit, emitted_l, n, c
  <1>7. m.retained = r /\ m.evidence = e /\ m.pending = NoCandidate /\ m \in Lineage
    <2>1. m.retained = r /\ m.evidence = e /\ m.pending = NoCandidate
      <3> HIDE DEF m
      <3> QED
        BY <1>4, <1>6 DEF Lineage
    <2>2. m \in Lineage
      BY EmitFacts DEF Emission
    <2> QED
      BY <2>1, <2>2
  <1>8. /\ RetainedBytes(emitted_l) = RetainedBytes(l) /\ ImageCount(emitted_l) = ImageCount(l)
        /\ EvidenceCount(n) = EvidenceCount(l)
    BY <1>2, <1>4 DEF RetainedBytes, ImageCount, EvidenceCount
  <1>9. /\ RetainedBytes(m) = BytesOf(r, DOMAIN r) /\ ImageCount(m) = Cardinality(DOMAIN r)
        /\ EvidenceCount(m) = Cardinality(DOMAIN e)
        /\ PendingCount(m) = 0 /\ PendingStateBytes(m) = 0 /\ PendingCandidateBytes(m) = 0
    BY <1>7 DEF RetainedBytes, ImageCount, EvidenceCount, PendingCount, PendingStateBytes,
                PendingCandidateBytes, HasPending
  <1>10. PendingCount(l) = 1 /\ PendingStateBytes(l) = ImageBytes[c.image]
    BY DEF PendingCount, PendingStateBytes, c
  <1>11. WithinOwnLimits(m)
    BY <1>3, <1>5, <1>8, <1>9 DEF WithinOwnLimits
  <1> HIDE DEF m
  <1>12. /\ RetainedBytes(m) <= RetainedBytes(l) + PendingStateBytes(l)
         /\ ImageCount(m) <= ImageCount(l) + PendingCount(l)
         /\ EvidenceCount(m) <= EvidenceCount(l) + PendingCount(l)
    BY <1>3, <1>5, <1>8, <1>9, <1>10
  <1> QED
    BY <1>7, <1>9, <1>11, <1>12, HoldingsAreNat DEF Frugal, m

\* An operation that retains nothing new and prepares nothing.
LEMMA ForgettingIsFrugal ==
  ASSUME NEW l \in Lineage, WithinOwnLimits(l), NEW m \in Lineage,
         m.pending \in {l.pending, NoCandidate}, m.evidence = l.evidence,
         NEW gone, m.retained \in {l.retained, Drop(l.retained, gone)}
  PROVE  Frugal(l, m)
  <1>1. l.retained \in Retention
    BY DEF Lineage
  <1>2. /\ BytesOf(m.retained, DOMAIN m.retained) <= BytesOf(l.retained, DOMAIN l.retained)
        /\ Cardinality(DOMAIN m.retained) <= Cardinality(DOMAIN l.retained)
    <2>1. CASE m.retained = l.retained
      <3>1. RetainedBytes(l) \in Nat /\ ImageCount(l) \in Nat
        BY HoldingsAreNat
      <3> QED
        BY <2>1, <3>1 DEF RetainedBytes, ImageCount
    <2>2. CASE m.retained = Drop(l.retained, gone)
      <3> DEFINE old == l.retained
                 kept == Drop(old, gone)
      <3>1. m.retained = kept /\ old \in Retention
        BY <1>1, <2>2
      <3> HIDE DEF old
      <3>2. /\ DOMAIN kept = DOMAIN old \ gone
            /\ BytesOf(kept, DOMAIN kept) = BytesOf(old, DOMAIN old \ gone)
            /\ BytesOf(old, DOMAIN old \ gone) <= BytesOf(old, DOMAIN old)
            /\ Cardinality(DOMAIN kept) <= Cardinality(DOMAIN old)
        BY <3>1, EvictionFrees
      <3> HIDE DEF kept
      <3> QED
        BY <3>1, <3>2 DEF old
    <2> QED
      BY <2>1, <2>2
  <1>3. /\ RetainedBytes(m) <= RetainedBytes(l) /\ ImageCount(m) <= ImageCount(l)
        /\ EvidenceCount(m) = EvidenceCount(l)
    BY <1>2 DEF RetainedBytes, ImageCount, EvidenceCount
  <1>4. /\ PendingCount(m) \in {PendingCount(l), 0}
        /\ PendingStateBytes(m) \in {PendingStateBytes(l), 0}
        /\ PendingCandidateBytes(m) \in {PendingCandidateBytes(l), 0}
    BY DEF PendingCount, PendingStateBytes, PendingCandidateBytes, HasPending
  <1>5. WithinOwnLimits(m)
    BY <1>3, HoldingsAreNat, LimitsAreNat DEF WithinOwnLimits
  <1> QED
    BY <1>3, <1>4, <1>5, HoldingsAreNat DEF Frugal

\* The results of the operations on l that may forget the state at c.
Forgetting(l, c) == {CancelPending(l), StartRecovery(l), Confirm(l, c), EvictState(l, c)}

LEMMA OperationsForget ==
  ASSUME NEW l \in Lineage, NEW c, NEW m \in Forgetting(l, c)
  PROVE  /\ m.pending \in {l.pending, NoCandidate} /\ m.evidence = l.evidence
         /\ m.retained \in {l.retained, Drop(l.retained, {c})}
  <1>1. CASE m \in {CancelPending(l), StartRecovery(l)}
    BY <1>1 DEF CancelPending, StartRecovery, Lineage
  <1>2. CASE m = Confirm(l, c)
    BY <1>2 DEF Confirm, BecomeDeltaEligible, StartRecovery, Lineage
  <1>3. CASE m = EvictState(l, c)
    BY <1>3 DEF EvictState, StartRecovery, Lineage
  <1> QED
    BY <1>1, <1>2, <1>3 DEF Forgetting

-----------------------------------------------------------------------------
(* The shared limits. Total(F, ls) is the sum of the size F over lineages. *)

Total(F, ls) == SumFunction([p \in DOMAIN ls |-> F[ls[p]]])

Size == [retained |-> [l \in Lineage |-> RetainedBytes(l)],
         images |-> [l \in Lineage |-> ImageCount(l)],
         evidence |-> [l \in Lineage |-> EvidenceCount(l)],
         pending |-> [l \in Lineage |-> PendingCount(l)],
         pending_state |-> [l \in Lineage |-> PendingStateBytes(l)],
         pending_candidate |-> [l \in Lineage |-> PendingCandidateBytes(l)]]

LEMMA SizesAreNat ==
  /\ Size.retained \in [Lineage -> Nat] /\ Size.images \in [Lineage -> Nat]
  /\ Size.evidence \in [Lineage -> Nat] /\ Size.pending \in [Lineage -> Nat]
  /\ Size.pending_state \in [Lineage -> Nat] /\ Size.pending_candidate \in [Lineage -> Nat]
  BY HoldingsAreNat DEF Size

LEMMA FitIsTotal ==
  ASSUME NEW ls, \A p \in DOMAIN ls : ls[p] \in Lineage
  PROVE  AggregateReservationsFit(ls) <=>
           /\ Total(Size.retained, ls) + Total(Size.pending_candidate, ls)
                <= SessionLimits.state_bytes
           /\ Total(Size.images, ls) + Total(Size.pending, ls) <= SessionLimits.images
           /\ Total(Size.retained, ls) + Total(Size.pending_state, ls)
                <= SessionLimits.retained_bytes
           /\ Total(Size.evidence, ls) + Total(Size.pending, ls) <= SessionLimits.evidence
  <1>1. /\ Total(Size.retained, ls) = Sum(RetainedBytes, ls)
        /\ Total(Size.images, ls) = Sum(ImageCount, ls)
        /\ Total(Size.evidence, ls) = Sum(EvidenceCount, ls)
        /\ Total(Size.pending, ls) = Sum(PendingCount, ls)
        /\ Total(Size.pending_state, ls) = Sum(PendingStateBytes, ls)
        /\ Total(Size.pending_candidate, ls) = Sum(PendingCandidateBytes, ls)
    BY DEF Total, Size, Sum
  <1> QED
    BY <1>1 DEF AggregateReservationsFit

LEMMA TotalIsNat ==
  ASSUME NEW F \in [Lineage -> Nat], NEW ls, IsFiniteSet(DOMAIN ls),
         \A p \in DOMAIN ls : ls[p] \in Lineage
  PROVE  Total(F, ls) \in Nat
  <1> DEFINE D == DOMAIN ls
             f == [p \in D |-> F[ls[p]]]
  <1>1. f \in [D -> Nat] /\ IsFiniteSet(D)
    OBVIOUS
  <1> HIDE DEF f, D
  <1>2. SumFunction(f) \in Nat
    BY <1>1, SumIsNat
  <1> QED
    BY <1>2 DEF Total, f, D

LEMMA TotalChanges ==
  ASSUME NEW F \in [Lineage -> Nat], NEW ls, IsFiniteSet(DOMAIN ls),
         \A q \in DOMAIN ls : ls[q] \in Lineage,
         NEW p \in DOMAIN ls, NEW m \in Lineage
  PROVE  Total(F, [ls EXCEPT ![p] = m]) = Total(F, ls) - F[ls[p]] + F[m]
  <1> DEFINE D == DOMAIN ls
             ls2 == [ls EXCEPT ![p] = m]
             f == [q \in D |-> F[ls[q]]]
             g == [q \in DOMAIN ls2 |-> F[ls2[q]]]
  <1>1. /\ f \in [D -> Int] /\ g \in [D -> Int] /\ IsFiniteSet(D) /\ p \in D
        /\ \A q \in D \ {p} : g[q] = f[q]
        /\ f[p] = F[ls[p]] /\ g[p] = F[m]
    OBVIOUS
  <1>2. Total(F, ls) = SumFunction(f) /\ Total(F, ls2) = SumFunction(g)
    BY DEF Total
  <1> HIDE DEF f, g, D, ls2
  <1>3. SumFunction(g) = SumFunction(f) - f[p] + g[p]
    BY <1>1, SumChanges
  <1> QED
    BY <1>1, <1>2, <1>3 DEF ls2

LEMMA TotalAdds ==
  ASSUME NEW F \in [Lineage -> Nat], NEW ls, IsFiniteSet(DOMAIN ls),
         \A q \in DOMAIN ls : ls[q] \in Lineage,
         NEW p, p \notin DOMAIN ls, NEW m \in Lineage
  PROVE  Total(F, Put(ls, p, m)) = Total(F, ls) + F[m]
  <1> DEFINE D == DOMAIN ls
             ls2 == Put(ls, p, m)
             E == DOMAIN ls2
             f == [q \in D |-> F[ls[q]]]
             g == [q \in E |-> F[ls2[q]]]
  <1>1. /\ f \in [D -> Int] /\ IsFiniteSet(D) /\ p \notin D /\ E = D \cup {p}
        /\ g \in [E -> Int]
        /\ \A q \in D : g[q] = f[q]
        /\ g[p] = F[m]
    BY DEF Put
  <1>2. Total(F, ls) = SumFunction(f) /\ Total(F, ls2) = SumFunction(g)
    BY DEF Total
  <1> HIDE DEF f, g, D, E, ls2
  <1>3. SumFunction(g) = SumFunction(f) + g[p]
    <2>1. /\ IsFiniteSet(D) /\ f \in [D -> Int] /\ p \notin D /\ E = D \cup {p}
          /\ g \in [E -> Int] /\ \A q \in D : g[q] = f[q]
      BY <1>1
    <2> QED
      BY ONLY <2>1, SumGrows
  <1> QED
    BY <1>1, <1>2, <1>3 DEF ls2

LEMMA TotalDrops ==
  ASSUME NEW F \in [Lineage -> Nat], NEW ls, IsFiniteSet(DOMAIN ls),
         \A q \in DOMAIN ls : ls[q] \in Lineage, NEW p \in DOMAIN ls
  PROVE  Total(F, ls) = Total(F, Drop(ls, {p})) + F[ls[p]]
  <1> DEFINE D == DOMAIN ls
             ls2 == Drop(ls, {p})
             E == DOMAIN ls2
             f == [q \in D |-> F[ls[q]]]
             g == [q \in E |-> F[ls2[q]]]
  <1>1. /\ f \in [D -> Int] /\ IsFiniteSet(D) /\ p \in D /\ E = D \ {p} /\ DOMAIN f = D
        /\ DOMAIN g = E /\ g \in [E -> Int]
        /\ \A q \in E : g[q] = f[q]
        /\ f[p] = F[ls[p]] /\ \A q \in D : f[q] \in Int
    BY DEF Drop, Restrict
  <1>2. Total(F, ls) = SumFunction(f) /\ Total(F, ls2) = SumFunction(g)
    BY DEF Total
  <1>0. IsFiniteSet(E)
    BY <1>1, FS_Subset
  <1> HIDE DEF f, g, D, E, ls2
  <1>3. SumFunctionOnSet(f, D) = f[p] + SumFunctionOnSet(f, D \ {p})
    BY <1>1, SumTakesAny
  <1>4. SumFunction(g) = SumFunctionOnSet(f, E)
    BY <1>0, <1>1, SumOverSubset
  <1>5. SumFunction(g) \in Int
    BY <1>0, <1>1, SumIsInt
  <1> QED
    BY <1>1, <1>2, <1>3, <1>4, <1>5 DEF ls2, SumFunction

-----------------------------------------------------------------------------

LimitsInv == LineagesInv /\ IsFiniteSet(DOMAIN lineages) /\ LimitsHold

\* A frugal operation keeps every limit.
LEMMA FrugalKeepsLimits ==
  ASSUME LimitsInv, NEW p \in DOMAIN lineages, NEW m \in Lineage, Frugal(lineages[p], m), Update(p, m)
  PROVE  LimitsHold' /\ IsFiniteSet(DOMAIN lineages)'
  <1> DEFINE l == lineages[p]
             next == [lineages EXCEPT ![p] = m]
  <1>1. /\ lineages' = next /\ DOMAIN next = DOMAIN lineages
        /\ \A q \in DOMAIN lineages : next[q] = IF q = p THEN m ELSE lineages[q]
    BY DEF Update
  <1>2. /\ l \in Lineage /\ IsFiniteSet(DOMAIN lineages)
        /\ \A q \in DOMAIN lineages : lineages[q] \in Lineage
    BY DEF LimitsInv, LineagesInv, LineageInv
  <1>3. \A q \in DOMAIN next : next[q] \in Lineage
    BY <1>1, <1>2
  <1>4. ASSUME NEW F \in [Lineage -> Nat], NEW G \in [Lineage -> Nat], NEW K \in Nat,
               Total(F, lineages) + Total(G, lineages) <= K, F[m] + G[m] <= F[l] + G[l]
        PROVE  Total(F, next) + Total(G, next) <= K
    <2>1. /\ Total(F, next) = Total(F, lineages) - F[l] + F[m]
          /\ Total(G, next) = Total(G, lineages) - G[l] + G[m]
      BY <1>2, TotalChanges
    <2>2. /\ F[l] \in Nat /\ G[l] \in Nat /\ F[m] \in Nat /\ G[m] \in Nat
          /\ Total(F, lineages) \in Nat /\ Total(G, lineages) \in Nat
      BY <1>2, TotalIsNat
    <2> HIDE DEF next, l
    <2> QED
      BY <1>4, <2>1, <2>2
  <1>5. AggregateReservationsFit(next)
    <2>1. /\ Size.retained[m] + Size.pending_candidate[m]
               <= Size.retained[l] + Size.pending_candidate[l]
          /\ Size.images[m] + Size.pending[m] <= Size.images[l] + Size.pending[l]
          /\ Size.retained[m] + Size.pending_state[m]
               <= Size.retained[l] + Size.pending_state[l]
          /\ Size.evidence[m] + Size.pending[m] <= Size.evidence[l] + Size.pending[l]
      BY <1>2 DEF Size, Frugal
    <2>2. AggregateReservationsFit(lineages)
      BY DEF LimitsInv, LimitsHold
    <2> HIDE DEF next, l
    <2>3. /\ Total(Size.retained, lineages) + Total(Size.pending_candidate, lineages)
               <= SessionLimits.state_bytes
          /\ Total(Size.images, lineages) + Total(Size.pending, lineages) <= SessionLimits.images
          /\ Total(Size.retained, lineages) + Total(Size.pending_state, lineages)
               <= SessionLimits.retained_bytes
          /\ Total(Size.evidence, lineages) + Total(Size.pending, lineages)
               <= SessionLimits.evidence
      BY <1>2, <2>2, FitIsTotal
    <2>4. /\ Total(Size.retained, next) + Total(Size.pending_candidate, next)
               <= SessionLimits.state_bytes
          /\ Total(Size.images, next) + Total(Size.pending, next) <= SessionLimits.images
          /\ Total(Size.retained, next) + Total(Size.pending_state, next)
               <= SessionLimits.retained_bytes
          /\ Total(Size.evidence, next) + Total(Size.pending, next) <= SessionLimits.evidence
      BY <1>4, <2>1, <2>3, SizesAreNat, LimitsAreNat
    <2> QED
      BY <1>3, <2>4, FitIsTotal
  <1>6. \A q \in DOMAIN next : WithinOwnLimits(next[q])
    BY <1>1 DEF LimitsInv, LimitsHold, Frugal
  <1> QED
    BY <1>1, <1>2, <1>5, <1>6 DEF LimitsHold

\* Preparation changes only what is pending, and is refused unless all fits.
LEMMA PreparedKeepsLimits ==
  ASSUME LimitsInv, NEW p \in DOMAIN lineages, NEW new,
         Update(p, [lineages[p] EXCEPT !.pending = new]), AggregateReservationsFit(lineages')
  PROVE  LimitsHold' /\ IsFiniteSet(DOMAIN lineages)'
  <1> DEFINE l == lineages[p]
             m == [l EXCEPT !.pending = new]
  <1>1. /\ DOMAIN lineages' = DOMAIN lineages
        /\ \A q \in DOMAIN lineages : lineages'[q] = IF q = p THEN m ELSE lineages[q]
    BY DEF Update
  <1>2. m.retained = l.retained /\ m.evidence = l.evidence
    BY DEF LimitsInv, LineagesInv, LineageInv, Lineage
  <1>3. WithinOwnLimits(m)
    BY <1>2 DEF LimitsInv, LimitsHold, WithinOwnLimits, RetainedBytes, ImageCount, EvidenceCount
  <1> HIDE DEF m
  <1> QED
    BY <1>1, <1>3 DEF LimitsInv, LimitsHold

LEMMA AddKeepsLimits ==
  ASSUME LimitsInv, NEW p \in Participants, AddLineage(p)
  PROVE  LimitsHold' /\ IsFiniteSet(DOMAIN lineages)'
  <1> DEFINE next == Put(lineages, p, NewLineage)
  <1>1. /\ lineages' = next /\ p \notin DOMAIN lineages
        /\ DOMAIN next = DOMAIN lineages \cup {p} /\ next[p] = NewLineage
        /\ \A q \in DOMAIN lineages : next[q] = lineages[q]
    BY DEF AddLineage, Put
  <1>2. /\ NewLineage \in Lineage /\ IsFiniteSet(DOMAIN lineages)
        /\ \A q \in DOMAIN lineages : lineages[q] \in Lineage
    BY NewLineageInv DEF LimitsInv, LineagesInv, LineageInv
  <1>3. \A q \in DOMAIN next : next[q] \in Lineage
    BY <1>1, <1>2
  <1>4. /\ RetainedBytes(NewLineage) = 0 /\ ImageCount(NewLineage) = 0
        /\ EvidenceCount(NewLineage) = 0 /\ PendingCount(NewLineage) = 0
        /\ PendingStateBytes(NewLineage) = 0 /\ PendingCandidateBytes(NewLineage) = 0
    <2> DEFINE f == [c \in {} |-> ImageBytes[NewLineage.retained[c].image]]
    <2>1. DOMAIN NewLineage.retained = {} /\ DOMAIN NewLineage.evidence = {}
          /\ NewLineage.pending = NoCandidate
      BY EmptyMapIsEmpty DEF NewLineage
    <2>2. SumFunction(f) = 0
      BY SumOfNone
    <2> QED
      BY <2>1, <2>2, FS_EmptySet
      DEF RetainedBytes, BytesOf, ImageCount, EvidenceCount, PendingCount, PendingStateBytes,
          PendingCandidateBytes, HasPending
  <1>5. ASSUME NEW F \in [Lineage -> Nat], F[NewLineage] = 0
        PROVE  Total(F, next) = Total(F, lineages)
    BY <1>1, <1>2, <1>5, TotalAdds, TotalIsNat
  <1>6. AggregateReservationsFit(next)
    <2>1. /\ Size.retained[NewLineage] = 0 /\ Size.images[NewLineage] = 0
          /\ Size.evidence[NewLineage] = 0 /\ Size.pending[NewLineage] = 0
          /\ Size.pending_state[NewLineage] = 0 /\ Size.pending_candidate[NewLineage] = 0
      BY <1>2, <1>4 DEF Size
    <2>2. AggregateReservationsFit(lineages)
      BY DEF LimitsInv, LimitsHold
    <2> HIDE DEF next
    <2> QED
      BY <1>2, <1>3, <1>5, <2>1, <2>2, FitIsTotal, SizesAreNat
  <1>7. WithinOwnLimits(NewLineage)
    BY <1>4, LimitsAreNat DEF WithinOwnLimits
  <1>8. \A q \in DOMAIN next : WithinOwnLimits(next[q])
    BY <1>1, <1>7 DEF LimitsInv, LimitsHold
  <1> QED
    BY <1>1, <1>2, <1>6, <1>8, FS_AddElement DEF LimitsHold

LEMMA RemoveKeepsLimits ==
  ASSUME LimitsInv, NEW p \in DOMAIN lineages, RemoveLineage(p)
  PROVE  LimitsHold' /\ IsFiniteSet(DOMAIN lineages)'
  <1> DEFINE next == Drop(lineages, {p})
             l == lineages[p]
  <1>1. /\ lineages' = next /\ DOMAIN next = DOMAIN lineages \ {p}
        /\ \A q \in DOMAIN next : next[q] = lineages[q]
    BY DEF RemoveLineage, Drop, Restrict
  <1>2. /\ l \in Lineage /\ IsFiniteSet(DOMAIN lineages)
        /\ \A q \in DOMAIN lineages : lineages[q] \in Lineage
    BY DEF LimitsInv, LineagesInv, LineageInv
  <1>3. \A q \in DOMAIN next : next[q] \in Lineage
    BY <1>1, <1>2
  <1>4. IsFiniteSet(DOMAIN next)
    BY <1>1, <1>2, FS_RemoveElement
  <1>5. ASSUME NEW F \in [Lineage -> Nat]
        PROVE  Total(F, next) <= Total(F, lineages) /\ Total(F, next) \in Nat
               /\ Total(F, lineages) \in Nat
    <2>1. Total(F, lineages) = Total(F, next) + F[l]
      BY <1>2, TotalDrops
    <2>2. F[l] \in Nat /\ Total(F, next) \in Nat /\ Total(F, lineages) \in Nat
      <3>1. F[l] \in Nat
        BY <1>2
      <3> HIDE DEF next
      <3> QED
        BY <1>2, <1>3, <1>4, <3>1, TotalIsNat
    <2> HIDE DEF next, l
    <2> QED
      BY <2>1, <2>2
  <1>6. AggregateReservationsFit(next)
    <2>2. AggregateReservationsFit(lineages)
      BY DEF LimitsInv, LimitsHold
    <2> HIDE DEF next, l
    <2>3. /\ Total(Size.retained, lineages) + Total(Size.pending_candidate, lineages)
               <= SessionLimits.state_bytes
          /\ Total(Size.images, lineages) + Total(Size.pending, lineages) <= SessionLimits.images
          /\ Total(Size.retained, lineages) + Total(Size.pending_state, lineages)
               <= SessionLimits.retained_bytes
          /\ Total(Size.evidence, lineages) + Total(Size.pending, lineages)
               <= SessionLimits.evidence
      BY <1>2, <2>2, FitIsTotal
    <2>4. \A F \in {Size.retained, Size.images, Size.evidence, Size.pending,
                    Size.pending_state, Size.pending_candidate} :
            /\ Total(F, next) <= Total(F, lineages) /\ Total(F, next) \in Nat
            /\ Total(F, lineages) \in Nat
      BY <1>5, SizesAreNat
    <2> QED
      BY <1>3, <2>3, <2>4, FitIsTotal, LimitsAreNat
  <1>7. \A q \in DOMAIN next : WithinOwnLimits(next[q])
    BY <1>1 DEF LimitsInv, LimitsHold
  <1> QED
    BY <1>1, <1>4, <1>6, <1>7 DEF LimitsHold

LEMMA NextKeepsLimits ==
  ASSUME LimitsInv, [AuthorityNext]_lineages
  PROVE  LimitsInv'
  <1> DEFINE Good == LimitsHold' /\ IsFiniteSet(DOMAIN lineages)'
  <1>0. /\ LineagesInv /\ LineagesInv'
        /\ \A p \in DOMAIN lineages : /\ LineageInv(lineages[p]) /\ lineages[p] \in Lineage
                                     /\ WithinOwnLimits(lineages[p])
    BY NextIsGood DEF LimitsInv, LineagesInv, LimitsHold, LineageInv
  <1>1. ASSUME NEW p \in DOMAIN lineages, NEW m, NEW c,
               m \in Forgetting(lineages[p], c),
               GoodStep(lineages[p], m), Update(p, m)
        PROVE  Good
    <2>1. m \in Lineage
      BY <1>1 DEF GoodStep, LineageInv
    <2> DEFINE l == lineages[p]
    <2>2. l \in Lineage /\ WithinOwnLimits(l) /\ m \in Forgetting(l, c)
      BY <1>0, <1>1
    <2> HIDE DEF l
    <2>3. /\ m.pending \in {l.pending, NoCandidate} /\ m.evidence = l.evidence
          /\ m.retained \in {l.retained, Drop(l.retained, {c})}
      BY <2>2, OperationsForget
    <2>4. Frugal(l, m)
      BY <2>1, <2>2, <2>3, ForgettingIsFrugal
    <2> QED
      BY <1>1, <2>1, <2>4, FrugalKeepsLimits DEF l
  <1> HIDE DEF Good
  <1>2. ASSUME NEW p \in DOMAIN lineages, Prepare(p)
        PROVE  Good
    <2>1. PICK cursor \in Cursor, tick \in Tick, image \in Images :
            \/ \E designate \in BOOLEAN : PrepareFullSnapshot(p, cursor, tick, image, designate)
            \/ \E extra \in ExtraBytes : PrepareDeltaSnapshot(p, cursor, tick, image, extra)
      BY <1>2 DEF Prepare
    <2>2. ASSUME NEW designate \in BOOLEAN,
                 PrepareFullSnapshot(p, cursor, tick, image, designate)
          PROVE  Good
      BY <2>2, PreparedKeepsLimits DEF PrepareFullSnapshot, PrepareFull, Good
    <2>3. ASSUME NEW extra \in ExtraBytes,
                 PrepareDeltaSnapshot(p, cursor, tick, image, extra)
          PROVE  Good
      BY <2>3, PreparedKeepsLimits DEF PrepareDeltaSnapshot, PrepareDelta, Good
    <2> QED
      BY <2>1, <2>2, <2>3
  <1>3. ASSUME NEW p \in DOMAIN lineages, RecordAccepted(p)
        PROVE  Good
    <2>1. HasPending(lineages[p]) /\ Update(p, Emit(lineages[p]))
      BY <1>3 DEF RecordAccepted
    <2>2. Frugal(lineages[p], Emit(lineages[p]))
      BY <1>0, <2>1, EmitIsFrugal
    <2>3. Emit(lineages[p]) \in Lineage
      BY <1>0, <2>1, EmitFacts DEF Emission
    <2> QED
      BY <2>1, <2>2, <2>3, FrugalKeepsLimits DEF Good
  <1>4. ASSUME NEW p \in DOMAIN lineages, CancelCandidate(p)
        PROVE  Good
    BY <1>0, <1>1, <1>4, CancelIsGood DEF CancelCandidate, Forgetting
  <1>5. ASSUME NEW p \in DOMAIN lineages, NEW cursor \in Cursor,
               AcknowledgeAuthorized(p, cursor)
        PROVE  Good
    BY <1>0, <1>1, <1>5, ConfirmIsGood DEF AcknowledgeAuthorized, Forgetting
  <1>6. ASSUME NEW p \in DOMAIN lineages, RequireFullRecovery(p) \/ ConnectionReplaced(p)
        PROVE  Good
    BY <1>0, <1>1, <1>6, StartRecoveryIsGood
    DEF RequireFullRecovery, CanRequireFull, ConnectionReplaced, Forgetting
  <1>7. ASSUME NEW p \in DOMAIN lineages, NEW cursor \in Cursor,
               EvictRetainedState(p, cursor)
        PROVE  Good
    BY <1>0, <1>1, <1>7, EvictStateIsGood DEF EvictRetainedState, Forgetting
  <1>8. ASSUME NEW p \in Participants, AddLineage(p)
        PROVE  Good
    BY <1>8, AddKeepsLimits DEF Good
  <1>9. ASSUME NEW p \in DOMAIN lineages, RemoveLineage(p)
        PROVE  Good
    BY <1>9, RemoveKeepsLimits DEF Good
  <1>10. ASSUME UNCHANGED lineages
         PROVE  Good
    <2>1. lineages' = lineages /\ LimitsHold /\ IsFiniteSet(DOMAIN lineages)
      BY <1>10 DEF LimitsInv
    <2> QED
      BY ONLY <2>1 DEF LimitsHold, Good
  <1>11. ASSUME NEW p \in DOMAIN lineages, Operate(p)
         PROVE  Good
    BY <1>2, <1>3, <1>4, <1>5, <1>6, <1>7, <1>9, <1>11 DEF Operate
  <1>12. Good
    BY <1>8, <1>10, <1>11 DEF AuthorityNext
  <1> QED
    BY <1>0, <1>12 DEF LimitsInv, Good

\* The limits of every lineage and those they share hold at all times, although
\* only preparation looks at them: what it reserves is never exceeded by the
\* emission and its evictions, whatever other lineages did in between.
THEOREM LimitsAlwaysHold == AuthoritySpec => []LimitsHold
  <1>1. AuthorityInit => LimitsInv
    <2> SUFFICES ASSUME AuthorityInit PROVE LimitsInv
      OBVIOUS
    <2>1. DOMAIN lineages = {}
      BY EmptyMapIsEmpty DEF AuthorityInit
    <2>2. ASSUME NEW F PROVE Total(F, lineages) = 0
      <3> DEFINE f == [p \in DOMAIN lineages |-> F[lineages[p]]]
      <3>1. DOMAIN f = {}
        BY <2>1
      <3> HIDE DEF f
      <3> QED
        BY <3>1, SumOfNone DEF Total, f
    <2>3. AggregateReservationsFit(lineages)
      BY <2>1, <2>2, FitIsTotal, LimitsAreNat
    <2> QED
      BY <2>1, <2>3, FS_EmptySet DEF LimitsInv, LineagesInv, LimitsHold
  <1>2. LimitsInv /\ [AuthorityNext]_lineages => LimitsInv'
    BY NextKeepsLimits
  <1>3. LimitsInv => LimitsHold
    BY DEF LimitsInv
  <1> QED
    BY <1>1, <1>2, <1>3, PTL DEF AuthoritySpec

-----------------------------------------------------------------------------
(* Replication from end to end                                             *)

\* A delta may be built on b and sent over connection k: the client has committed b,
\* and before it, or with it, a full snapshot sent over k.
IsGround(k, b) ==
  /\ b \in committed
  /\ \E f \in committed : /\ <<k, f>> \in snapshots
                          /\ emitted[f].kind = Full
                          /\ f <= b

EmissionIsSound(c) ==
  /\ emitted[c] \in Snapshot /\ emitted[c].cursor = c
  /\ c <= authority.greatest_emitted /\ emitted[c].tick <= authority.greatest_emitted_tick
  /\ emitted[c].kind = Delta =>
       emitted[c].base \in committed /\ emitted[c].from = emitted[emitted[c].base].image

EmissionsAreSound ==
  /\ DOMAIN emitted \subseteq Cursor
  /\ \A c \in DOMAIN emitted : EmissionIsSound(c)
  /\ \A c, d \in DOMAIN emitted : c <= d => emitted[c].tick <= emitted[d].tick

\* What the authority holds of an emission: its kind, and, if it was made for the
\* present recovery, that it went over the present connection.
EvidenceIsSound ==
  \A c \in DOMAIN authority.evidence :
    /\ c \in DOMAIN emitted
    /\ authority.evidence[c].kind = emitted[c].kind
    /\ authority.evidence[c].generation = authority.generation => <<connection, c>> \in snapshots

PendingIsGrounded ==
  HasPending(authority) /\ authority.pending.kind = Delta =>
    IsGround(connection, authority.pending.base)

AuthorityIsSound ==
  /\ LineageInv(authority)
  /\ authority.latest_confirmed \in committed \cup {NoCursor}
  /\ DeltaEligible(authority) => IsGround(connection, authority.delta_base)
  /\ PendingIsGrounded
  /\ EvidenceIsSound

ClientIsSound ==
  /\ client \in Replica
  /\ committed \subseteq DOMAIN emitted
  /\ \A c \in committed : c <= client.current
  /\ client.current # NoCursor =>
       client.current \in committed /\ client.current \in DOMAIN client.retained
  /\ \A c \in DOMAIN client.retained :
       /\ c \in DOMAIN emitted /\ c <= client.current
       /\ client.retained[c] = [tick |-> emitted[c].tick, image |-> emitted[c].image]

NetworkIsSound ==
  /\ connection \in Connection /\ client_connection \in Connection /\ bound \in BOOLEAN
  /\ snapshots \subseteq Connection \X DOMAIN emitted
  /\ acks \subseteq Connection \X committed
  /\ demands \subseteq Connection
  /\ \A k \in Connection, c \in DOMAIN emitted :
       <<k, c>> \in snapshots /\ emitted[c].kind = Delta => IsGround(k, emitted[c].base)

RInv == EmissionsAreSound /\ AuthorityIsSound /\ ClientIsSound /\ NetworkIsSound

-----------------------------------------------------------------------------
(* The client's operations                                                 *)

LEMMA ReplicaType ==
  ASSUME NEW r \in Replica
  PROVE  /\ r.current \in Cursor \cup {NoCursor} /\ r.boundary \in Cursor \cup {NoCursor}
         /\ r.synchronized \in BOOLEAN
         /\ DOMAIN r.retained \subseteq Cursor /\ r.retained \in [DOMAIN r.retained -> Retained]
  <1>1. r.retained \in Retention
    BY DEF Replica
  <1> QED
    BY <1>1, RetentionIsPartialMap DEF Replica

LEMMA SnapshotType ==
  ASSUME NEW s \in Snapshot
  PROVE  /\ s.kind \in {Full, Delta} /\ s.base \in Cursor \cup {NoCursor} /\ s.cursor \in Cursor
         /\ s.tick \in Tick /\ s.from \in Images /\ s.image \in Images
  BY DEF Snapshot

\* m is r after a commit of the image at a cursor: some older images may be gone.
Committed(r, m, cursor, tick, image) ==
  /\ m \in Replica /\ m.current = cursor /\ m.synchronized = TRUE
  /\ cursor \in DOMAIN m.retained
  /\ m.retained[cursor] = [tick |-> tick, image |-> image]
  /\ \A c \in DOMAIN m.retained :
       c # cursor => c \in DOMAIN r.retained /\ m.retained[c] = r.retained[c]

LEMMA CommitFacts ==
  ASSUME NEW r \in Replica, NEW s \in Snapshot, NEW image \in Images
  PROVE  Committed(r, Commit(r, s, image), s.cursor, s.tick, image)
  <1> DEFINE gone == CommitEvictions(r, image)
             kept == Drop(r.retained, gone)
             new == [tick |-> s.tick, image |-> image]
             after == Put(kept, s.cursor, new)
  <1>1. DOMAIN r.retained \subseteq Cursor /\ r.retained \in [DOMAIN r.retained -> Retained]
    BY ReplicaType
  <1>2. s.cursor \in Cursor /\ new \in Retained
    BY SnapshotType DEF Retained
  <1>3. AfterCommit(r, s, image) = after
    BY DEF AfterCommit
  <1> HIDE DEF gone, new
  <1>4. /\ DOMAIN kept = DOMAIN r.retained \ gone /\ kept \in [DOMAIN kept -> Retained]
        /\ \A c \in DOMAIN kept : kept[c] = r.retained[c]
    BY <1>1 DEF Drop, Restrict
  <1> HIDE DEF kept
  <1>5. /\ DOMAIN after = DOMAIN kept \cup {s.cursor} /\ after \in [DOMAIN after -> Retained]
        /\ after[s.cursor] = new
        /\ \A c \in DOMAIN kept : c # s.cursor => after[c] = kept[c]
    BY <1>2, <1>4 DEF Put
  <1> HIDE DEF after
  <1>6. after \in Retention
    <2>1. DOMAIN after \subseteq Cursor
      BY <1>1, <1>2, <1>4, <1>5
    <2> QED
      BY <1>5, <2>1, RetentionIsPartialMap
  <1> DEFINE m == Commit(r, s, image)
  <1>7. /\ m \in Replica /\ m.current = s.cursor /\ m.synchronized = TRUE
        /\ m.retained = after
    BY <1>2, <1>3, <1>6 DEF Commit, Replica
  <1> HIDE DEF m
  <1> QED
    BY <1>4, <1>5, <1>7 DEF Committed, new, m

LEMMA EnterRecoveryFacts ==
  ASSUME NEW r \in Replica
  PROVE  /\ EnterRecovery(r) \in Replica
         /\ EnterRecovery(r).current = r.current
         /\ EnterRecovery(r).synchronized = FALSE
         /\ EnterRecovery(r).retained = r.retained
  BY DEF EnterRecovery, Replica

LEMMA EvictHistoricalFacts ==
  ASSUME NEW r \in Replica, NEW c
  PROVE  /\ EvictHistorical(r, c) \in Replica
         /\ EvictHistorical(r, c).current = r.current
         /\ EvictHistorical(r, c).synchronized = r.synchronized
         /\ DOMAIN EvictHistorical(r, c).retained = DOMAIN r.retained \ {c}
         /\ \A d \in DOMAIN r.retained \ {c} :
              EvictHistorical(r, c).retained[d] = r.retained[d]
  <1> DEFINE kept == Drop(r.retained, {c})
  <1>1. DOMAIN r.retained \subseteq Cursor /\ r.retained \in [DOMAIN r.retained -> Retained]
    BY ReplicaType
  <1>2. /\ DOMAIN kept = DOMAIN r.retained \ {c} /\ kept \in [DOMAIN kept -> Retained]
        /\ \A d \in DOMAIN kept : kept[d] = r.retained[d]
    BY <1>1 DEF Drop, Restrict
  <1> HIDE DEF kept
  <1>3. kept \in Retention
    BY <1>1, <1>2, RetentionIsPartialMap
  <1>4. EvictHistorical(r, c) = [r EXCEPT !.retained = kept]
    BY DEF EvictHistorical, kept
  <1> QED
    BY <1>2, <1>3, <1>4 DEF Replica

-----------------------------------------------------------------------------
(* The invariant                                                           *)

LEMMA CursorNumbers ==
  /\ Cursor \subseteq Nat /\ Tick \subseteq Nat /\ NoCursor \notin Cursor
  /\ NoCursor = 0 /\ NoTick = 0 /\ Full # Delta
  /\ \A c \in Cursor : 0 < c
  BY Numbers DEF NoCursor, NoTick, Full, Delta, Cursor

LEMMA CurrentNumber ==
  ASSUME RInv
  PROVE  client.current \in Nat /\ \A c \in DOMAIN emitted : c \in Nat
  <1>1. client.current \in Cursor \cup {NoCursor}
    BY ReplicaType DEF RInv, ClientIsSound
  <1>2. client.current \in Nat
    BY <1>1, Numbers
  <1> QED
    BY <1>2, Numbers DEF RInv, EmissionsAreSound

LEMMA InitRInv == Init => RInv
  <1> SUFFICES ASSUME Init PROVE RInv
    OBVIOUS
  <1>1. DOMAIN emitted = {} /\ DOMAIN NewReplica.retained = {}
    BY EmptyMapIsEmpty DEF Init, NewReplica
  <1>2. LineageInv(authority) /\ ~DeltaEligible(authority) /\ ~HasPending(authority)
    BY NewLineageInv DEF Init, NewLineage, DeltaEligible, HasPending
  <1>3. DOMAIN authority.evidence = {} /\ authority.latest_confirmed = NoCursor
    BY EmptyMapIsEmpty DEF Init, NewLineage
  <1>4. NewReplica \in Replica
    <2>1. EmptyMap \in Retention
      BY RetentionIsPartialMap, EmptyMapIsEmpty DEF EmptyMap
    <2> QED
      BY <2>1 DEF NewReplica, Replica
  <1>5. client.current = NoCursor
    BY DEF Init, NewReplica
  <1>6. 1 \in Connection
    BY ReplicationAssumption DEF Connection
  <1> QED
    BY <1>1, <1>2, <1>3, <1>4, <1>5, <1>6
    DEF Init, RInv, EmissionsAreSound, AuthorityIsSound, EvidenceIsSound, PendingIsGrounded,
        ClientIsSound, NetworkIsSound

\* An operation of the authority's lineage that neither emits nor confirms.
LEMMA QuietStep ==
  ASSUME RInv, GoodStep(authority, authority'), Remains(authority, authority'),
         emitted' = emitted, committed' = committed, client' = client,
         client_connection' = client_connection, connection' = connection,
         bound' = bound, snapshots' = snapshots, acks' = acks, demands' = demands,
         PendingIsGrounded'
  PROVE  RInv'
  <1>1. LineageInv(authority')
    BY DEF GoodStep
  <1>2. EmissionsAreSound'
    BY DEF RInv, EmissionsAreSound, EmissionIsSound, Remains
  <1>3. EvidenceIsSound'
    <2> SUFFICES ASSUME NEW c \in DOMAIN authority'.evidence
                 PROVE  /\ c \in DOMAIN emitted
                        /\ authority'.evidence[c].kind = emitted[c].kind
                        /\ authority'.evidence[c].generation = authority'.generation
                             => <<connection, c>> \in snapshots
      BY DEF EvidenceIsSound
    <2>1. c \in DOMAIN authority.evidence /\ authority'.evidence[c] = authority.evidence[c]
      BY DEF Remains
    <2>2. authority.evidence[c].generation <= authority.generation
      BY <2>1 DEF RInv, AuthorityIsSound, LineageInv, MemoryIsPast
    <2>3. authority \in Lineage
      BY DEF RInv, AuthorityIsSound, LineageInv
    <2>4. authority.generation \in Int /\ authority.evidence[c].generation \in Int
      BY <2>1, <2>3, LineageNumbers
    <2>5. authority'.generation \in {authority.generation, authority.generation + 1}
      BY DEF Remains
    <2>6. authority'.evidence[c].generation = authority'.generation
            => authority.evidence[c].generation = authority.generation
      BY <2>1, <2>2, <2>4, <2>5
    <2> QED
      BY <2>1, <2>6 DEF RInv, AuthorityIsSound, EvidenceIsSound
  <1>4. DeltaEligible(authority') => IsGround(connection, authority'.delta_base)
    BY DEF RInv, AuthorityIsSound, Remains, DeltaEligible
  <1>5. AuthorityIsSound'
    BY <1>1, <1>3, <1>4 DEF RInv, AuthorityIsSound, Remains, IsGround
  <1>6. ClientIsSound'
    BY DEF RInv, ClientIsSound
  <1>7. NetworkIsSound'
    BY DEF RInv, NetworkIsSound, IsGround
  <1> QED
    BY <1>2, <1>5, <1>6, <1>7 DEF RInv

LEMMA HostPreparesFullStep ==
  ASSUME RInv, NEW cursor \in Cursor, NEW tick \in Tick, NEW image \in Images,
         NEW designate \in BOOLEAN, HostPreparesFull(cursor, tick, image, designate)
  PROVE  RInv'
  <1>1. LineageInv(authority) /\ authority \in Lineage
    BY DEF RInv, AuthorityIsSound, LineageInv
  <1>2. GoodStep(authority, authority')
    BY <1>1, PrepareFullIsGood DEF HostPreparesFull
  <1>3. Remains(authority, authority') /\ authority'.pending.kind = Full
    BY <1>1, PendingRemains DEF HostPreparesFull, PrepareFull
  <1>4. PendingIsGrounded'
    BY <1>3, CursorNumbers DEF PendingIsGrounded
  <1> QED
    BY <1>2, <1>3, <1>4, QuietStep
    DEF HostPreparesFull, clientVars, sessionVars, networkVars

LEMMA HostPreparesDeltaStep ==
  ASSUME RInv, NEW cursor \in Cursor, NEW tick \in Tick, NEW image \in Images,
         HostPreparesDelta(cursor, tick, image)
  PROVE  RInv'
  <1>1. LineageInv(authority) /\ authority \in Lineage
    BY DEF RInv, AuthorityIsSound, LineageInv
  <1>2. GoodStep(authority, authority')
    BY <1>1, PrepareDeltaIsGood DEF HostPreparesDelta
  <1>3. Remains(authority, authority') /\ authority'.pending.base = authority.delta_base
    BY <1>1, PendingRemains DEF HostPreparesDelta, PrepareDelta
  <1>4. IsGround(connection, authority.delta_base)
    BY DEF RInv, AuthorityIsSound, HostPreparesDelta, CanPrepareDelta
  <1>5. PendingIsGrounded'
    BY <1>3, <1>4
    DEF PendingIsGrounded, IsGround, HostPreparesDelta, clientVars, sessionVars, networkVars
  <1> QED
    BY <1>2, <1>3, <1>5, QuietStep
    DEF HostPreparesDelta, clientVars, sessionVars, networkVars

LEMMA HostCancelsStep ==
  ASSUME RInv, HostCancels
  PROVE  RInv'
  <1>1. LineageInv(authority) /\ authority \in Lineage
    BY DEF RInv, AuthorityIsSound, LineageInv
  <1>2. GoodStep(authority, authority')
    BY <1>1, CancelIsGood DEF HostCancels
  <1>3. Remains(authority, authority') /\ authority'.pending = NoCandidate
    BY <1>1, PendingRemains DEF HostCancels, CancelPending
  <1>4. PendingIsGrounded'
    BY <1>3 DEF PendingIsGrounded, HasPending
  <1> QED
    BY <1>2, <1>3, <1>4, QuietStep DEF HostCancels, clientVars, sessionVars, networkVars

LEMMA HostEvictsStateStep ==
  ASSUME RInv, NEW cursor \in Cursor, HostEvictsState(cursor)
  PROVE  RInv'
  <1>1. LineageInv(authority) /\ authority \in Lineage
    BY DEF RInv, AuthorityIsSound, LineageInv
  <1>2. GoodStep(authority, authority')
    BY <1>1, EvictStateIsGood DEF HostEvictsState
  <1>3. /\ Remains(authority, authority')
        /\ authority'.pending \in {authority.pending, NoCandidate}
    BY <1>1, EvictStateRemains DEF HostEvictsState
  <1>4. PendingIsGrounded'
    BY <1>3 DEF RInv, AuthorityIsSound, PendingIsGrounded, HasPending, IsGround,
                HostEvictsState, clientVars, sessionVars, networkVars
  <1> QED
    BY <1>2, <1>3, <1>4, QuietStep DEF HostEvictsState, clientVars, sessionVars, networkVars

LEMMA ReceiveDemandStep ==
  ASSUME RInv, NEW c \in Connection, ReceiveDemand(c)
  PROVE  RInv'
  <1>1. LineageInv(authority) /\ authority \in Lineage
    BY DEF RInv, AuthorityIsSound, LineageInv
  <1>2. GoodStep(authority, authority')
    BY <1>1, StartRecoveryIsGood DEF ReceiveDemand, CanRequireFull
  <1>3. Remains(authority, authority') /\ authority'.pending = NoCandidate
    BY <1>1, StartRecoveryRemains DEF ReceiveDemand
  <1>4. PendingIsGrounded'
    BY <1>3 DEF PendingIsGrounded, HasPending
  <1> QED
    BY <1>2, <1>3, <1>4, QuietStep DEF ReceiveDemand, clientVars, sessionVars, networkVars

\* A replacement begins a recovery of its own, of which there is no evidence yet.
LEMMA ReplaceConnectionStep ==
  ASSUME RInv, ReplaceConnection
  PROVE  RInv'
  <1>1. LineageInv(authority) /\ authority \in Lineage
    BY DEF RInv, AuthorityIsSound, LineageInv
  <1>2. LineageInv(authority') /\ authority' = StartRecovery(authority)
    BY <1>1, StartRecoveryIsGood DEF ReplaceConnection, GoodStep
  <1>3. /\ Remains(authority, authority') /\ authority'.generation = authority.generation + 1
        /\ authority'.delta_base = NoCursor /\ authority'.pending = NoCandidate
    BY <1>1, <1>2, StartRecoveryRemains
  <1>4. EmissionsAreSound'
    BY <1>3 DEF RInv, EmissionsAreSound, EmissionIsSound, Remains, ReplaceConnection, clientVars
  <1>5. EvidenceIsSound'
    <2> SUFFICES ASSUME NEW c \in DOMAIN authority'.evidence
                 PROVE  /\ c \in DOMAIN emitted
                        /\ authority'.evidence[c].kind = emitted[c].kind
                        /\ authority'.evidence[c].generation # authority'.generation
      BY DEF EvidenceIsSound, ReplaceConnection
    <2>1. c \in DOMAIN authority.evidence /\ authority'.evidence[c] = authority.evidence[c]
      BY <1>3 DEF Remains
    <2>2. authority.evidence[c].generation <= authority.generation
      BY <2>1 DEF RInv, AuthorityIsSound, LineageInv, MemoryIsPast
    <2>3. authority.generation \in Int /\ authority.evidence[c].generation \in Int
      BY <1>1, <2>1, LineageNumbers
    <2>4. authority'.evidence[c].generation # authority'.generation
      BY <1>3, <2>1, <2>2, <2>3
    <2>5. c \in DOMAIN emitted /\ authority.evidence[c].kind = emitted[c].kind
      BY <2>1 DEF RInv, AuthorityIsSound, EvidenceIsSound
    <2> QED
      BY <2>1, <2>4, <2>5
  <1>6. AuthorityIsSound'
    BY <1>2, <1>3, <1>5
    DEF RInv, AuthorityIsSound, Remains, DeltaEligible, HasPending, PendingIsGrounded,
        ReplaceConnection, clientVars
  <1>7. ClientIsSound'
    BY DEF RInv, ClientIsSound, ReplaceConnection, clientVars
  <1>8. connection' \in Connection
    BY ReplicationAssumption DEF RInv, NetworkIsSound, ReplaceConnection, Connection
  <1>9. NetworkIsSound'
    BY <1>8 DEF RInv, NetworkIsSound, IsGround, ReplaceConnection, clientVars, networkVars
  <1> QED
    BY <1>4, <1>6, <1>7, <1>9 DEF RInv

\* An acknowledged cursor is committed. Without a delta base it becomes one only when
\* it is a full snapshot of the present recovery, sent over the present connection.
LEMMA ReceiveAckStep ==
  ASSUME RInv, NEW k \in Connection, NEW cursor \in Cursor, ReceiveAck(k, cursor)
  PROVE  RInv'
  <1> DEFINE l == authority
             m == Confirm(authority, cursor)
  <1>1. LineageInv(l) /\ l \in Lineage /\ CanConfirm(l, cursor) /\ authority' = m
    BY DEF RInv, AuthorityIsSound, LineageInv, ReceiveAck
  <1>2. LineageInv(m)
    BY <1>1, ConfirmIsGood DEF GoodStep
  <1>3. Confirmation(l, m, cursor)
    BY <1>1, ConfirmFacts
  <1>4. cursor \in committed /\ cursor \in DOMAIN l.evidence /\ l.latest_confirmed < cursor
    BY <1>1 DEF ReceiveAck, CanConfirm, RInv, NetworkIsSound
  <1> HIDE DEF m
  <1>5. /\ emitted' = emitted /\ committed' = committed /\ client' = client
        /\ client_connection' = client_connection /\ connection' = connection
        /\ bound' = bound /\ snapshots' = snapshots /\ acks' = acks /\ demands' = demands
    BY DEF ReceiveAck, clientVars, sessionVars, networkVars
  <1>6. EmissionsAreSound'
    BY <1>1, <1>3, <1>5 DEF RInv, EmissionsAreSound, EmissionIsSound, Confirmation
  <1>7. EvidenceIsSound'
    <2> SUFFICES ASSUME NEW c \in DOMAIN l.evidence
                 PROVE  /\ c \in DOMAIN emitted
                        /\ l.evidence[c].kind = emitted[c].kind
                        /\ l.evidence[c].generation = m.generation
                             => <<connection, c>> \in snapshots
      BY <1>1, <1>3, <1>5 DEF EvidenceIsSound, Confirmation
    <2>1. l.evidence[c].generation <= l.generation
      BY <1>1 DEF LineageInv, MemoryIsPast
    <2>2. l.generation \in Int /\ l.evidence[c].generation \in Int
      BY <1>1, LineageNumbers
    <2>3. m.generation \in {l.generation, l.generation + 1}
      BY <1>3 DEF Confirmation
    <2>4. l.evidence[c].generation = m.generation => l.evidence[c].generation = l.generation
      BY <2>1, <2>2, <2>3
    <2> QED
      BY <2>4 DEF RInv, AuthorityIsSound, EvidenceIsSound
  <1>8. DeltaEligible(m) => IsGround(connection, m.delta_base)
    <2> SUFFICES ASSUME m.delta_base # NoCursor PROVE IsGround(connection, m.delta_base)
      BY DEF DeltaEligible
    <2>1. m.delta_base = cursor /\ (DeltaEligible(l) \/ QualifiesForRecovery(l, cursor))
      BY <1>3 DEF Confirmation
    <2>2. CASE DeltaEligible(l)
      <3>1. IsGround(connection, l.delta_base) /\ l.delta_base = l.latest_confirmed
        BY <1>1, <2>2 DEF RInv, AuthorityIsSound, LineageInv, EligibleBase
      <3>2. PICK f \in committed : /\ <<connection, f>> \in snapshots
                                  /\ emitted[f].kind = Full /\ f <= l.delta_base
        BY <3>1 DEF IsGround
      <3>3. f \in Nat /\ l.delta_base \in Nat /\ cursor \in Nat
        BY <1>1, LineageNumbers, CursorNumbers DEF RInv, ClientIsSound, EmissionsAreSound
      <3>4. f <= cursor
        BY <1>4, <3>1, <3>2, <3>3
      <3> QED
        BY <1>4, <2>1, <3>2, <3>4 DEF IsGround
    <2>3. CASE QualifiesForRecovery(l, cursor)
      <3>1. <<connection, cursor>> \in snapshots /\ emitted[cursor].kind = Full
        BY <1>4, <2>3 DEF QualifiesForRecovery, RInv, AuthorityIsSound, EvidenceIsSound
      <3>2. cursor <= cursor
        BY CursorNumbers
      <3> QED
        BY <1>4, <2>1, <3>1, <3>2 DEF IsGround
    <2> QED
      BY <2>1, <2>2, <2>3
  <1>9. PendingIsGrounded'
    BY <1>1, <1>3, <1>5
    DEF RInv, AuthorityIsSound, PendingIsGrounded, IsGround, HasPending, Confirmation
  <1>10. AuthorityIsSound'
    BY <1>1, <1>2, <1>3, <1>4, <1>5, <1>7, <1>8, <1>9
    DEF AuthorityIsSound, IsGround, Confirmation
  <1>11. ClientIsSound' /\ NetworkIsSound'
    BY <1>5 DEF RInv, ClientIsSound, NetworkIsSound, IsGround
  <1> QED
    BY <1>6, <1>10, <1>11 DEF RInv

\* What is emitted is newer than everything emitted, so nothing is emitted twice.
LEMMA EmitFrame ==
  ASSUME RInv, EmitSnapshot
  PROVE  /\ authority.pending.cursor \in Cursor
         /\ authority.pending.cursor \notin DOMAIN emitted
         /\ \A c \in DOMAIN emitted : /\ c < authority.pending.cursor
                                      /\ emitted[c].tick <= authority.pending.tick
         /\ DOMAIN emitted' = DOMAIN emitted \cup {authority.pending.cursor}
         /\ emitted'[authority.pending.cursor] = ToSnapshot(authority.pending)
         /\ \A c \in DOMAIN emitted : emitted'[c] = emitted[c]
  <1> DEFINE p == authority.pending
  <1>1. authority \in Lineage /\ HasPending(authority) /\ PendingIsCurrent(authority)
    BY DEF RInv, AuthorityIsSound, LineageInv, EmitSnapshot
  <1>2. /\ p.cursor \in Cursor /\ p.tick \in Tick
        /\ authority.greatest_emitted < p.cursor
        /\ authority.greatest_emitted_tick <= p.tick
    BY <1>1, PendingType DEF PendingIsCurrent
  <1>3. authority.greatest_emitted \in Nat /\ authority.greatest_emitted_tick \in Nat
    BY <1>1, LineageNumbers
  <1> HIDE DEF p
  <1>4. ASSUME NEW c \in DOMAIN emitted
        PROVE  c < p.cursor /\ emitted[c].tick <= p.tick
    <2>1. /\ emitted[c] \in Snapshot /\ c \in Cursor
          /\ c <= authority.greatest_emitted
          /\ emitted[c].tick <= authority.greatest_emitted_tick
      BY DEF RInv, EmissionsAreSound, EmissionIsSound
    <2>2. emitted[c].tick \in Nat /\ c \in Nat /\ p.cursor \in Nat /\ p.tick \in Nat
      BY <1>2, <2>1, CursorNumbers DEF Snapshot
    <2> QED
      BY <1>2, <1>3, <2>1, <2>2
  <1>5. p.cursor \notin DOMAIN emitted
    <2>1. p.cursor \in Nat
      BY <1>2, CursorNumbers
    <2>2. ~(p.cursor < p.cursor)
      BY <2>1
    <2> QED
      BY <1>4, <2>2
  <1>6. emitted' = Put(emitted, p.cursor, ToSnapshot(p))
    BY DEF EmitSnapshot, p
  <1>7. /\ DOMAIN emitted' = DOMAIN emitted \cup {p.cursor}
        /\ emitted'[p.cursor] = ToSnapshot(p)
        /\ \A c \in DOMAIN emitted : emitted'[c] = emitted[c]
    BY <1>5, <1>6 DEF Put
  <1> QED
    BY <1>2, <1>4, <1>5, <1>7 DEF p

LEMMA EmittedType ==
  ASSUME RInv, EmitSnapshot
  PROVE  /\ ToSnapshot(authority.pending) \in Snapshot
         /\ ToSnapshot(authority.pending).cursor = authority.pending.cursor
         /\ ToSnapshot(authority.pending).tick = authority.pending.tick
         /\ ToSnapshot(authority.pending).kind = authority.pending.kind
         /\ ToSnapshot(authority.pending).image = authority.pending.image
         /\ ToSnapshot(authority.pending).base = authority.pending.base
         /\ authority.pending.kind = Delta =>
              /\ authority.pending.base \in DOMAIN emitted
              /\ IsGround(connection, authority.pending.base)
              /\ ToSnapshot(authority.pending).from = emitted[authority.pending.base].image
  <1> DEFINE p == authority.pending
  <1>1. authority \in Lineage /\ HasPending(authority)
    BY DEF RInv, AuthorityIsSound, LineageInv, EmitSnapshot
  <1>2. /\ p.cursor \in Cursor /\ p.tick \in Tick /\ p.image \in Images
        /\ p.kind \in {Full, Delta} /\ p.base \in Cursor \cup {NoCursor}
    BY <1>1, PendingType
  <1>3. p.kind = Delta => p.base \in DOMAIN emitted /\ IsGround(connection, p.base)
    BY <1>1 DEF RInv, AuthorityIsSound, PendingIsGrounded, IsGround, ClientIsSound
  <1>4. p.kind = Delta => emitted[p.base].image \in Images
    BY <1>3 DEF RInv, EmissionsAreSound, EmissionIsSound, Snapshot
  <1> HIDE DEF p
  <1>5. /\ ToSnapshot(p) \in Snapshot /\ ToSnapshot(p).cursor = p.cursor
        /\ ToSnapshot(p).tick = p.tick /\ ToSnapshot(p).kind = p.kind
        /\ ToSnapshot(p).image = p.image /\ ToSnapshot(p).base = p.base
        /\ p.kind = Delta => ToSnapshot(p).from = emitted[p.base].image
    BY <1>2, <1>4 DEF ToSnapshot, Snapshot
  <1> QED
    BY <1>3, <1>5 DEF p

\* What is emitted is remembered with its connection; a delta among it was pending, so
\* it is grounded.
LEMMA EmitSnapshotStep ==
  ASSUME RInv, EmitSnapshot
  PROVE  RInv'
  <1> DEFINE l == authority
             p == authority.pending
             s == ToSnapshot(authority.pending)
  <1>1. LineageInv(l) /\ l \in Lineage /\ HasPending(l) /\ authority' = Emit(l)
    BY DEF RInv, AuthorityIsSound, LineageInv, EmitSnapshot
  <1>2. LineageInv(authority') /\ Emission(l, authority')
    BY <1>1, EmitIsGood, EmitFacts DEF GoodStep
  <1>3. /\ p.cursor \in Cursor /\ p.cursor \in Nat
        /\ \A c \in DOMAIN emitted : /\ c # p.cursor /\ c <= p.cursor
                                     /\ ~(p.cursor <= c)
                                     /\ emitted[c].tick <= p.tick
        /\ DOMAIN emitted' = DOMAIN emitted \cup {p.cursor}
        /\ emitted'[p.cursor] = s
        /\ \A c \in DOMAIN emitted : emitted'[c] = emitted[c]
    <2>1. p.cursor \in Nat /\ \A c \in DOMAIN emitted : c \in Nat
      BY EmitFrame, CursorNumbers DEF RInv, EmissionsAreSound
    <2>2. \A c \in DOMAIN emitted : c # p.cursor /\ c <= p.cursor /\ ~(p.cursor <= c)
      BY <2>1, EmitFrame
    <2> QED
      BY <2>1, <2>2, EmitFrame
  <1>4. /\ s \in Snapshot /\ s.cursor = p.cursor /\ s.tick = p.tick /\ s.kind = p.kind
        /\ s.base = p.base /\ s.tick \in Nat
        /\ p.kind = Delta => /\ p.base \in DOMAIN emitted
                             /\ IsGround(connection, p.base)
                             /\ s.from = emitted[p.base].image
    BY EmittedType, SnapshotType, CursorNumbers
  <1>5. /\ authority'.pending = NoCandidate
        /\ authority'.greatest_emitted = p.cursor /\ authority'.greatest_emitted_tick = p.tick
        /\ authority'.delta_base = l.delta_base
        /\ authority'.latest_confirmed = l.latest_confirmed
        /\ authority'.generation = l.generation
        /\ DOMAIN authority'.evidence \subseteq DOMAIN l.evidence \cup {p.cursor}
        /\ authority'.evidence[p.cursor].kind = p.kind
        /\ \A d \in DOMAIN authority'.evidence :
             d # p.cursor => authority'.evidence[d] = l.evidence[d]
    BY <1>2 DEF Emission
  <1>6. /\ snapshots' = snapshots \cup {<<connection, p.cursor>>}
        /\ client' = client /\ committed' = committed
        /\ client_connection' = client_connection /\ connection' = connection
        /\ bound' = bound /\ acks' = acks /\ demands' = demands
    BY DEF EmitSnapshot, clientVars, sessionVars
  <1>7. committed \subseteq DOMAIN emitted
    BY DEF RInv, ClientIsSound
  <1> HIDE DEF l, p, s
  <1>8. \A k, b : IsGround(k, b) =>
          /\ b \in committed'
          /\ \E f \in committed' : /\ <<k, f>> \in snapshots'
                                   /\ emitted'[f].kind = Full /\ f <= b
    BY <1>3, <1>6, <1>7 DEF IsGround
  <1>9. EmissionsAreSound'
    <2>1. DOMAIN emitted' \subseteq Cursor
      BY <1>3 DEF RInv, EmissionsAreSound
    <2>2. ASSUME NEW c \in DOMAIN emitted'
          PROVE  /\ emitted'[c] \in Snapshot /\ emitted'[c].cursor = c
                 /\ c <= p.cursor /\ emitted'[c].tick <= p.tick
                 /\ emitted'[c].kind = Delta =>
                      /\ emitted'[c].base \in committed
                      /\ emitted'[c].from = emitted'[emitted'[c].base].image
      <3>1. CASE c = p.cursor
        <4>1. emitted'[c] = s
          BY <1>3, <3>1
        <4>2. s.kind = Delta => s.base \in committed /\ s.from = emitted'[s.base].image
          BY <1>3, <1>4 DEF IsGround
        <4> QED
          BY <1>3, <1>4, <3>1, <4>1, <4>2
      <3>2. CASE c # p.cursor
        <4>1. c \in DOMAIN emitted /\ emitted'[c] = emitted[c] /\ EmissionIsSound(c)
          BY <1>3, <3>2 DEF RInv, EmissionsAreSound
        <4>2. c <= p.cursor /\ emitted[c].tick <= p.tick
          BY <1>3, <4>1
        <4> QED
          BY <1>3, <1>7, <4>1, <4>2 DEF EmissionIsSound
      <3> QED
        BY <3>1, <3>2
    <2>3. ASSUME NEW c \in DOMAIN emitted', NEW d \in DOMAIN emitted', c <= d
          PROVE  emitted'[c].tick <= emitted'[d].tick
      <3>1. CASE d = p.cursor
        <4>1. emitted'[d].tick = p.tick
          BY <1>3, <1>4, <3>1
        <4> QED
          BY <2>2, <4>1
      <3>2. CASE d # p.cursor
        <4>1. d \in DOMAIN emitted /\ emitted'[d] = emitted[d]
          BY <1>3, <3>2
        <4>2. c # p.cursor
          BY <1>3, <2>3, <4>1
        <4>3. c \in DOMAIN emitted /\ emitted'[c] = emitted[c]
          BY <1>3, <4>2
        <4> QED
          BY <2>3, <4>1, <4>3 DEF RInv, EmissionsAreSound
      <3> QED
        BY <3>1, <3>2
    <2>4. \A c \in DOMAIN emitted' : EmissionIsSound(c)'
      BY <1>5, <1>6, <2>2 DEF EmissionIsSound
    <2> QED
      BY <2>1, <2>3, <2>4 DEF EmissionsAreSound
  <1>10. EvidenceIsSound'
    <2> SUFFICES ASSUME NEW c \in DOMAIN authority'.evidence
                 PROVE  /\ c \in DOMAIN emitted'
                        /\ authority'.evidence[c].kind = emitted'[c].kind
                        /\ authority'.evidence[c].generation = authority'.generation
                             => <<connection, c>> \in snapshots'
      BY <1>6 DEF EvidenceIsSound
    <2>1. CASE c = p.cursor
      BY <1>3, <1>4, <1>5, <1>6, <2>1
    <2>2. CASE c # p.cursor
      <3>1. c \in DOMAIN l.evidence /\ authority'.evidence[c] = l.evidence[c]
        BY <1>5, <2>2
      <3>2. /\ c \in DOMAIN emitted /\ l.evidence[c].kind = emitted[c].kind
            /\ l.evidence[c].generation = l.generation => <<connection, c>> \in snapshots
        BY <3>1 DEF RInv, AuthorityIsSound, EvidenceIsSound, l
      <3> QED
        BY <1>3, <1>5, <1>6, <3>1, <3>2
    <2> QED
      BY <2>1, <2>2
  <1>11. AuthorityIsSound'
    <2>1. PendingIsGrounded'
      BY <1>5 DEF PendingIsGrounded, HasPending
    <2>2. DeltaEligible(l) => IsGround(connection, l.delta_base)
      BY DEF RInv, AuthorityIsSound, l
    <2>3. (DeltaEligible(authority) => IsGround(connection, authority.delta_base))'
      BY <1>5, <1>6, <1>8, <2>2 DEF DeltaEligible, IsGround
    <2>4. authority'.latest_confirmed \in committed' \cup {NoCursor}
      BY <1>5, <1>6 DEF RInv, AuthorityIsSound, l
    <2> QED
      BY <1>2, <1>10, <2>1, <2>3, <2>4 DEF AuthorityIsSound
  <1>12. ClientIsSound'
    BY <1>3, <1>6, <1>7 DEF RInv, ClientIsSound
  <1>13. NetworkIsSound'
    <2>1. connection \in Connection
      BY DEF RInv, NetworkIsSound
    <2>2. snapshots' \subseteq Connection \X DOMAIN emitted'
      BY <1>3, <1>6, <2>1 DEF RInv, NetworkIsSound
    <2>3. ASSUME NEW k \in Connection, NEW c \in DOMAIN emitted',
                 <<k, c>> \in snapshots', emitted'[c].kind = Delta
          PROVE  IsGround(k, emitted'[c].base)
      <3>1. CASE c = p.cursor
        <4>1. emitted'[c] = s
          BY <1>3, <3>1
        <4>2. c \notin DOMAIN emitted
          BY <1>3, <3>1
        <4>3. <<k, c>> \notin snapshots
          BY <4>2 DEF RInv, NetworkIsSound
        <4>4. k = connection
          BY <1>6, <2>3, <4>3
        <4> QED
          BY <1>4, <2>3, <4>1, <4>4
      <3>2. CASE c # p.cursor
        <4>1. c \in DOMAIN emitted /\ emitted'[c] = emitted[c]
          BY <1>3, <3>2
        <4>2. <<k, c>> \in snapshots
          BY <1>6, <2>3, <3>2
        <4> QED
          BY <2>3, <4>1, <4>2 DEF RInv, NetworkIsSound
      <3> QED
        BY <3>1, <3>2
    <2>4. \A k \in Connection, c \in DOMAIN emitted' :
            <<k, c>> \in snapshots' /\ emitted'[c].kind = Delta
              => IsGround(k, emitted[c].base)'
      BY <1>8, <2>3 DEF IsGround
    <2> QED
      BY <1>6, <2>2, <2>4 DEF RInv, NetworkIsSound
  <1> QED
    BY <1>9, <1>11, <1>12, <1>13 DEF RInv

\* Nothing changes but the participant's connection, which the lineages ignore, and
\* what the client has sent.
LEMMA SentStep ==
  ASSUME RInv, authority' = authority, emitted' = emitted, client' = client,
         committed' = committed, connection' = connection, snapshots' = snapshots,
         client_connection' \in Connection, bound' \in BOOLEAN,
         acks' \subseteq Connection \X committed, demands' \subseteq Connection
  PROVE  RInv'
  <1>1. EmissionsAreSound'
    BY DEF RInv, EmissionsAreSound, EmissionIsSound
  <1>2. AuthorityIsSound'
    BY DEF RInv, AuthorityIsSound, EvidenceIsSound, PendingIsGrounded, IsGround
  <1>3. ClientIsSound' /\ NetworkIsSound'
    BY DEF RInv, ClientIsSound, NetworkIsSound, IsGround
  <1> QED
    BY <1>1, <1>2, <1>3 DEF RInv

\* The client keeps its current state and may forget older ones.
LEMMA ForgetfulStep ==
  ASSUME RInv, client' \in Replica, client'.current = client.current,
         DOMAIN client'.retained \subseteq DOMAIN client.retained,
         client.current \in DOMAIN client.retained
           => client.current \in DOMAIN client'.retained,
         \A c \in DOMAIN client'.retained : client'.retained[c] = client.retained[c],
         authority' = authority, emitted' = emitted, committed' = committed,
         connection' = connection, client_connection' \in Connection, bound' = bound,
         snapshots' = snapshots, acks' = acks, demands' = demands
  PROVE  RInv'
  <1>1. EmissionsAreSound'
    BY DEF RInv, EmissionsAreSound, EmissionIsSound
  <1>2. AuthorityIsSound'
    BY DEF RInv, AuthorityIsSound, EvidenceIsSound, PendingIsGrounded, IsGround
  <1>3. ClientIsSound'
    BY DEF RInv, ClientIsSound
  <1>4. NetworkIsSound'
    BY DEF RInv, NetworkIsSound, IsGround
  <1> QED
    BY <1>1, <1>2, <1>3, <1>4 DEF RInv

\* The client commits exactly what was emitted at a newer cursor.
LEMMA CommitStep ==
  ASSUME RInv, NEW cursor \in DOMAIN emitted, client.current < cursor,
         client' = Commit(client, emitted[cursor], emitted[cursor].image),
         committed' = committed \cup {cursor},
         authority' = authority, emitted' = emitted, connection' = connection,
         client_connection' = client_connection, bound' = bound,
         snapshots' = snapshots, acks' = acks, demands' = demands
  PROVE  RInv'
  <1>1. /\ client \in Replica /\ emitted[cursor] \in Snapshot /\ emitted[cursor].cursor = cursor
        /\ emitted[cursor].image \in Images
    BY SnapshotType DEF RInv, ClientIsSound, EmissionsAreSound, EmissionIsSound
  <1>2. Committed(client, client', cursor, emitted[cursor].tick, emitted[cursor].image)
    BY <1>1, CommitFacts
  <1>3. /\ client' \in Replica /\ client'.current = cursor
        /\ cursor \in DOMAIN client'.retained
        /\ client'.retained[cursor]
             = [tick |-> emitted[cursor].tick, image |-> emitted[cursor].image]
        /\ \A c \in DOMAIN client'.retained :
             c # cursor => /\ c \in DOMAIN client.retained
                           /\ client'.retained[c] = client.retained[c]
    BY <1>2 DEF Committed
  <1>4. \A c \in DOMAIN emitted : c \in Nat
    BY CurrentNumber
  <1>5. client.current \in Nat /\ cursor \in Nat
    BY <1>4, CurrentNumber
  <1>6. EmissionsAreSound'
    <2>1. \A c \in DOMAIN emitted : EmissionIsSound(c)
      BY DEF RInv, EmissionsAreSound
    <2>2. \A c \in DOMAIN emitted : EmissionIsSound(c)'
      BY <2>1 DEF EmissionIsSound
    <2> QED
      BY <2>2 DEF RInv, EmissionsAreSound
  <1>7. AuthorityIsSound'
    BY DEF RInv, AuthorityIsSound, EvidenceIsSound, PendingIsGrounded, IsGround
  <1>8. ClientIsSound'
    <2>1. committed' \subseteq DOMAIN emitted
      BY DEF RInv, ClientIsSound
    <2>2. \A c \in committed' : c <= cursor
      BY <1>4, <1>5 DEF RInv, ClientIsSound
    <2>3. ASSUME NEW c \in DOMAIN client'.retained
          PROVE  /\ c \in DOMAIN emitted /\ c <= cursor
                 /\ client'.retained[c] = [tick |-> emitted[c].tick, image |-> emitted[c].image]
      <3>1. CASE c = cursor
        BY <1>3, <1>5, <3>1
      <3>2. CASE c # cursor
        <4>1. c \in DOMAIN client.retained /\ client'.retained[c] = client.retained[c]
          BY <1>3, <3>2
        <4>2. /\ c \in DOMAIN emitted /\ c <= client.current
              /\ client.retained[c] = [tick |-> emitted[c].tick, image |-> emitted[c].image]
          BY <4>1 DEF RInv, ClientIsSound
        <4> QED
          BY <1>4, <1>5, <4>1, <4>2
      <3> QED
        BY <3>1, <3>2
    <2> QED
      BY <1>3, <2>1, <2>2, <2>3 DEF ClientIsSound
  <1>9. NetworkIsSound'
    BY DEF RInv, NetworkIsSound, IsGround
  <1> QED
    BY <1>6, <1>7, <1>8, <1>9 DEF RInv

\* What the client receives was emitted.
LEMMA ReceivedWasEmitted ==
  ASSUME RInv, NEW cursor, Received(cursor)
  PROVE  /\ cursor \in DOMAIN emitted
         /\ emitted[cursor] \in Snapshot /\ emitted[cursor].cursor = cursor
  BY DEF RInv, NetworkIsSound, Received, EmissionsAreSound, EmissionIsSound

LEMMA CommitFullStep ==
  ASSUME RInv, NEW cursor, Received(cursor), CommitFull(cursor)
  PROVE  RInv'
  BY ReceivedWasEmitted, CommitStep
  DEF CommitFull, CanCommitFull, IsNewer, authorityVars, sessionVars, networkVars

\* The base of an applicable delta is retained exactly as the authority had it, so the
\* delta rebuilds exactly the image the authority emitted.
LEMMA DeltaIsExact ==
  ASSUME RInv, NEW cursor, Received(cursor), CommitDelta(cursor)
  PROVE  /\ client.current < cursor
         /\ client' = Commit(client, emitted[cursor], emitted[cursor].image)
  <1> DEFINE s == emitted[cursor]
  <1>1. cursor \in DOMAIN emitted /\ s.cursor = cursor
    BY ReceivedWasEmitted
  <1>2. PICK image \in Images : /\ CanCommitDelta(client, s, image)
                                /\ client' = Commit(client, s, image)
    BY DEF CommitDelta
  <1>3. s.kind = Delta /\ client.current < cursor /\ s.base \in DOMAIN client.retained
        /\ image \in Reconstructions(client, s)
    BY <1>1, <1>2 DEF CommitDelta, CanCommitDelta, ConsidersDelta, IsNewer, IsApplicable
  <1>4. client.retained[s.base]
          = [tick |-> emitted[s.base].tick, image |-> emitted[s.base].image]
    BY <1>3 DEF RInv, ClientIsSound
  <1>5. s.from = emitted[s.base].image
    BY <1>1, <1>3 DEF RInv, EmissionsAreSound, EmissionIsSound
  <1>6. image = s.image
    BY <1>3, <1>4, <1>5 DEF Reconstructions
  <1> QED
    BY <1>2, <1>3, <1>6

LEMMA CommitDeltaStep ==
  ASSUME RInv, NEW cursor, Received(cursor), CommitDelta(cursor)
  PROVE  RInv'
  BY ReceivedWasEmitted, DeltaIsExact, CommitStep
  DEF CommitDelta, authorityVars, sessionVars, networkVars

LEMMA RejectDeltaStep ==
  ASSUME RInv, NEW cursor, RejectDelta(cursor)
  PROVE  RInv'
  <1>1. client \in Replica /\ client' = EnterRecovery(client)
    BY DEF RInv, ClientIsSound, RejectDelta
  <1>2. client_connection \in Connection
    BY DEF RInv, NetworkIsSound
  <1> QED
    BY <1>1, <1>2, EnterRecoveryFacts, ForgetfulStep
    DEF RejectDelta, authorityVars, sessionVars, networkVars

LEMMA ClientReconnectsStep ==
  ASSUME RInv, ClientReconnects
  PROVE  RInv'
  <1>1. client \in Replica /\ client' = EnterRecovery(client)
    BY DEF RInv, ClientIsSound, ClientReconnects
  <1>2. client_connection' \in Connection
    BY DEF RInv, NetworkIsSound, ClientReconnects
  <1> QED
    BY <1>1, <1>2, EnterRecoveryFacts, ForgetfulStep
    DEF ClientReconnects, authorityVars, sessionVars, networkVars

LEMMA ClientEvictsHistoryStep ==
  ASSUME RInv, NEW cursor, ClientEvictsHistory(cursor)
  PROVE  RInv'
  <1>1. client \in Replica /\ client' = EvictHistorical(client, cursor)
        /\ cursor # client.current
    BY DEF RInv, ClientIsSound, ClientEvictsHistory, CanEvictHistorical
  <1>2. client_connection \in Connection
    BY DEF RInv, NetworkIsSound
  <1>3. /\ client' \in Replica /\ client'.current = client.current
        /\ DOMAIN client'.retained = DOMAIN client.retained \ {cursor}
        /\ \A d \in DOMAIN client.retained \ {cursor} :
             client'.retained[d] = client.retained[d]
    BY <1>1, EvictHistoricalFacts
  <1> QED
    BY <1>1, <1>2, <1>3, ForgetfulStep
    DEF ClientEvictsHistory, authorityVars, sessionVars, networkVars

LEMMA LoseConnectionStep ==
  ASSUME RInv, LoseConnection
  PROVE  RInv'
  BY SentStep DEF RInv, NetworkIsSound, LoseConnection, authorityVars, clientVars, networkVars

LEMMA SendAckStep ==
  ASSUME RInv, SendAck
  PROVE  RInv'
  <1>1. acks' \subseteq Connection \X committed
    BY DEF RInv, NetworkIsSound, ClientIsSound, SendAck
  <1> QED
    BY <1>1, SentStep
    DEF RInv, NetworkIsSound, SendAck, authorityVars, clientVars, sessionVars

LEMMA DemandFullStep ==
  ASSUME RInv, DemandFull
  PROVE  RInv'
  BY SentStep DEF RInv, NetworkIsSound, DemandFull, authorityVars, clientVars, sessionVars

LEMMA StutterStep ==
  ASSUME RInv, UNCHANGED vars
  PROVE  RInv'
  BY SentStep
  DEF RInv, NetworkIsSound, vars, authorityVars, clientVars, sessionVars, networkVars

LEMMA NextRInv == RInv /\ [Next]_vars => RInv'
  <1> SUFFICES ASSUME RInv, [Next]_vars PROVE RInv'
    OBVIOUS
  <1>1. CASE AuthorityStep
    <2>1. ASSUME NEW cursor \in Cursor, NEW tick \in Tick, NEW image \in Images,
                 NEW designate \in BOOLEAN,
                 HostPreparesFull(cursor, tick, image, designate)
          PROVE  RInv'
      BY <2>1, HostPreparesFullStep
    <2>2. ASSUME NEW cursor \in Cursor, NEW tick \in Tick, NEW image \in Images,
                 HostPreparesDelta(cursor, tick, image)
          PROVE  RInv'
      BY <2>2, HostPreparesDeltaStep
    <2>3. ASSUME NEW cursor \in Cursor, HostEvictsState(cursor) PROVE RInv'
      BY <2>3, HostEvictsStateStep
    <2>4. ASSUME NEW c \in Connection, ReceiveDemand(c) PROVE RInv'
      BY <2>4, ReceiveDemandStep
    <2>5. ASSUME NEW c \in Connection, NEW cursor \in Cursor, ReceiveAck(c, cursor)
          PROVE  RInv'
      BY <2>5, ReceiveAckStep
    <2> QED
      BY <1>1, <2>1, <2>2, <2>3, <2>4, <2>5, HostCancelsStep, EmitSnapshotStep
      DEF AuthorityStep
  <1>2. CASE ConnectionStep
    BY <1>2, LoseConnectionStep, ReplaceConnectionStep, ClientReconnectsStep DEF ConnectionStep
  <1>3. CASE ClientStep
    <2>1. ASSUME NEW cursor \in Cursor, ReceiveSnapshot(cursor) PROVE RInv'
      BY <2>1, CommitFullStep, CommitDeltaStep, RejectDeltaStep DEF ReceiveSnapshot
    <2> QED
      BY <1>3, <2>1, ClientEvictsHistoryStep, SendAckStep, DemandFullStep DEF ClientStep
  <1>4. CASE UNCHANGED vars
    BY <1>4, StutterStep
  <1> QED
    BY <1>1, <1>2, <1>3, <1>4 DEF Next

THEOREM Invariance == Spec => []RInv
  BY InitRInv, NextRInv, PTL DEF Spec

-----------------------------------------------------------------------------
(* What follows                                                            *)

\* Every variable of replication keeps its type: what the client has committed, and what
\* travels, was emitted.
THEOREM TypeCorrect == Spec => []TypeOK
  <1>1. RInv => TypeOK
    <2> SUFFICES ASSUME RInv PROVE TypeOK
      OBVIOUS
    <2>1. \A c \in DOMAIN emitted : emitted[c] \in Snapshot
      BY DEF RInv, EmissionsAreSound, EmissionIsSound
    <2>2. authority \in Lineage
      BY DEF RInv, AuthorityIsSound, LineageInv
    <2> QED
      BY <2>1, <2>2
      DEF TypeOK, RInv, EmissionsAreSound, ClientIsSound, NetworkIsSound
  <1> QED
    BY <1>1, Invariance, PTL

LEMMA ExactFromRInv == RInv => ReplicaIsExact
  <1> SUFFICES ASSUME RInv PROVE ReplicaIsExact
    OBVIOUS
  <1>1. /\ client \in Replica
        /\ client.current # NoCursor => client.current \in DOMAIN client.retained
        /\ \A c \in DOMAIN client.retained :
             /\ c \in DOMAIN emitted /\ c <= client.current
             /\ client.retained[c] = [tick |-> emitted[c].tick, image |-> emitted[c].image]
    BY DEF RInv, ClientIsSound
  <1>2. ASSUME NEW c \in DOMAIN client.retained
        PROVE  client.retained[c].tick <= CurrentTick(client)
    <2>1. c \in Nat /\ 0 < c /\ c <= client.current /\ client.current \in Nat
      BY <1>1, CursorNumbers, CurrentNumber DEF RInv, EmissionsAreSound
    <2>2. client.current # NoCursor
      BY <2>1, CursorNumbers
    <2>3. client.current \in DOMAIN client.retained
      BY <1>1, <2>2
    <2>4. emitted[c].tick <= emitted[client.current].tick
      BY <1>1, <2>1, <2>3 DEF RInv, EmissionsAreSound
    <2>5. \A d \in DOMAIN client.retained : client.retained[d].tick = emitted[d].tick
      <3> TAKE d \in DOMAIN client.retained
      <3>1. client.retained[d] = [tick |-> emitted[d].tick, image |-> emitted[d].image]
        BY <1>1
      <3> QED
        BY <3>1
    <2>6. CurrentTick(client) = emitted[client.current].tick
      BY <2>3, <2>5 DEF CurrentTick
    <2> QED
      BY <2>4, <2>5, <2>6
  <1> QED
    BY <1>1, <1>2 DEF ReplicaIsExact, CurrentIsRetained

\* Whatever is lost, repeated or reordered, every state the client retains is exactly the
\* one the authority emitted at that cursor, and the one it shows is the newest of them.
THEOREM ReplicaExact == Spec => []ReplicaIsExact
  BY ExactFromRInv, Invariance, PTL

LEMMA FreshFromRInv == RInv => DeltasFollowAFreshFull
  <1> SUFFICES ASSUME RInv PROVE DeltasFollowAFreshFull
    OBVIOUS
  <1>1. DeltasBuildOnCommittedState
    <2>1. authority.latest_confirmed \in committed \cup {NoCursor}
      BY DEF RInv, AuthorityIsSound
    <2>2. client.current \in Nat
      BY CurrentNumber
    <2>3. authority.latest_confirmed <= client.current
      BY <2>1, <2>2, CursorNumbers DEF RInv, ClientIsSound
    <2>4. \A c \in DOMAIN emitted : emitted[c].kind = Delta => emitted[c].base \in committed
      BY DEF RInv, EmissionsAreSound, EmissionIsSound
    <2> QED
      BY <2>1, <2>3, <2>4 DEF DeltasBuildOnCommittedState
  <1>2. FullFirst
    <2> SUFFICES ASSUME NEW m \in snapshots, emitted[m[2]].kind = Delta
                 PROVE  \E n \in snapshots : /\ n[1] = m[1]
                                             /\ emitted[n[2]].kind = Full
                                             /\ n[2] \in committed
                                             /\ n[2] <= emitted[m[2]].base
      BY DEF FullFirst
    <2>1. m[1] \in Connection /\ m[2] \in DOMAIN emitted /\ m = <<m[1], m[2]>>
      BY DEF RInv, NetworkIsSound
    <2>2. IsGround(m[1], emitted[m[2]].base)
      BY <2>1 DEF RInv, NetworkIsSound
    <2>3. PICK f \in committed : /\ <<m[1], f>> \in snapshots
                                 /\ emitted[f].kind = Full /\ f <= emitted[m[2]].base
      BY <2>2 DEF IsGround
    <2>4. <<m[1], f>>[1] = m[1] /\ <<m[1], f>>[2] = f
      OBVIOUS
    <2> QED
      BY <2>3, <2>4
  <1> QED
    BY <1>1, <1>2 DEF DeltasFollowAFreshFull

\* The authority confirms, and builds deltas on, only what the client has committed, and
\* over a connection it sends none before the client has committed a full snapshot sent
\* over that same connection.
THEOREM DeltasAreGrounded == Spec => []DeltasFollowAFreshFull
  BY FreshFromRInv, Invariance, PTL

\* What a step may do to the client: nothing, forget history, begin a recovery, or commit
\* an emitted snapshot, exactly; a delta only when it is synchronized.
ClientMoves ==
  \/ /\ client'.current = client.current /\ committed' = committed
     /\ client'.synchronized \in {client.synchronized, FALSE}
     /\ client.current \in DOMAIN client.retained =>
          /\ client.current \in DOMAIN client'.retained
          /\ client'.retained[client.current] = client.retained[client.current]
  \/ \E c \in DOMAIN emitted :
       /\ client.current < c /\ client'.current = c
       /\ committed' = committed \cup {c}
       /\ emitted[c].kind = Full \/ client.synchronized
       /\ client'.retained[c] = [tick |-> emitted[c].tick, image |-> emitted[c].image]
       /\ authority' = authority /\ emitted' = emitted

LEMMA ClientMovesOnly ==
  ASSUME RInv, [Next]_vars
  PROVE  ClientMoves
  <1>1. client \in Replica /\ client.synchronized \in BOOLEAN
    BY ReplicaType DEF RInv, ClientIsSound
  <1>2. CASE client' = client /\ committed' = committed
    BY <1>2 DEF ClientMoves
  <1>3. ASSUME client' = EnterRecovery(client), committed' = committed PROVE ClientMoves
    BY <1>1, <1>3, EnterRecoveryFacts DEF ClientMoves
  <1>4. ASSUME NEW cursor \in Cursor, ReceiveSnapshot(cursor) PROVE ClientMoves
    <2>1. cursor \in DOMAIN emitted /\ emitted[cursor] \in Snapshot
          /\ emitted[cursor].cursor = cursor /\ emitted[cursor].image \in Images
      BY <1>4, ReceivedWasEmitted, SnapshotType DEF ReceiveSnapshot
    <2>2. ASSUME client' = Commit(client, emitted[cursor], emitted[cursor].image)
          PROVE  /\ client'.current = cursor
                 /\ client'.retained[cursor]
                      = [tick |-> emitted[cursor].tick, image |-> emitted[cursor].image]
      <3>1. Committed(client, Commit(client, emitted[cursor], emitted[cursor].image),
                      emitted[cursor].cursor, emitted[cursor].tick, emitted[cursor].image)
        BY <1>1, <2>1, CommitFacts
      <3> QED
        BY <2>1, <2>2, <3>1 DEF Committed
    <2>3. CASE CommitFull(cursor)
      BY <2>1, <2>2, <2>3
      DEF CommitFull, CanCommitFull, IsNewer, ClientMoves, authorityVars
    <2>4. CASE CommitDelta(cursor)
      <3>1. client.current < cursor
            /\ client' = Commit(client, emitted[cursor], emitted[cursor].image)
        BY <1>4, <2>4, DeltaIsExact DEF ReceiveSnapshot
      <3>2. client.synchronized
        BY <2>4 DEF CommitDelta, CanCommitDelta, ConsidersDelta
      <3> QED
        BY <2>1, <2>2, <2>4, <3>1, <3>2 DEF CommitDelta, ClientMoves, authorityVars
    <2>5. CASE RejectDelta(cursor)
      BY <1>3, <2>5 DEF RejectDelta
    <2> QED
      BY <1>4, <2>3, <2>4, <2>5 DEF ReceiveSnapshot
  <1>5. ASSUME NEW cursor \in Cursor, ClientEvictsHistory(cursor) PROVE ClientMoves
    <2>1. cursor # client.current /\ client' = EvictHistorical(client, cursor)
          /\ committed' = committed
      BY <1>5 DEF ClientEvictsHistory, CanEvictHistorical
    <2>2. /\ client'.current = client.current
          /\ client'.synchronized = client.synchronized
          /\ DOMAIN client'.retained = DOMAIN client.retained \ {cursor}
          /\ \A d \in DOMAIN client.retained \ {cursor} :
               client'.retained[d] = client.retained[d]
      BY <1>1, <2>1, EvictHistoricalFacts
    <2> QED
      BY <2>1, <2>2 DEF ClientMoves
  <1>6. CASE AuthorityStep \/ LoseConnection \/ ReplaceConnection \/ SendAck \/ DemandFull
             \/ UNCHANGED vars
    BY <1>2, <1>6
    DEF AuthorityStep, HostPreparesFull, HostPreparesDelta, HostCancels, EmitSnapshot,
        HostEvictsState, ReceiveDemand, ReceiveAck, LoseConnection, ReplaceConnection,
        SendAck, DemandFull, vars, clientVars
  <1>7. CASE ClientReconnects
    BY <1>3, <1>7 DEF ClientReconnects
  <1> QED
    BY <1>4, <1>5, <1>6, <1>7 DEF Next, ConnectionStep, ClientStep

LEMMA BarrierStep == RInv /\ [Next]_vars =>
  (~client.synchronized =>
     /\ client'.current # client.current => emitted[client'.current].kind = Full
     /\ client'.synchronized => client'.current # client.current)
  <1> SUFFICES ASSUME RInv, [Next]_vars, ~client.synchronized
               PROVE  /\ client'.current # client.current
                           => emitted[client'.current].kind = Full
                      /\ client'.synchronized => client'.current # client.current
    OBVIOUS
  <1>1. client.current \in Nat /\ \A c \in DOMAIN emitted : c \in Nat
    BY CurrentNumber
  <1>2. client.synchronized \in BOOLEAN
    BY ReplicaType DEF RInv, ClientIsSound
  <1>3. ClientMoves
    BY ClientMovesOnly
  <1>4. CASE client'.current = client.current
             /\ client'.synchronized \in {client.synchronized, FALSE}
    BY <1>2, <1>4
  <1>5. ASSUME NEW c \in DOMAIN emitted, client.current < c, client'.current = c,
               emitted[c].kind = Full \/ client.synchronized
        PROVE  client'.current # client.current /\ emitted[client'.current].kind = Full
    <2>1. c # client.current
      BY <1>1, <1>5
    <2> QED
      BY <1>5, <2>1
  <1> QED
    BY <1>3, <1>4, <1>5 DEF ClientMoves

\* A client that requires a full snapshot moves on only by committing a full one, and is
\* synchronized again only by moving on.
THEOREM RecoveryBlocksDeltas == Spec => RecoveryIsABarrier
  BY BarrierStep, Invariance, PTL DEF Spec, RecoveryIsABarrier

\* What a step may do to the authority: confirm what was acknowledged over the bound
\* connection, emit something new, or neither.
AuthorityMoves ==
  \/ /\ emitted' = emitted
     /\ authority'.latest_confirmed = authority.latest_confirmed
  \/ \E k \in Connection, c \in Cursor :
       /\ ReceiveAck(k, c) /\ authority'.latest_confirmed = c
       /\ authority.latest_confirmed < c
  \/ EmitSnapshot /\ authority'.latest_confirmed = authority.latest_confirmed

LEMMA AuthorityMovesOnly ==
  ASSUME RInv, [Next]_vars
  PROVE  AuthorityMoves
  <1>1. authority \in Lineage
    BY DEF RInv, AuthorityIsSound, LineageInv
  <1>2. ASSUME Remains(authority, authority'), emitted' = emitted PROVE AuthorityMoves
    BY <1>2 DEF Remains, AuthorityMoves
  <1>3. CASE AuthorityStep
    <2>1. ASSUME NEW cursor \in Cursor, NEW tick \in Tick, NEW image \in Images,
                 NEW designate \in BOOLEAN,
                 HostPreparesFull(cursor, tick, image, designate)
          PROVE  AuthorityMoves
      BY <1>1, <1>2, <2>1, PendingRemains DEF HostPreparesFull, PrepareFull
    <2>2. ASSUME NEW cursor \in Cursor, NEW tick \in Tick, NEW image \in Images,
                 HostPreparesDelta(cursor, tick, image)
          PROVE  AuthorityMoves
      BY <1>1, <1>2, <2>2, PendingRemains DEF HostPreparesDelta, PrepareDelta
    <2>3. CASE HostCancels
      BY <1>1, <1>2, <2>3, PendingRemains DEF HostCancels, CancelPending
    <2>4. ASSUME NEW cursor \in Cursor, HostEvictsState(cursor) PROVE AuthorityMoves
      BY <1>1, <1>2, <2>4, EvictStateRemains DEF HostEvictsState
    <2>5. ASSUME NEW c \in Connection, ReceiveDemand(c) PROVE AuthorityMoves
      BY <1>1, <1>2, <2>5, StartRecoveryRemains DEF ReceiveDemand
    <2>6. CASE EmitSnapshot
      <3>1. Emission(authority, authority')
        BY <1>1, <2>6, EmitFacts DEF EmitSnapshot
      <3> QED
        BY <2>6, <3>1 DEF Emission, AuthorityMoves
    <2>7. ASSUME NEW k \in Connection, NEW c \in Cursor, ReceiveAck(k, c)
          PROVE  AuthorityMoves
      <3>1. Confirmation(authority, authority', c)
        BY <1>1, <2>7, ConfirmFacts DEF ReceiveAck
      <3>2. authority'.latest_confirmed = c /\ authority.latest_confirmed < c
        BY <2>7, <3>1 DEF Confirmation, ReceiveAck, CanConfirm
      <3> QED
        BY <2>7, <3>2 DEF AuthorityMoves
    <2> QED
      BY <1>3, <2>1, <2>2, <2>3, <2>4, <2>5, <2>6, <2>7 DEF AuthorityStep
  <1>4. CASE ReplaceConnection
    BY <1>1, <1>2, <1>4, StartRecoveryRemains DEF ReplaceConnection
  <1>5. CASE authority' = authority /\ emitted' = emitted
    BY <1>5 DEF AuthorityMoves
  <1>6. CASE LoseConnection \/ ClientReconnects \/ ClientStep \/ UNCHANGED vars
    BY <1>5, <1>6
    DEF LoseConnection, ClientReconnects, ClientStep, ReceiveSnapshot, CommitFull, CommitDelta,
        RejectDelta, ClientEvictsHistory, SendAck, DemandFull, vars, authorityVars
  <1> QED
    BY <1>3, <1>4, <1>6 DEF Next, ConnectionStep

LEMMA ConfirmationStep == RInv /\ [Next]_vars =>
  (authority'.latest_confirmed # authority.latest_confirmed =>
     bound /\ <<connection, authority'.latest_confirmed>> \in acks)
  <1> SUFFICES ASSUME RInv, [Next]_vars,
                      authority'.latest_confirmed # authority.latest_confirmed
               PROVE  bound /\ <<connection, authority'.latest_confirmed>> \in acks
    OBVIOUS
  <1>1. AuthorityMoves
    BY AuthorityMovesOnly
  <1>2. PICK k \in Connection, c \in Cursor :
          ReceiveAck(k, c) /\ authority'.latest_confirmed = c
    BY <1>1 DEF AuthorityMoves
  <1> QED
    BY <1>2 DEF ReceiveAck, IsAuthorized

\* Confirmation moves only on an acknowledgement that came over the connection the
\* participant is bound to at that moment.
THEOREM LateAcksAreIgnored == Spec => OnlyTheBoundConnectionConfirms
  BY ConfirmationStep, Invariance, PTL DEF Spec, OnlyTheBoundConnectionConfirms

-----------------------------------------------------------------------------
(* The refinement of ReplicaContract                                       *)

LEMMA InitRefines == Init => Contract!Init
  <1> SUFFICES ASSUME Init PROVE Contract!Init
    OBVIOUS
  <1>1. DOMAIN EmptyMap = {}
    BY EmptyMapIsEmpty
  <1>2. Published = EmptyMap
    BY <1>1 DEF Published, Init, EmptyMap
  <1>3. View = [cursor |-> 0] /\ authority.latest_confirmed = 0
    BY DEF Init, NewReplica, NewLineage, View, NoCursor
  <1> QED
    BY <1>2, <1>3 DEF Init, Contract!Init, Contract!Nothing, EmptyMap, Contract!EmptyMap

LEMMA ViewCursor == RInv => View.cursor = client.current
  BY CursorNumbers DEF View

LEMMA SamePublished ==
  ASSUME emitted' = emitted
  PROVE  Published' = Published
  BY DEF Published

LEMMA StepRefines == RInv /\ [Next]_vars => [Contract!Next]_(Contract!vars)
  <1> SUFFICES ASSUME RInv, [Next]_vars PROVE [Contract!Next]_(Contract!vars)
    OBVIOUS
  <1>1. ClientMoves /\ AuthorityMoves
    BY ClientMovesOnly, AuthorityMovesOnly
  <1>2. /\ client.current \in Nat
        /\ client.current # NoCursor => client.current \in DOMAIN client.retained
    BY CurrentNumber DEF RInv, ClientIsSound
  <1>3. CASE \E c \in DOMAIN emitted :
               /\ client.current < c /\ client'.current = c
               /\ committed' = committed \cup {c}
               /\ client'.retained[c] = [tick |-> emitted[c].tick, image |-> emitted[c].image]
               /\ authority' = authority /\ emitted' = emitted
    <2>1. PICK c \in DOMAIN emitted :
               /\ client.current < c /\ client'.current = c
               /\ committed' = committed \cup {c}
               /\ client'.retained[c] = [tick |-> emitted[c].tick, image |-> emitted[c].image]
               /\ authority' = authority /\ emitted' = emitted
      BY <1>3
    <2>2. c \in Cursor /\ c # NoCursor
      BY CursorNumbers DEF RInv, EmissionsAreSound
    <2>3. /\ DOMAIN Published = DOMAIN emitted
          /\ Published[c].tick = emitted[c].tick /\ Published[c].image = emitted[c].image
      BY DEF Published
    <2>4. View' = [cursor |-> c, tick |-> emitted[c].tick, image |-> emitted[c].image]
      BY <2>1, <2>2 DEF View
    <2>5. Published' = Published /\ View.cursor < c
      BY <2>1, SamePublished, ViewCursor
    <2>6. Contract!Show(c)
      BY <2>1, <2>3, <2>4, <2>5 DEF Contract!Show
    <2> QED
      BY <2>2, <2>6 DEF Contract!Next
  <1>4. CASE /\ client'.current = client.current /\ committed' = committed
             /\ client.current \in DOMAIN client.retained =>
                  client'.retained[client.current] = client.retained[client.current]
    <2>1. View' = View
      BY <1>2, <1>4 DEF View
    <2>2. CASE emitted' = emitted /\ authority'.latest_confirmed = authority.latest_confirmed
      BY <1>4, <2>1, <2>2, SamePublished DEF Contract!vars
    <2>3. ASSUME NEW k \in Connection, NEW c \in Cursor, ReceiveAck(k, c),
                 authority'.latest_confirmed = c, authority.latest_confirmed < c
          PROVE  [Contract!Next]_(Contract!vars)
      <3>1. c \in committed /\ emitted' = emitted
        BY <2>3 DEF RInv, NetworkIsSound, ReceiveAck
      <3>2. Contract!Confirm(c)
        BY <1>4, <2>1, <2>3, <3>1, SamePublished DEF Contract!Confirm
      <3> QED
        BY <3>2 DEF Contract!Next
    <2>4. CASE EmitSnapshot /\ authority'.latest_confirmed = authority.latest_confirmed
      <3> DEFINE p == authority.pending
      <3>1. authority \in Lineage /\ HasPending(authority)
        BY <2>4 DEF RInv, AuthorityIsSound, LineageInv, EmitSnapshot
      <3>2. p.cursor \in Cursor /\ p.tick \in Tick /\ p.image \in Images
        BY <3>1, PendingType
      <3>3. /\ \A c \in DOMAIN emitted : c < p.cursor /\ emitted[c].tick <= p.tick
            /\ DOMAIN emitted' = DOMAIN emitted \cup {p.cursor}
            /\ emitted'[p.cursor].tick = p.tick /\ emitted'[p.cursor].image = p.image
            /\ p.cursor \notin DOMAIN emitted
            /\ \A c \in DOMAIN emitted : emitted'[c] = emitted[c]
        BY <2>4, EmitFrame, EmittedType
      <3> HIDE DEF p
      <3>4. Published' = Put(Published, p.cursor, [tick |-> p.tick, image |-> p.image])
        BY <3>3 DEF Published, Put
      <3>5. \A c \in DOMAIN Published : c < p.cursor /\ Published[c].tick <= p.tick
        BY <3>3 DEF Published
      <3>6. Contract!Publish(p.cursor, p.tick, p.image)
        BY <1>4, <2>1, <2>4, <3>4, <3>5 DEF Contract!Publish, Put, Contract!Put
      <3> QED
        BY <3>2, <3>6 DEF Contract!Next
    <2> QED
      BY <1>1, <2>2, <2>3, <2>4 DEF AuthorityMoves
  <1> QED
    BY <1>1, <1>3, <1>4 DEF ClientMoves

\* Replication over connections that lose, repeat, delay and reorder, and are replaced,
\* implements ReplicaContract: published states are shown, in order and unaltered, and
\* only those shown are taken for confirmed.
THEOREM ReplicationImplementsContract == Spec => ImplementsContract
  BY InitRefines, StepRefines, Invariance, PTL DEF Spec, ImplementsContract, Contract!Spec

-----------------------------------------------------------------------------
(* Prediction                                                              *)

\* A client's lineage: a recovery's boundary is not beyond what the client shows, and
\* before what it shows once the recovery is over. What it retains does not matter.
ClientOrder(r) ==
  /\ r \in [synchronized : BOOLEAN, current : Nat, boundary : Nat, retained : {r.retained}]
  /\ r.boundary <= r.current
  /\ r.synchronized => r.boundary < r.current

\* How a client's lineage moves from r to m: a recovery that begins has a new boundary.
ClientAdvances(r, m) ==
  /\ ClientOrder(m)
  /\ r.boundary <= m.boundary
  /\ r.synchronized /\ ~m.synchronized => r.boundary < m.boundary

\* What the client shows stays retained, with its tick.
CurrentStays(r, m) ==
  /\ m.current = r.current
  /\ r.current \in DOMAIN r.retained =>
       /\ r.current \in DOMAIN m.retained
       /\ m.retained[r.current].tick = r.retained[r.current].tick

\* A prediction that is not active has nothing pending.
PredictionShape(p) ==
  /\ p \in [state : {p.state}, frontier : {p.frontier}, pending : {p.pending},
            bytes : {p.bytes}, last_commit : {p.last_commit}, last_boundary : Nat]
  /\ ~IsActive(p) => DOMAIN p.pending = {}

MessagesAreTyped ==
  /\ LineageInv(authority)
  /\ \A c \in DOMAIN emitted : /\ c \in Nat /\ c <= authority.greatest_emitted
                               /\ emitted[c].cursor = c /\ emitted[c].tick \in Nat
  /\ \A m \in snapshots : m[2] \in DOMAIN emitted

\* While input is in doubt, the boundary of the recovery it was pending in is still to be
\* observed: it is newer than every boundary the prediction has observed.
PredictionOrder ==
  /\ PredictionShape(prediction)
  /\ prediction.last_boundary <= client.boundary
  /\ IsActive(prediction) /\ ~client.synchronized
       => prediction.last_boundary < client.boundary
  /\ doubted \subseteq DOMAIN prediction.pending
  /\ doubted # {} => prediction.last_boundary < client.boundary

PInv == MessagesAreTyped /\ ClientOrder(client) /\ PredictionOrder

-----------------------------------------------------------------------------
(* The prediction's operations                                             *)

\* o is what p becomes when it looks at the lineage r.
Observed(p, r, o) ==
  /\ PredictionShape(o)
  /\ o.last_boundary \in {p.last_boundary, r.boundary}
  /\ IsActive(o) => r.synchronized
  /\ p.last_boundary < r.boundary => DOMAIN o.pending = {}
  /\ DOMAIN o.pending \subseteq DOMAIN p.pending
  /\ o.last_commit # p.last_commit => r.synchronized

LEMMA InvalidateFacts ==
  ASSUME NEW p, PredictionShape(p), NEW reason, reason # "Active"
  PROVE  /\ PredictionShape(Invalidate(p, reason)) /\ ~IsActive(Invalidate(p, reason))
         /\ DOMAIN Invalidate(p, reason).pending = {}
         /\ Invalidate(p, reason).last_boundary = p.last_boundary
         /\ Invalidate(p, reason).last_commit = p.last_commit
  <1>1. DOMAIN EmptyMap = {}
    BY EmptyMapIsEmpty
  <1>2. IsTerminal(p) => ~IsActive(p)
    BY DEF IsTerminal, IsActive, Terminal
  <1> QED
    BY <1>1, <1>2 DEF Invalidate, PredictionShape, IsActive

LEMMA NoticeRecoveryFacts ==
  ASSUME NEW p, PredictionShape(p), NEW r, r.boundary \in Nat
  PROVE  LET q == NoticeRecovery(p, r)
         IN /\ PredictionShape(q)
            /\ q.last_boundary \in {p.last_boundary, r.boundary}
            /\ p.last_boundary < r.boundary => ~IsActive(q)
            /\ DOMAIN q.pending \subseteq DOMAIN p.pending
            /\ q.last_commit = p.last_commit
  <1> DEFINE i == Invalidate(p, "ReplicationRecovery")
             q == [i EXCEPT !.last_boundary = r.boundary]
  <1>1. /\ PredictionShape(i) /\ ~IsActive(i) /\ DOMAIN i.pending = {}
        /\ i.last_commit = p.last_commit
    BY InvalidateFacts
  <1> HIDE DEF i
  <1>2. /\ PredictionShape(q) /\ ~IsActive(q) /\ DOMAIN q.pending = {}
        /\ q.last_commit = p.last_commit /\ q.last_boundary = r.boundary
    BY <1>1 DEF PredictionShape, IsActive
  <1>3. NoticeRecovery(p, r) = IF r.boundary > p.last_boundary THEN q ELSE p
    BY DEF NoticeRecovery, i
  <1>4. r.boundary > p.last_boundary <=> p.last_boundary < r.boundary
    BY DEF PredictionShape
  <1> HIDE DEF q
  <1> QED
    BY <1>2, <1>3, <1>4

LEMMA ActivateFacts ==
  ASSUME NEW p, PredictionShape(p), NEW r
  PROVE  /\ PredictionShape(Activate(p, r)) /\ DOMAIN Activate(p, r).pending = {}
         /\ Activate(p, r).last_boundary = p.last_boundary
  <1>1. DOMAIN EmptyMap = {}
    BY EmptyMapIsEmpty
  <1> QED
    BY <1>1 DEF Activate, PredictionShape, IsActive

LEMMA ReconcileFacts ==
  ASSUME NEW q, PredictionShape(q), NEW r, r.synchronized
  PROVE  /\ PredictionShape(Reconcile(q, r))
         /\ Reconcile(q, r).last_boundary = q.last_boundary
         /\ DOMAIN Reconcile(q, r).pending \subseteq DOMAIN q.pending
         /\ ~IsActive(q) => DOMAIN Reconcile(q, r).pending = {}
  <1>1. CASE q.state \in Recoverable
    <2>1. Reconcile(q, r) = Activate(q, r)
      BY <1>1 DEF Reconcile
    <2> QED
      BY <2>1, ActivateFacts
  <1>2. CASE q.state \notin Recoverable /\ ~IsActive(q)
    BY <1>2 DEF Reconcile, IsActive, PredictionShape
  <1>3. CASE q.state \notin Recoverable /\ IsActive(q)
    <2> DEFINE tick == CurrentTick(r)
               gone == {t \in DOMAIN q.pending : t <= tick}
               kept == Drop(q.pending, gone)
               bytes == q.bytes - SizeOf(q.pending, gone)
    <2>1. DOMAIN kept \subseteq DOMAIN q.pending
      BY DEF Drop, Restrict
    <2>2. Retire(q, tick) = [q EXCEPT !.pending = kept, !.bytes = bytes]
      BY DEF Retire, PredictionShape
    <2> HIDE DEF tick, kept, bytes
    <2>3. Reconcile(q, r) = [[q EXCEPT !.pending = kept, !.bytes = bytes]
                               EXCEPT !.frontier = tick, !.last_commit = r.current]
      BY <1>3, <2>2 DEF Reconcile, tick
    <2> QED
      BY <1>3, <2>1, <2>3 DEF IsActive, PredictionShape
  <1> QED
    BY <1>1, <1>2, <1>3

LEMMA ObserveFacts ==
  ASSUME NEW p, PredictionShape(p), NEW r, ClientOrder(r)
  PROVE  Observed(p, r, Observe(p, r))
  <1> DEFINE q == NoticeRecovery(p, r)
  <1>0. r.boundary \in Nat /\ r.synchronized \in BOOLEAN
    BY DEF ClientOrder
  <1>1. /\ PredictionShape(q)
        /\ q.last_boundary \in {p.last_boundary, r.boundary}
        /\ p.last_boundary < r.boundary => ~IsActive(q)
        /\ DOMAIN q.pending \subseteq DOMAIN p.pending
        /\ q.last_commit = p.last_commit
    BY <1>0, NoticeRecoveryFacts
  <1>2. Observe(p, r) = IF ~r.synchronized THEN Invalidate(q, "ReplicationRecovery")
                        ELSE IF FollowsCommit(q, r) THEN Reconcile(q, r) ELSE q
    BY DEF Observe
  <1> HIDE DEF q
  <1>3. CASE ~r.synchronized
    <2>1. Observe(p, r) = Invalidate(q, "ReplicationRecovery")
      BY <1>2, <1>3
    <2> QED
      BY <1>1, <2>1, InvalidateFacts DEF Observed
  <1>4. CASE r.synchronized /\ FollowsCommit(q, r)
    <2>1. Observe(p, r) = Reconcile(q, r)
      BY <1>2, <1>4
    <2> QED
      BY <1>1, <1>4, <2>1, ReconcileFacts DEF Observed
  <1>5. CASE r.synchronized /\ ~FollowsCommit(q, r)
    <2>1. Observe(p, r) = q
      BY <1>2, <1>5
    <2> QED
      BY <1>1, <1>5, <2>1 DEF Observed, PredictionShape
  <1> QED
    BY <1>3, <1>4, <1>5

LEMMA ObserveFailingFacts ==
  ASSUME NEW p, PredictionShape(p), NEW r, ClientOrder(r)
  PROVE  Observed(p, r, ObserveFailing(p, r))
  <1> DEFINE o == Observe(p, r)
             i == Invalidate(o, "ReplayFailure")
  <1>1. Observed(p, r, o)
    BY ObserveFacts
  <1>2. ObserveFailing(p, r) = i
    BY DEF ObserveFailing
  <1> HIDE DEF o
  <1>3. /\ PredictionShape(i) /\ ~IsActive(i) /\ DOMAIN i.pending = {}
        /\ i.last_boundary = o.last_boundary /\ i.last_commit = o.last_commit
    BY <1>1, InvalidateFacts DEF Observed
  <1> HIDE DEF i
  <1> QED
    BY <1>1, <1>2, <1>3 DEF Observed

LEMMA ObserveBoundaryFacts ==
  ASSUME NEW p, PredictionShape(p), NEW r, ClientOrder(r)
  PROVE  LET q == ObserveBoundary(p, r)
         IN /\ PredictionShape(q) /\ q.pending = p.pending /\ q.last_commit = p.last_commit
            /\ q.last_boundary \in {p.last_boundary, r.boundary}
  <1> DEFINE b == IF r.boundary # NoCursor THEN r.boundary ELSE p.last_boundary
             q == [p EXCEPT !.last_boundary = b]
  <1>1. b \in {p.last_boundary, r.boundary} /\ b \in Nat
    BY DEF ClientOrder, PredictionShape
  <1>2. ObserveBoundary(p, r) = q
    BY DEF ObserveBoundary, PredictionShape
  <1> HIDE DEF b
  <1> QED
    BY <1>1, <1>2 DEF PredictionShape, IsActive

LEMMA RequireReplacementFacts ==
  ASSUME NEW p, PredictionShape(p), NEW r, ClientOrder(r)
  PROVE  LET q == RequireReplacementFull(p, r)
         IN /\ PredictionShape(q) /\ ~IsActive(q)
            /\ q.last_boundary \in {p.last_boundary, r.boundary}
            /\ q.last_commit = p.last_commit
  BY ObserveBoundaryFacts, InvalidateFacts DEF RequireReplacementFull

LEMMA ConfirmRestoredFacts ==
  ASSUME NEW p, PredictionShape(p), NEW r, ClientOrder(r)
  PROVE  LET q == ConfirmRestored(p, r)
         IN /\ PredictionShape(q) /\ DOMAIN q.pending = {}
            /\ q.last_boundary \in {p.last_boundary, r.boundary}
  BY ActivateFacts, ObserveBoundaryFacts DEF ConfirmRestored

LEMMA AdmitFacts ==
  ASSUME NEW p, PredictionShape(p), IsActive(p), NEW tick, NEW size
  PROVE  LET q == Admit(p, tick, size)
         IN /\ PredictionShape(q) /\ IsActive(q)
            /\ q.last_boundary = p.last_boundary /\ q.last_commit = p.last_commit
            /\ DOMAIN p.pending \subseteq DOMAIN q.pending
  <1> DEFINE m == Put(p.pending, tick, size)
             q == [p EXCEPT !.pending = m, !.bytes = @ + size]
  <1>1. DOMAIN p.pending \subseteq DOMAIN m
    BY DEF Put
  <1>2. Admit(p, tick, size) = q
    BY DEF Admit
  <1> HIDE DEF m
  <1> QED
    BY <1>1, <1>2 DEF PredictionShape, IsActive

LEMMA EndFacts ==
  ASSUME NEW p, PredictionShape(p), NEW reason \in Terminal
  PROVE  LET q == End(p, reason)
         IN /\ PredictionShape(q) /\ ~IsActive(q)
            /\ q.last_boundary = p.last_boundary /\ q.last_commit = p.last_commit
  <1>1. DOMAIN EmptyMap = {} /\ reason # "Active"
    BY EmptyMapIsEmpty DEF Terminal
  <1> QED
    BY <1>1 DEF End, PredictionShape, IsActive

-----------------------------------------------------------------------------
(* The client's lineage and the messages                                   *)

LEMMA EnterRecoveryAdvances ==
  ASSUME NEW r, ClientOrder(r)
  PROVE  ClientAdvances(r, EnterRecovery(r)) /\ CurrentStays(r, EnterRecovery(r))
  <1> DEFINE b == IF r.current # NoCursor THEN r.current ELSE r.boundary
             m == [r EXCEPT !.synchronized = FALSE, !.boundary = b]
  <1>1. EnterRecovery(r) = m
    BY DEF EnterRecovery, ClientOrder
  <1>2. /\ b \in Nat /\ r.boundary <= b /\ b <= r.current
        /\ r.synchronized => r.boundary < b
    BY DEF ClientOrder, NoCursor
  <1> HIDE DEF b
  <1> QED
    BY <1>1, <1>2 DEF ClientOrder, ClientAdvances, CurrentStays

LEMMA CommitAdvances ==
  ASSUME NEW r, ClientOrder(r), NEW s, s.cursor \in Nat, IsNewer(r, s), NEW image
  PROVE  LET m == Commit(r, s, image)
         IN /\ ClientAdvances(r, m) /\ r.current < m.current
            /\ m.current = s.cursor /\ s.cursor \in DOMAIN m.retained
            /\ m.retained[s.cursor].tick = s.tick
  <1> DEFINE after == AfterCommit(r, s, image)
             cursor == s.cursor
             m == [r EXCEPT !.retained = after, !.current = cursor, !.synchronized = TRUE]
  <1>1. Commit(r, s, image) = m
    BY DEF Commit
  <1>2. cursor \in Nat /\ r.current < cursor
    BY DEF IsNewer
  <1>a. cursor \in DOMAIN after /\ after[cursor].tick = s.tick
    BY DEF AfterCommit, Put
  <1> HIDE DEF after, cursor
  <1>3. /\ m \in [synchronized : BOOLEAN, current : Nat, boundary : Nat, retained : {after}]
        /\ m.retained = after /\ m.current = cursor /\ m.boundary = r.boundary
        /\ m.synchronized = TRUE
    BY <1>2 DEF ClientOrder
  <1> HIDE DEF m
  <1>4. r.boundary \in Nat /\ r.current \in Nat /\ r.boundary <= r.current
    BY DEF ClientOrder
  <1>5. m.boundary < m.current /\ m.boundary <= m.current /\ r.boundary <= m.boundary
    BY <1>2, <1>3, <1>4
  <1> QED
    BY <1>1, <1>2, <1>a, <1>3, <1>5 DEF ClientOrder, ClientAdvances, cursor

LEMMA EvictHistoricalAdvances ==
  ASSUME NEW r, ClientOrder(r), NEW c, c # r.current
  PROVE  ClientAdvances(r, EvictHistorical(r, c)) /\ CurrentStays(r, EvictHistorical(r, c))
  <1> DEFINE kept == Drop(r.retained, {c})
             m == [r EXCEPT !.retained = kept]
  <1>1. r.current \in DOMAIN r.retained =>
          r.current \in DOMAIN kept /\ kept[r.current] = r.retained[r.current]
    BY DEF Drop, Restrict
  <1>2. EvictHistorical(r, c) = m
    BY DEF EvictHistorical
  <1> HIDE DEF kept
  <1>3. ClientAdvances(r, m)
    BY DEF ClientOrder, ClientAdvances
  <1>4. m.current = r.current /\ m.retained = kept
    BY DEF ClientOrder
  <1> QED
    BY <1>1, <1>2, <1>3, <1>4 DEF CurrentStays

LEMMA SameAdvances ==
  ASSUME NEW r, ClientOrder(r)
  PROVE  ClientAdvances(r, r) /\ CurrentStays(r, r)
  BY DEF ClientOrder, ClientAdvances, CurrentStays

\* The client keeps what it shows, or commits a snapshot that was emitted.
KeepsOrCommits ==
  \/ CurrentStays(client, client') /\ committed' = committed
  \/ /\ client'.current \in DOMAIN emitted /\ client.current < client'.current
     /\ committed' = committed \cup {client'.current}
     /\ client'.current \in DOMAIN client'.retained
     /\ client'.retained[client'.current].tick = emitted[client'.current].tick

\* A received snapshot has been emitted, so its cursor is a number.
LEMMA ClientLiveStep ==
  ASSUME MessagesAreTyped, ClientOrder(client), LiveNext
  PROVE  ClientAdvances(client, client') /\ KeepsOrCommits
  <1> DEFINE Good == ClientAdvances(client, client') /\ KeepsOrCommits
  <1>1. \A c : Received(c) => /\ c \in DOMAIN emitted /\ emitted[c].cursor = c
                              /\ emitted[c].cursor \in Nat
    <2> SUFFICES ASSUME NEW c, Received(c) PROVE c \in DOMAIN emitted
      BY DEF MessagesAreTyped
    <2>1. <<client_connection, c>>[2] \in DOMAIN emitted
      BY DEF MessagesAreTyped, Received
    <2> QED
      BY <2>1
  <1>2. ASSUME client' = client, committed' = committed PROVE Good
    BY <1>2, SameAdvances DEF KeepsOrCommits
  <1>3. ASSUME NEW c, RejectDelta(c) PROVE Good
    BY <1>3, EnterRecoveryAdvances DEF RejectDelta, KeepsOrCommits
  <1>4. ASSUME NEW c, Received(c), CommitFull(c) PROVE Good
    BY <1>1, <1>4, CommitAdvances DEF CommitFull, CanCommitFull, KeepsOrCommits
  <1>5. ASSUME NEW c, Received(c), CommitDelta(c) PROVE Good
    <2>1. PICK image \in Images : /\ IsNewer(client, emitted[c])
                                  /\ client' = Commit(client, emitted[c], image)
      BY <1>5 DEF CommitDelta, CanCommitDelta, ConsidersDelta
    <2>2. committed' = committed \cup {c}
      BY <1>5 DEF CommitDelta
    <2> QED
      BY <1>1, <1>5, <2>1, <2>2, CommitAdvances DEF KeepsOrCommits
  <1> HIDE DEF Good
  <1>6. ASSUME ClientReconnects PROVE Good
    BY <1>6, EnterRecoveryAdvances DEF ClientReconnects, KeepsOrCommits, Good
  <1>7. ASSUME NEW c, ClientEvictsHistory(c) PROVE Good
    BY <1>7, EvictHistoricalAdvances DEF ClientEvictsHistory, CanEvictHistorical,
        KeepsOrCommits, Good
  <1>8. ASSUME Progress PROVE Good
    <2>1. ASSUME NEW c \in Cursor, ClientCommits(c) \/ ClientRejects(c)
          PROVE  Good
      BY <1>3, <1>4, <1>5, <2>1 DEF ClientCommits, ClientRejects
    <2>2. ASSUME \/ HostRecovers \/ Emits \/ (\E c \in Cursor : ReceiveAck(connection, c))
                 \/ ClientAcks \/ ClientDemands \/ AuthorityServesDemand \/ ReplaceConnection
          PROVE  Good
      BY <1>2, <2>2
      DEF HostRecovers, HostPreparesFull, Emits, EmitSnapshot, ReceiveAck, ClientAcks, SendAck,
          ClientDemands, DemandFull, AuthorityServesDemand, ReplaceConnection, clientVars
    <2> QED
      BY <1>6, <1>8, <2>1, <2>2 DEF Progress
  <1>9. ASSUME Disturb PROVE Good
    <2>1. ASSUME NEW c \in Cursor, HostEvictsState(c) PROVE Good
      BY <1>2, <2>1 DEF HostEvictsState, clientVars
    <2>2. ASSUME LoseMessage \/ LoseConnection \/ HostSendsDelta PROVE Good
      BY <1>2, <2>2
      DEF LoseMessage, LoseConnection, HostSendsDelta, HostPreparesDelta, clientVars
    <2> QED
      BY <1>3, <1>7, <1>9, <2>1, <2>2 DEF Disturb
  <1> QED
    BY <1>8, <1>9 DEF LiveNext, Good

\* The authority's lineage stays what it should be under every operation.
LEMMA AuthorityLiveStep ==
  ASSUME MessagesAreTyped, LiveNext
  PROVE  GoodStep(authority, authority')
  <1>1. LineageInv(authority) /\ authority \in Lineage
    BY DEF MessagesAreTyped, LineageInv
  <1>2. ASSUME authority' = authority PROVE GoodStep(authority, authority')
    BY <1>1, <1>2, SameIsGood
  <1>3. CASE HostRecovers
    <2>1. RecoveryTick \in Tick
      BY <1>1, LineageType, RecoveryAssumption DEF RecoveryTick
    <2>2. PICK image \in Images : HostPreparesFull(NextCursor, RecoveryTick, image, TRUE)
      BY <1>3 DEF HostRecovers
    <2>3. NextCursor \in Cursor
      BY <1>3 DEF HostRecovers
    <2> QED
      BY <1>1, <2>1, <2>2, <2>3, PrepareFullIsGood DEF HostPreparesFull
  <1>4. CASE HostSendsDelta
    <2>1. PICK tick \in Tick, image \in Images : HostPreparesDelta(NextCursor, tick, image)
      BY <1>4 DEF HostSendsDelta
    <2>2. NextCursor \in Cursor
      BY <1>4 DEF HostSendsDelta
    <2> QED
      BY <1>1, <2>1, <2>2, PrepareDeltaIsGood DEF HostPreparesDelta
  <1>5. CASE Emits
    BY <1>1, <1>5, EmitIsGood DEF Emits, EmitSnapshot
  <1>6. ASSUME NEW c \in Cursor, ReceiveAck(connection, c) PROVE GoodStep(authority, authority')
    BY <1>1, <1>6, ConfirmIsGood DEF ReceiveAck
  <1>7. CASE AuthorityServesDemand
    BY <1>1, <1>7, StartRecoveryIsGood, SameIsGood DEF AuthorityServesDemand, CanRequireFull
  <1>8. CASE ReplaceConnection
    BY <1>1, <1>8, StartRecoveryIsGood DEF ReplaceConnection
  <1>9. ASSUME NEW c \in Cursor, HostEvictsState(c) PROVE GoodStep(authority, authority')
    BY <1>1, <1>9, EvictStateIsGood DEF HostEvictsState
  <1>10. ASSUME NEW c \in Cursor, ClientCommits(c) \/ ClientRejects(c)
                                  \/ ClientEvictsHistory(c) \/ RejectDelta(c)
         PROVE  GoodStep(authority, authority')
    BY <1>2, <1>10
    DEF ClientCommits, ClientRejects, CommitFull, CommitDelta, RejectDelta, ClientEvictsHistory,
        authorityVars
  <1>11. CASE ClientAcks \/ ClientDemands \/ ClientReconnects \/ LoseMessage \/ LoseConnection
    BY <1>2, <1>11
    DEF ClientAcks, SendAck, ClientDemands, DemandFull, ClientReconnects, LoseMessage,
        LoseConnection, authorityVars
  <1> QED
    BY <1>3, <1>4, <1>5, <1>6, <1>7, <1>8, <1>9, <1>10, <1>11 DEF LiveNext, Progress, Disturb

\* What was emitted for a cursor is not rewritten.
EmissionsStay ==
  \A c \in DOMAIN emitted : c \in DOMAIN emitted' /\ emitted'[c] = emitted[c]

LEMMA MessagesLiveStep ==
  ASSUME MessagesAreTyped, LiveNext
  PROVE  MessagesAreTyped' /\ EmissionsStay
  <1> DEFINE Good == MessagesAreTyped' /\ EmissionsStay
  <1>1. /\ LineageInv(authority') /\ authority.greatest_emitted <= authority'.greatest_emitted
        /\ authority.greatest_emitted \in Nat /\ authority'.greatest_emitted \in Nat
    <2>1. LineageInv(authority') /\ authority.greatest_emitted <= authority'.greatest_emitted
      BY AuthorityLiveStep DEF GoodStep, Advances
    <2> QED
      BY <2>1, LineageNumbers DEF MessagesAreTyped, LineageInv
  <1>2. ASSUME emitted' = emitted, snapshots' \subseteq snapshots PROVE Good
    BY <1>1, <1>2 DEF MessagesAreTyped, EmissionsStay
  <1>3. ASSUME EmitSnapshot PROVE Good
    <2> DEFINE cursor == authority.pending.cursor
               s == ToSnapshot(authority.pending)
    <2>1. authority \in Lineage /\ HasPending(authority)
      BY <1>3 DEF MessagesAreTyped, LineageInv, EmitSnapshot
    <2>2. /\ cursor \in Nat /\ s.cursor = cursor /\ s.tick \in Nat
          /\ authority.greatest_emitted < cursor
      BY <1>3, <2>1, PendingType, Numbers
      DEF ToSnapshot, EmitSnapshot, MessagesAreTyped, LineageInv, PendingIsCurrent
    <2>a. authority'.greatest_emitted = cursor
      BY <1>3, <2>1, EmitFacts DEF EmitSnapshot, Emission
    <2> HIDE DEF s, cursor
    <2>3. emitted' = Put(emitted, cursor, s)
      BY <1>3 DEF EmitSnapshot, s, cursor
    <2>4. /\ DOMAIN emitted' = DOMAIN emitted \cup {cursor}
          /\ emitted'[cursor] = s
          /\ \A c \in DOMAIN emitted : c # cursor => emitted'[c] = emitted[c]
      BY <2>3 DEF Put
    <2>5. \A c \in DOMAIN emitted' : /\ c \in Nat /\ c <= authority'.greatest_emitted
                                    /\ emitted'[c].cursor = c /\ emitted'[c].tick \in Nat
      BY <1>1, <2>2, <2>a, <2>4 DEF MessagesAreTyped
    <2>b. EmissionsStay
      BY <1>1, <2>2, <2>4 DEF MessagesAreTyped, EmissionsStay
    <2>6. snapshots' = snapshots \cup {<<connection, cursor>>}
      BY <1>3 DEF EmitSnapshot, cursor
    <2>7. \A m \in snapshots' : m[2] \in DOMAIN emitted'
      BY <2>4, <2>6 DEF MessagesAreTyped
    <2> QED
      BY <1>1, <2>5, <2>7, <2>b DEF MessagesAreTyped
  <1> HIDE DEF Good
  <1>4. ASSUME Progress PROVE Good
    <2>1. ASSUME NEW c \in Cursor,
                 ClientCommits(c) \/ ClientRejects(c) \/ ReceiveAck(connection, c)
          PROVE  Good
      BY <1>2, <2>1
      DEF ClientCommits, ClientRejects, CommitFull, CommitDelta, RejectDelta, ReceiveAck,
          authorityVars, networkVars
    <2>2. ASSUME \/ HostRecovers \/ ClientAcks \/ ClientDemands \/ AuthorityServesDemand
                 \/ ReplaceConnection \/ ClientReconnects
          PROVE  Good
      BY <1>2, <2>2
      DEF HostRecovers, HostPreparesFull, ClientAcks, SendAck, ClientDemands, DemandFull,
          AuthorityServesDemand, ReplaceConnection, ClientReconnects, authorityVars, networkVars
    <2> QED
      BY <1>3, <1>4, <2>1, <2>2 DEF Progress, Emits
  <1>5. ASSUME Disturb PROVE Good
    <2>1. ASSUME NEW c \in Cursor, HostEvictsState(c) \/ ClientEvictsHistory(c) \/ RejectDelta(c)
          PROVE  Good
      BY <1>2, <2>1
      DEF HostEvictsState, ClientEvictsHistory, RejectDelta, authorityVars, networkVars
    <2>2. ASSUME LoseMessage \/ LoseConnection \/ HostSendsDelta PROVE Good
      BY <1>2, <2>2
      DEF LoseMessage, LoseConnection, HostSendsDelta, HostPreparesDelta, authorityVars,
          networkVars
    <2> QED
      BY <1>5, <2>1, <2>2 DEF Disturb
  <1> QED
    BY <1>4, <1>5 DEF LiveNext, Good

-----------------------------------------------------------------------------
(* The prediction's steps                                                  *)

\* A prediction goes on only when nothing it has pending is in doubt.
DoubtIsResolved == prediction'.last_commit # prediction.last_commit => doubted' = {}

LEMMA InitPInv == PredictionInit => PInv
  <1> SUFFICES ASSUME PredictionInit PROVE PInv
    OBVIOUS
  <1>1. DOMAIN EmptyMap = {} /\ NoCursor = 0
    BY EmptyMapIsEmpty DEF NoCursor
  <1>2. MessagesAreTyped
    BY <1>1, NewLineageInv DEF MessagesAreTyped, PredictionInit, LiveInit, Init
  <1>3. ClientOrder(client)
    BY <1>1 DEF ClientOrder, PredictionInit, LiveInit, Init, NewReplica
  <1>4. PredictionOrder
    BY <1>1
    DEF PredictionOrder, PredictionShape, IsActive, PredictionInit, LiveInit, Init, NewReplica,
        NewPrediction
  <1> QED
    BY <1>2, <1>3, <1>4 DEF PInv

\* The lineage moves; the prediction does not see it, unless the connection is replaced.
LEMMA LiveStepKeepsOrder ==
  ASSUME PInv, LiveNext, PredictionFollows, Doubt
  PROVE  PInv' /\ DoubtIsResolved
  <1>1. MessagesAreTyped'
    BY MessagesLiveStep DEF PInv
  <1>2. ClientOrder(client') /\ ClientAdvances(client, client')
    BY ClientLiveStep DEF PInv, ClientAdvances
  <1>3. /\ client.boundary \in Nat /\ client'.boundary \in Nat
        /\ client.synchronized \in BOOLEAN /\ client'.synchronized \in BOOLEAN
        /\ client.boundary <= client'.boundary
        /\ client.synchronized /\ ~client'.synchronized => client.boundary < client'.boundary
    BY <1>2 DEF PInv, ClientOrder, ClientAdvances
  <1>4. /\ PredictionShape(prediction) /\ prediction.last_boundary \in Nat
        /\ prediction.last_boundary <= client.boundary
        /\ ~IsActive(prediction) => DOMAIN prediction.pending = {}
        /\ IsActive(prediction) /\ ~client.synchronized
             => prediction.last_boundary < client.boundary
        /\ doubted \subseteq DOMAIN prediction.pending
        /\ doubted # {} => prediction.last_boundary < client.boundary
    BY DEF PInv, PredictionOrder, PredictionShape
  <1>5. CASE prediction' = prediction
    <2>1. prediction.last_boundary <= client'.boundary
      BY <1>3, <1>4
    <2>2. IsActive(prediction) /\ ~client'.synchronized
            => prediction.last_boundary < client'.boundary
      BY <1>3, <1>4
    <2>3. CASE client'.synchronized
      <3>1. doubted' = doubted \cap DOMAIN prediction.pending
        BY <1>5, <2>3 DEF Doubt
      <3>2. doubted' \subseteq DOMAIN prediction.pending /\ (doubted' # {} => doubted # {})
        BY <3>1
      <3>3. doubted' # {} => prediction.last_boundary < client'.boundary
        BY <1>3, <1>4, <3>2
      <3> QED
        BY <1>1, <1>2, <1>4, <1>5, <2>1, <2>2, <3>2, <3>3
        DEF PInv, PredictionOrder, DoubtIsResolved
    <2>4. CASE ~client'.synchronized
      <3>1. doubted' = DOMAIN prediction.pending
        BY <1>5, <2>4 DEF Doubt
      <3>2. doubted' # {} => prediction.last_boundary < client'.boundary
        BY <1>4, <2>2, <2>4, <3>1
      <3> QED
        BY <1>1, <1>2, <1>4, <1>5, <2>1, <2>2, <3>1, <3>2
        DEF PInv, PredictionOrder, DoubtIsResolved
    <2> QED
      BY <1>3, <2>3, <2>4
  <1>6. CASE prediction' = RequireReplacementFull(prediction, client')
    <2>1. /\ PredictionShape(prediction') /\ ~IsActive(prediction')
          /\ prediction'.last_boundary \in {prediction.last_boundary, client'.boundary}
          /\ prediction'.last_commit = prediction.last_commit
      BY <1>2, <1>4, <1>6, RequireReplacementFacts
    <2>2. prediction'.last_boundary <= client'.boundary
      BY <1>3, <1>4, <2>1
    <2>3. doubted' = {}
      BY <2>1 DEF Doubt, PredictionShape
    <2> QED
      BY <1>1, <1>2, <2>1, <2>2, <2>3 DEF PInv, PredictionOrder, DoubtIsResolved
  <1> QED
    BY <1>5, <1>6 DEF PredictionFollows

LEMMA MessagesUnchanged ==
  ASSUME MessagesAreTyped, UNCHANGED vars
  PROVE  MessagesAreTyped'
  BY DEF MessagesAreTyped, vars, authorityVars, networkVars

\* A prediction with nothing pending has nothing in doubt.
LEMMA EmptyingStep ==
  ASSUME PInv, UNCHANGED vars, Doubt, PredictionShape(prediction'),
         DOMAIN prediction'.pending = {},
         prediction'.last_boundary \in {prediction.last_boundary, client.boundary},
         IsActive(prediction') => client.synchronized
  PROVE  PInv' /\ DoubtIsResolved
  <1>1. MessagesAreTyped' /\ client' = client
    BY MessagesUnchanged DEF PInv, vars, clientVars
  <1>2. doubted' = {}
    BY DEF Doubt
  <1>3. prediction'.last_boundary <= client.boundary
    BY DEF PInv, PredictionOrder, PredictionShape, ClientOrder
  <1> QED
    BY <1>1, <1>2, <1>3 DEF PInv, PredictionOrder, DoubtIsResolved

\* A prediction that looks at the lineage drops what is in doubt.
LEMMA ObservingStep ==
  ASSUME PInv, UNCHANGED vars, Doubt, Observed(prediction, client, prediction')
  PROVE  PInv' /\ DoubtIsResolved
  <1>1. MessagesAreTyped' /\ client' = client
    BY MessagesUnchanged DEF PInv, vars, clientVars
  <1>2. /\ PredictionShape(prediction')
        /\ prediction'.last_boundary \in {prediction.last_boundary, client.boundary}
        /\ IsActive(prediction') => client.synchronized
        /\ prediction.last_boundary < client.boundary => DOMAIN prediction'.pending = {}
        /\ DOMAIN prediction'.pending \subseteq DOMAIN prediction.pending
    BY DEF Observed
  <1>3. /\ doubted \subseteq DOMAIN prediction.pending
        /\ doubted # {} => prediction.last_boundary < client.boundary
        /\ client.boundary \in Nat /\ prediction.last_boundary \in Nat
        /\ prediction.last_boundary <= client.boundary
    BY DEF PInv, PredictionOrder, PredictionShape, ClientOrder
  <1>4. doubted' = {}
    <2>1. CASE client.synchronized
      <3>1. doubted' = doubted \cap DOMAIN prediction'.pending
        BY <1>1, <2>1 DEF Doubt
      <3> QED
        BY <1>2, <1>3, <3>1
    <2>2. CASE ~client.synchronized
      <3>1. doubted' = DOMAIN prediction'.pending
        BY <1>1, <2>2 DEF Doubt
      <3> QED
        BY <1>2, <2>2, <3>1 DEF PredictionShape
    <2> QED
      BY <2>1, <2>2
  <1>5. prediction'.last_boundary <= client.boundary
    BY <1>2, <1>3
  <1> QED
    BY <1>1, <1>2, <1>4, <1>5 DEF PInv, PredictionOrder, DoubtIsResolved

LEMMA AdmittingStep ==
  ASSUME PInv, UNCHANGED vars, Doubt, AdmitLocal
  PROVE  PInv' /\ DoubtIsResolved
  <1>1. MessagesAreTyped' /\ client' = client
    BY MessagesUnchanged DEF PInv, vars, clientVars
  <1>2. /\ PredictionShape(prediction') /\ IsActive(prediction')
        /\ prediction'.last_boundary = prediction.last_boundary
        /\ prediction'.last_commit = prediction.last_commit
        /\ DOMAIN prediction.pending \subseteq DOMAIN prediction'.pending
        /\ IsActive(prediction)
    BY AdmitFacts DEF AdmitLocal, CanAdmit, PInv, PredictionOrder
  <1>3. /\ doubted' \subseteq DOMAIN prediction'.pending
        /\ doubted' # {} => doubted # {} \/ ~client.synchronized
    BY <1>1 DEF Doubt
  <1> QED
    BY <1>1, <1>2, <1>3 DEF PInv, PredictionOrder, DoubtIsResolved

LEMMA StandingStep ==
  ASSUME PInv, UNCHANGED allVars
  PROVE  PInv' /\ DoubtIsResolved
  BY MessagesUnchanged
  DEF PInv, PredictionOrder, DoubtIsResolved, allVars, liveVars, vars, clientVars

LEMMA PredictionStepKeepsOrder ==
  ASSUME PInv, [PredictionNext]_allVars
  PROVE  PInv' /\ DoubtIsResolved
  <1>1. PredictionShape(prediction) /\ ClientOrder(client)
    BY DEF PInv, PredictionOrder
  <1>2. ASSUME NEW reason, reason # "Active", prediction' = Invalidate(prediction, reason),
               UNCHANGED vars, Doubt
        PROVE  PInv' /\ DoubtIsResolved
    BY <1>1, <1>2, InvalidateFacts, EmptyingStep
  <1>3. CASE LiveNext /\ PredictionFollows /\ Doubt
    BY <1>3, LiveStepKeepsOrder
  <1>4. CASE PredictionStep /\ UNCHANGED liveVars /\ Doubt
    <2>0. UNCHANGED vars
      BY <1>4 DEF liveVars
    <2>1. CASE ConnectionLost
      BY <1>2, <1>4, <2>0, <2>1 DEF ConnectionLost
    <2>2. CASE AdmitLocal
      BY <1>4, <2>0, <2>2, AdmittingStep
    <2>3. CASE ObserveReplication
      BY <1>1, <1>4, <2>0, <2>3, ObserveFacts, ObservingStep DEF ObserveReplication
    <2>4. CASE ConfirmHostRestored
      BY <1>1, <1>4, <2>0, <2>4, ConfirmRestoredFacts, EmptyingStep
      DEF ConfirmHostRestored, CanConfirmRestored
    <2> QED
      BY <1>4, <2>1, <2>2, <2>3, <2>4 DEF PredictionStep
  <1>5. CASE PredictionDisturbed /\ UNCHANGED vars /\ Doubt
    <2>1. CASE LocalApplicationFails
      BY <1>2, <1>5, <2>1 DEF LocalApplicationFails
    <2>2. CASE ReplayFails
      BY <1>1, <1>5, <2>2, ObserveFailingFacts, ObservingStep DEF ReplayFails
    <2>3. CASE ParticipationEnds
      <3>1. PICK reason \in Terminal : prediction' = End(prediction, reason)
        BY <2>3 DEF ParticipationEnds
      <3>2. /\ PredictionShape(prediction') /\ ~IsActive(prediction')
            /\ prediction'.last_boundary = prediction.last_boundary
        BY <1>1, <3>1, EndFacts
      <3> QED
        BY <1>5, <3>2, EmptyingStep DEF PredictionShape
    <2> QED
      BY <1>5, <2>1, <2>2, <2>3 DEF PredictionDisturbed
  <1>6. CASE UNCHANGED allVars
    BY <1>6, StandingStep
  <1> QED
    BY <1>3, <1>4, <1>5, <1>6 DEF PredictionNext

THEOREM PredictionInvariance == PredictionSpec => []PInv
  <1>1. PInv /\ [PredictionNext]_allVars => PInv'
    BY PredictionStepKeepsOrder
  <1> QED
    BY <1>1, InitPInv, PTL DEF PredictionSpec

\* Input that was pending while the client required a full snapshot is never replayed nor
\* kept over the next observed commit, whenever the host observes: a recovery that began
\* and ended unobserved is noticed by its boundary.
THEOREM DoubtedInputIsDropped == PredictionSpec => DoubtedInputIsNeverReplayed
  <1>1. PInv /\ [PredictionNext]_allVars => DoubtIsResolved
    BY PredictionStepKeepsOrder
  <1> QED
    BY <1>1, PredictionInvariance, PTL
    DEF PredictionSpec, DoubtedInputIsNeverReplayed, DoubtIsResolved

-----------------------------------------------------------------------------
(* The accounting of what is pending, and the commit the prediction stands *)
(* on                                                                      *)

\* What the client shows is a snapshot it committed.
HistoryIsSound ==
  /\ committed \subseteq DOMAIN emitted
  /\ client.current # NoCursor =>
       /\ client.current \in committed /\ client.current \in DOMAIN client.retained
       /\ client.retained[client.current].tick = emitted[client.current].tick

\* The accounting of the input that p has pending.
PendingIsAccounted(p) ==
  /\ DOMAIN p.pending \subseteq TargetTick /\ p.pending \in [DOMAIN p.pending -> Nat]
  /\ p.bytes = SizeOf(p.pending, DOMAIN p.pending)
  /\ p.bytes <= PredictionLimits.bytes
  /\ Cardinality(DOMAIN p.pending) <= PredictionLimits.inputs

\* What p has pending is within the span beyond its frontier.
IsBeyond(p) ==
  \A t \in DOMAIN p.pending : p.frontier < t /\ t <= p.frontier + PredictionLimits.span

\* p is active on a commit, or not active and empty.
Stands(p) ==
  /\ PendingIsAccounted(p)
  /\ p.frontier \in Nat /\ p.last_commit \in Nat /\ p.last_commit <= client.current
  /\ IF IsActive(p)
     THEN /\ p.last_commit \in committed
          /\ p.frontier = emitted[p.last_commit].tick
          /\ IsBeyond(p)
     ELSE p.pending = EmptyMap

SInv == PInv /\ HistoryIsSound /\ Stands(prediction)

LEMMA PredictionLimitsAreNat ==
  PredictionLimits.inputs \in Nat /\ PredictionLimits.bytes \in Nat /\ PredictionLimits.span \in Nat
  BY PredictionAssumption

LEMMA PendingIsFinite ==
  ASSUME NEW S, S \subseteq TargetTick
  PROVE  IsFiniteSet(S) /\ Cardinality(S) \in Nat /\ S \subseteq Nat
  <1>1. 1 \in Int /\ MaxTargetTick \in Int
    BY PredictionPathAssumption
  <1>2. IsFiniteSet(TargetTick) /\ TargetTick \subseteq Nat
    BY <1>1, FS_Interval DEF TargetTick
  <1> QED
    BY <1>2, FS_Subset, FS_CardinalityType

LEMMA NothingIsAccounted ==
  ASSUME NEW p, p.pending = EmptyMap, p.bytes = 0
  PROVE  PendingIsAccounted(p) /\ IsBeyond(p)
  <1>1. p.pending \in [{} -> Nat] /\ DOMAIN p.pending = {}
    BY EmptyMapIsEmpty
  <1>2. SizeOf(p.pending, {}) = 0
    <2> DEFINE f == [t \in {} |-> p.pending[t]]
    <2>1. DOMAIN f = {}
      OBVIOUS
    <2> HIDE DEF f
    <2>2. SumFunction(f) = 0
      BY <2>1, SumOfNone
    <2> QED
      BY <2>2 DEF SizeOf, f
  <1> QED
    BY <1>1, <1>2, FS_EmptySet, PredictionLimitsAreNat DEF PendingIsAccounted, IsBeyond

\* A prediction without pending input, that is not active or has just been activated.
LEMMA EmptyStands ==
  ASSUME NEW p, p.pending = EmptyMap, p.bytes = 0, p.frontier \in Nat, p.last_commit \in Nat,
         p.last_commit <= client.current,
         IsActive(p) => p.last_commit \in committed /\ p.frontier = emitted[p.last_commit].tick
  PROVE  Stands(p)
  BY NothingIsAccounted DEF Stands

LEMMA InvalidateStands ==
  ASSUME NEW p, PredictionShape(p), Stands(p), NEW reason, reason # "Active"
  PROVE  Stands(Invalidate(p, reason))
  <1> DEFINE q == [p EXCEPT !.state = reason, !.pending = EmptyMap, !.bytes = 0]
  <1>1. /\ q.state = reason /\ q.pending = EmptyMap /\ q.bytes = 0
        /\ q.frontier = p.frontier /\ q.last_commit = p.last_commit
    BY DEF PredictionShape
  <1>2. Invalidate(p, reason) = IF IsTerminal(p) THEN p ELSE q
    BY DEF Invalidate
  <1> HIDE DEF q
  <1>3. Stands(q)
    <2>1. p.frontier \in Nat /\ p.last_commit \in Nat /\ p.last_commit <= client.current
      BY DEF Stands
    <2> QED
      BY <1>1, <2>1, EmptyStands DEF IsActive
  <1> QED
    BY <1>2, <1>3

\* Only the boundary a prediction has observed may differ.
LEMMA SamePendingStands ==
  ASSUME NEW p, Stands(p), NEW q, q.state = p.state, q.frontier = p.frontier,
         q.pending = p.pending, q.bytes = p.bytes, q.last_commit = p.last_commit
  PROVE  Stands(q)
  BY DEF Stands, PendingIsAccounted, IsBeyond, IsActive

LEMMA NewBoundaryStands ==
  ASSUME NEW p, PredictionShape(p), Stands(p), NEW b
  PROVE  Stands([p EXCEPT !.last_boundary = b])
  <1> DEFINE q == [p EXCEPT !.last_boundary = b]
  <1>1. /\ q.state = p.state /\ q.frontier = p.frontier /\ q.pending = p.pending
        /\ q.bytes = p.bytes /\ q.last_commit = p.last_commit
    BY DEF PredictionShape
  <1> HIDE DEF q
  <1> QED
    BY <1>1, SamePendingStands DEF q

LEMMA NoticeRecoveryStands ==
  ASSUME NEW p, PredictionShape(p), Stands(p)
  PROVE  Stands(NoticeRecovery(p, client))
  <1> DEFINE i == Invalidate(p, "ReplicationRecovery")
  <1>1. PredictionShape(i) /\ Stands(i)
    BY InvalidateFacts, InvalidateStands
  <1>2. NoticeRecovery(p, client) =
          IF client.boundary > p.last_boundary
          THEN [i EXCEPT !.last_boundary = client.boundary] ELSE p
    BY DEF NoticeRecovery
  <1> HIDE DEF i
  <1> QED
    BY <1>1, <1>2, NewBoundaryStands

\* A synchronized client shows a commit, whose tick is the one emitted.
LEMMA ShownIsCommitted ==
  ASSUME MessagesAreTyped, ClientOrder(client), HistoryIsSound, client.synchronized
  PROVE  /\ client.current \in committed /\ client.current \in Nat
         /\ CurrentTick(client) = emitted[client.current].tick
         /\ CurrentTick(client) \in Nat
  <1>1. client.current # NoCursor
    BY DEF ClientOrder, NoCursor
  <1> QED
    BY <1>1 DEF HistoryIsSound, MessagesAreTyped, CurrentTick, ClientOrder

LEMMA ActivateStands ==
  ASSUME MessagesAreTyped, ClientOrder(client), HistoryIsSound, client.synchronized,
         NEW p, PredictionShape(p), Stands(p)
  PROVE  Stands(Activate(p, client))
  <1> DEFINE q == Activate(p, client)
  <1>1. /\ q.pending = EmptyMap /\ q.bytes = 0 /\ q.frontier = CurrentTick(client)
        /\ q.last_commit = client.current
    BY DEF Activate, PredictionShape
  <1> HIDE DEF q
  <1>2. q.last_commit <= client.current
    BY <1>1 DEF ClientOrder
  <1> QED
    BY <1>1, <1>2, ShownIsCommitted, EmptyStands DEF q

\* Retiring the input of past ticks keeps the rest and counts it exactly.
LEMMA RetireAccounts ==
  ASSUME NEW p, PredictionShape(p), PendingIsAccounted(p), NEW tick
  PROVE  LET q == Retire(p, tick)
         IN /\ PendingIsAccounted(q) /\ PredictionShape(q)
            /\ DOMAIN q.pending = {t \in DOMAIN p.pending : ~(t <= tick)}
            /\ q.state = p.state /\ q.last_commit = p.last_commit /\ q.frontier = p.frontier
            /\ IsActive(p) => IsActive(q)
  <1> DEFINE all == DOMAIN p.pending
             gone == {t \in all : t <= tick}
             kept == Drop(p.pending, gone)
             bytes == p.bytes - SizeOf(p.pending, gone)
             q == [p EXCEPT !.pending = kept, !.bytes = bytes]
             f == [t \in all |-> p.pending[t]]
             g == [t \in gone |-> p.pending[t]]
             h == [t \in all \ gone |-> kept[t]]
  <1>1. Retire(p, tick) = q
    BY DEF Retire, PredictionShape
  <1>2. /\ p.pending \in [all -> Nat] /\ all \subseteq TargetTick /\ p.bytes = SizeOf(p.pending, all)
        /\ p.bytes <= PredictionLimits.bytes /\ Cardinality(all) <= PredictionLimits.inputs
    BY DEF PendingIsAccounted
  <1>3. /\ DOMAIN kept = all \ gone /\ kept \in [DOMAIN kept -> Nat]
        /\ \A t \in all \ gone : kept[t] = p.pending[t]
    BY <1>2 DEF Drop, Restrict
  <1>4. /\ IsFiniteSet(all) /\ IsFiniteSet(gone) /\ IsFiniteSet(all \ gone)
        /\ gone \in SUBSET all
    BY <1>2, PendingIsFinite, FS_Subset
  <1>5. f \in [all -> Nat] /\ g \in [gone -> Nat] /\ h \in [all \ gone -> Nat]
    BY <1>2, <1>3
  <1>6. SizeOf(p.pending, all) = SumFunction(f) /\ SizeOf(p.pending, gone) = SumFunction(g)
    BY DEF SizeOf
  <1>7. SizeOf(kept, DOMAIN kept) = SumFunction(h)
    <2> HIDE DEF kept
    <2> QED
      BY <1>3 DEF SizeOf
  <1>8. (\A t \in gone : g[t] = f[t]) /\ (\A t \in all \ gone : h[t] = f[t])
    BY <1>3
  <1>9. Cardinality(DOMAIN kept) <= PredictionLimits.inputs
    BY <1>2, <1>3, <1>4, FS_Subset, FS_CardinalityType, PredictionLimitsAreNat
  <1>10. DOMAIN kept = {t \in all : ~(t <= tick)}
    BY <1>3
  <1> HIDE DEF f, g, h, all, gone, kept
  <1>11. SumFunction(f) = SumFunction(g) + SumFunction(h)
    <2>1. f \in [all -> Int] /\ DOMAIN g = gone /\ DOMAIN h = all \ gone
      BY <1>5
    <2>2. SumFunction(f) = SumFunctionOnSet(f, gone) + SumFunctionOnSet(f, all \ gone)
      BY <1>4, <2>1, SumSplits
    <2>3. SumFunction(g) = SumFunctionOnSet(f, gone)
      BY <1>4, <1>8, <2>1, SumOverSubset
    <2>4. SumFunction(h) = SumFunctionOnSet(f, all \ gone)
      BY <1>4, <1>8, <2>1, SumOverSubset
    <2> QED
      BY <2>2, <2>3, <2>4
  <1>12. SumFunction(g) \in Nat /\ SumFunction(h) \in Nat
    BY <1>4, <1>5, SumIsNat
  <1>13. bytes = SizeOf(kept, DOMAIN kept) /\ bytes <= PredictionLimits.bytes
    BY <1>2, <1>6, <1>7, <1>11, <1>12, PredictionLimitsAreNat
  <1> HIDE DEF bytes
  <1>14. /\ q.pending = kept /\ q.bytes = bytes /\ q.state = p.state
         /\ q.last_commit = p.last_commit /\ q.frontier = p.frontier
    BY DEF PredictionShape
  <1>15. DOMAIN kept \subseteq TargetTick
    BY <1>2, <1>3
  <1>16. ~IsActive(p) => DOMAIN kept = {}
    BY <1>10 DEF PredictionShape, all
  <1>17. PredictionShape(q)
    BY <1>16 DEF PredictionShape, IsActive
  <1> HIDE DEF q
  <1>18. PendingIsAccounted(q)
    BY <1>3, <1>9, <1>13, <1>14, <1>15 DEF PendingIsAccounted
  <1> QED
    BY <1>1, <1>10, <1>14, <1>17, <1>18 DEF IsActive, all

LEMMA ReconcileStands ==
  ASSUME MessagesAreTyped, ClientOrder(client), HistoryIsSound,
         NEW p, PredictionShape(p), Stands(p), FollowsCommit(p, client)
  PROVE  Stands(Reconcile(p, client))
  <1>1. /\ client.synchronized /\ p.frontier <= CurrentTick(client) /\ p.last_commit < client.current
    BY DEF FollowsCommit
  <1>2. /\ client.current \in committed /\ client.current \in Nat
        /\ CurrentTick(client) = emitted[client.current].tick /\ CurrentTick(client) \in Nat
    BY <1>1, ShownIsCommitted
  <1>3. CASE p.state \in Recoverable
    BY <1>1, <1>3, ActivateStands DEF Reconcile
  <1>4. CASE p.state \notin Recoverable /\ ~IsActive(p)
    <2> DEFINE q == [p EXCEPT !.last_commit = client.current]
    <2>1. Reconcile(p, client) = q
      BY <1>4 DEF Reconcile
    <2>2. /\ q.state = p.state /\ q.pending = p.pending /\ q.bytes = p.bytes
          /\ q.frontier = p.frontier /\ q.last_commit = client.current
      BY DEF PredictionShape
    <2> HIDE DEF q
    <2> QED
      BY <1>2, <1>4, <2>1, <2>2 DEF Stands, PendingIsAccounted, IsActive
  <1>5. CASE p.state \notin Recoverable /\ IsActive(p)
    <2> DEFINE tick == CurrentTick(client)
               r == Retire(p, tick)
               q == [r EXCEPT !.frontier = tick, !.last_commit = client.current]
    <2>1. Reconcile(p, client) = q
      BY <1>5 DEF Reconcile
    <2>2. /\ PendingIsAccounted(r) /\ PredictionShape(r) /\ IsActive(r)
          /\ DOMAIN r.pending = {t \in DOMAIN p.pending : ~(t <= tick)}
      BY <1>5, RetireAccounts DEF Stands
    <2> HIDE DEF r
    <2>3. /\ q.state = r.state /\ q.pending = r.pending /\ q.bytes = r.bytes
          /\ q.frontier = tick /\ q.last_commit = client.current
      BY <2>2 DEF PredictionShape
    <2> HIDE DEF q
    <2>4. PendingIsAccounted(q) /\ IsActive(q)
      BY <2>2, <2>3 DEF PendingIsAccounted, IsActive
    <2>5. IsBeyond(q)
      <3> SUFFICES ASSUME NEW t \in DOMAIN q.pending
                   PROVE  q.frontier < t /\ t <= q.frontier + PredictionLimits.span
        BY DEF IsBeyond
      <3>1. t \in DOMAIN p.pending /\ ~(t <= tick)
        BY <2>2, <2>3
      <3>2. t <= p.frontier + PredictionLimits.span /\ p.frontier \in Nat
        BY <1>5, <3>1 DEF Stands, IsBeyond
      <3>3. t \in Nat
        BY <3>1, PendingIsFinite DEF Stands, PendingIsAccounted
      <3>4. tick \in Nat /\ p.frontier <= tick
        BY <1>1, <1>2
      <3> HIDE DEF tick
      <3> QED
        BY <2>3, <3>1, <3>2, <3>3, <3>4, PredictionLimitsAreNat
    <2> QED
      BY <1>2, <2>1, <2>3, <2>4, <2>5 DEF Stands
  <1> QED
    BY <1>3, <1>4, <1>5

LEMMA ObserveStands ==
  ASSUME MessagesAreTyped, ClientOrder(client), HistoryIsSound,
         NEW p, PredictionShape(p), Stands(p)
  PROVE  Stands(Observe(p, client))
  <1> DEFINE q == NoticeRecovery(p, client)
  <1>1. PredictionShape(q)
    BY NoticeRecoveryFacts DEF ClientOrder
  <1>2. Stands(q)
    BY NoticeRecoveryStands
  <1>3. Observe(p, client) =
          IF ~client.synchronized THEN Invalidate(q, "ReplicationRecovery")
          ELSE IF FollowsCommit(q, client) THEN Reconcile(q, client) ELSE q
    BY DEF Observe
  <1> HIDE DEF q
  <1> QED
    BY <1>1, <1>2, <1>3, InvalidateStands, ReconcileStands

LEMMA ObserveBoundaryStands ==
  ASSUME NEW p, PredictionShape(p), Stands(p), NEW r
  PROVE  Stands(ObserveBoundary(p, r))
  <1> DEFINE b == IF r.boundary # NoCursor THEN r.boundary ELSE p.last_boundary
  <1>1. ObserveBoundary(p, r) = [p EXCEPT !.last_boundary = b]
    BY DEF ObserveBoundary, PredictionShape
  <1> HIDE DEF b
  <1> QED
    BY <1>1, NewBoundaryStands

LEMMA AdmitStands ==
  ASSUME NEW p, PredictionShape(p), Stands(p), NEW tick \in TargetTick, NEW size \in InputSizes,
         CanAdmit(p, tick, size)
  PROVE  Stands(Admit(p, tick, size))
  <1> DEFINE all == DOMAIN p.pending
             more == Put(p.pending, tick, size)
             ticks == DOMAIN more
             q == [p EXCEPT !.pending = more, !.bytes = @ + size]
             f == [t \in all |-> p.pending[t]]
             g == [t \in ticks |-> more[t]]
  <1>1. /\ IsActive(p) /\ p.frontier < tick /\ tick - p.frontier <= PredictionLimits.span
        /\ tick \notin all /\ Cardinality(all) < PredictionLimits.inputs
        /\ p.bytes + size <= PredictionLimits.bytes
    BY DEF CanAdmit
  <1>2. /\ p.pending \in [all -> Nat] /\ all \subseteq TargetTick
        /\ p.bytes = SizeOf(p.pending, all)
        /\ p.frontier \in Nat /\ p.last_commit \in Nat /\ p.last_commit <= client.current
        /\ p.last_commit \in committed /\ p.frontier = emitted[p.last_commit].tick
        /\ IsBeyond(p)
    BY <1>1 DEF Stands, PendingIsAccounted
  <1>3. size \in Nat /\ tick \in Nat
    <2>1. size \in Nat
      BY PredictionAssumption
    <2>2. tick \in Nat
      BY PendingIsFinite
    <2> QED
      BY <2>1, <2>2
  <1>4. /\ ticks = all \cup {tick} /\ more \in [ticks -> Nat] /\ more[tick] = size
        /\ \A t \in all : more[t] = p.pending[t]
    BY <1>1, <1>2, <1>3 DEF Put
  <1>5. IsFiniteSet(all) /\ Cardinality(all) \in Nat
    BY <1>2, PendingIsFinite
  <1>6. Cardinality(ticks) <= PredictionLimits.inputs
    BY <1>1, <1>4, <1>5, FS_AddElement, PredictionLimitsAreNat
  <1>7. Admit(p, tick, size) = q
    BY DEF Admit
  <1> HIDE DEF more
  <1>8. /\ f \in [all -> Int] /\ g \in [ticks -> Int] /\ \A t \in all : g[t] = f[t]
        /\ f \in [all -> Nat] /\ g[tick] = size
    BY <1>2, <1>4
  <1>9. SizeOf(p.pending, all) = SumFunction(f) /\ SizeOf(more, ticks) = SumFunction(g)
    BY DEF SizeOf
  <1> HIDE DEF f, g, all, ticks
  <1>10. SumFunction(g) = SumFunction(f) + g[tick]
    <2>1. /\ IsFiniteSet(all) /\ f \in [all -> Int] /\ tick \notin all
          /\ ticks = all \cup {tick} /\ g \in [ticks -> Int] /\ \A t \in all : g[t] = f[t]
      BY <1>1, <1>4, <1>5, <1>8
    <2> QED
      BY ONLY <2>1, SumGrows
  <1>11. SizeOf(more, ticks) = p.bytes + size
    BY <1>2, <1>8, <1>9, <1>10
  <1>12. /\ q.state = p.state /\ q.pending = more /\ q.bytes = p.bytes + size
         /\ q.frontier = p.frontier /\ q.last_commit = p.last_commit
    BY DEF PredictionShape
  <1> HIDE DEF q
  <1>13. PendingIsAccounted(q)
    BY <1>1, <1>2, <1>4, <1>6, <1>11, <1>12 DEF PendingIsAccounted, ticks
  <1>14. IsBeyond(q)
    <2> SUFFICES ASSUME NEW t \in ticks
                 PROVE  p.frontier < t /\ t <= p.frontier + PredictionLimits.span
      BY <1>12 DEF IsBeyond, ticks
    <2>1. CASE t = tick
      BY <1>1, <1>2, <1>3, <2>1, PredictionLimitsAreNat
    <2>2. CASE t \in all
      BY <1>2, <2>2 DEF IsBeyond, all
    <2> QED
      BY <1>4, <2>1, <2>2
  <1> QED
    BY <1>1, <1>2, <1>7, <1>12, <1>13, <1>14 DEF Stands, IsActive

LEMMA EndStands ==
  ASSUME NEW p, PredictionShape(p), Stands(p), NEW reason \in Terminal
  PROVE  Stands(End(p, reason))
  <1> DEFINE q == End(p, reason)
  <1>1. /\ q.state = reason /\ q.pending = EmptyMap /\ q.bytes = 0 /\ q.frontier = NoTick
        /\ q.last_commit = p.last_commit
    BY DEF End, PredictionShape
  <1>2. ~IsActive(q)
    BY <1>1 DEF IsActive, Terminal
  <1> HIDE DEF q
  <1>3. q.frontier \in Nat /\ q.last_commit \in Nat /\ q.last_commit <= client.current
    BY <1>1 DEF NoTick, Stands
  <1> QED
    BY <1>1, <1>2, <1>3, EmptyStands DEF q

\* What the client has committed stays committed and its snapshot is not rewritten.
LEMMA HistoryStep ==
  ASSUME PInv, HistoryIsSound, KeepsOrCommits, EmissionsStay, ClientAdvances(client, client')
  PROVE  /\ HistoryIsSound' /\ committed \subseteq committed'
         /\ client.current <= client'.current
  <1>1. client.current \in Nat /\ client'.current \in Nat
    BY DEF PInv, ClientOrder, ClientAdvances
  <1>2. CASE CurrentStays(client, client') /\ committed' = committed
    <2>1. committed' \subseteq DOMAIN emitted'
      BY <1>2 DEF HistoryIsSound, EmissionsStay
    <2>2. client'.current = client.current /\ client.current <= client'.current
      BY <1>1, <1>2 DEF CurrentStays
    <2>3. client'.current # NoCursor =>
            /\ client'.current \in committed' /\ client'.current \in DOMAIN client'.retained
            /\ client'.retained[client'.current].tick = emitted'[client'.current].tick
      BY <1>2 DEF HistoryIsSound, EmissionsStay, CurrentStays
    <2> QED
      BY <1>2, <2>1, <2>2, <2>3 DEF HistoryIsSound
  <1>3. CASE /\ client'.current \in DOMAIN emitted /\ client.current < client'.current
             /\ committed' = committed \cup {client'.current}
             /\ client'.current \in DOMAIN client'.retained
             /\ client'.retained[client'.current].tick = emitted[client'.current].tick
    <2>1. committed' \subseteq DOMAIN emitted'
      BY <1>3 DEF HistoryIsSound, EmissionsStay
    <2> QED
      BY <1>1, <1>3, <2>1 DEF HistoryIsSound, EmissionsStay
  <1> QED
    BY <1>2, <1>3 DEF KeepsOrCommits

\* A prediction that stands goes on standing while the lineage moves.
LEMMA StandsOverLineage ==
  ASSUME PInv, HistoryIsSound, EmissionsStay, committed \subseteq committed',
         client.current <= client'.current, ClientOrder(client'),
         NEW p, Stands(p), NEW q, q = p
  PROVE  /\ PendingIsAccounted(q)
         /\ q.frontier \in Nat /\ q.last_commit \in Nat /\ q.last_commit <= client'.current
         /\ IF IsActive(q)
            THEN /\ q.last_commit \in committed'
                 /\ q.frontier = emitted'[q.last_commit].tick
                 /\ IsBeyond(q)
            ELSE q.pending = EmptyMap
  <1>1. q.last_commit <= client'.current
    BY DEF Stands, PInv, ClientOrder
  <1>2. IsActive(q) => /\ q.last_commit \in committed'
                       /\ q.frontier = emitted'[q.last_commit].tick
    BY DEF Stands, HistoryIsSound, EmissionsStay
  <1> QED
    BY <1>1, <1>2 DEF Stands

LEMMA StandsStep ==
  ASSUME SInv, [PredictionNext]_allVars
  PROVE  SInv'
  <1>1. /\ PInv /\ PInv' /\ HistoryIsSound /\ Stands(prediction) /\ MessagesAreTyped
        /\ ClientOrder(client) /\ PredictionShape(prediction)
    BY PredictionStepKeepsOrder DEF SInv, PInv, PredictionOrder
  <1>2. CASE LiveNext /\ PredictionFollows
    <2>1. /\ ClientAdvances(client, client') /\ KeepsOrCommits /\ EmissionsStay
          /\ ClientOrder(client')
      BY <1>1, <1>2, ClientLiveStep, MessagesLiveStep DEF ClientAdvances
    <2>2. /\ HistoryIsSound' /\ committed \subseteq committed'
          /\ client.current <= client'.current
      BY <1>1, <2>1, HistoryStep
    <2>3. Stands(prediction')
      <3>1. CASE prediction' = prediction
        BY <1>1, <3>1
      <3>2. CASE prediction' = RequireReplacementFull(prediction, client')
        <4> DEFINE q == ObserveBoundary(prediction, client')
        <4>1. PredictionShape(q)
          BY <1>1, <2>1, ObserveBoundaryFacts
        <4>2. Stands(q)
          BY <1>1, ObserveBoundaryStands
        <4> HIDE DEF q
        <4>3. Stands(Invalidate(q, "ReplicationRecovery"))
          BY <4>1, <4>2, InvalidateStands
        <4> QED
          BY <3>2, <4>3 DEF RequireReplacementFull, q
      <3> QED
        BY <1>2, <3>1, <3>2 DEF PredictionFollows
    <2> DEFINE p == prediction'
    <2>4. Stands(p)
      BY <2>3
    <2> HIDE DEF p
    <2>5. /\ PendingIsAccounted(p)
          /\ p.frontier \in Nat /\ p.last_commit \in Nat /\ p.last_commit <= client'.current
          /\ IF IsActive(p)
             THEN /\ p.last_commit \in committed'
                  /\ p.frontier = emitted'[p.last_commit].tick
                  /\ IsBeyond(p)
             ELSE p.pending = EmptyMap
      BY <1>1, <2>1, <2>2, <2>4, StandsOverLineage
    <2>6. Stands(prediction)'
      BY <2>5 DEF Stands, p
    <2> QED
      BY <1>1, <2>2, <2>6 DEF SInv
  <1>3. ASSUME UNCHANGED vars, Stands(prediction')
        PROVE  SInv'
    <2>1. client' = client /\ committed' = committed /\ emitted' = emitted
      BY <1>3 DEF vars, clientVars, authorityVars
    <2>2. HistoryIsSound'
      BY <1>1, <2>1 DEF HistoryIsSound
    <2>3. Stands(prediction)'
      BY <1>3, <2>1 DEF Stands
    <2> QED
      BY <1>1, <2>2, <2>3 DEF SInv
  <1>4. CASE PredictionStep /\ UNCHANGED liveVars
    <2>0. UNCHANGED vars
      BY <1>4 DEF liveVars
    <2>1. CASE ConnectionLost
      BY <1>1, <1>3, <2>0, <2>1, InvalidateStands DEF ConnectionLost
    <2>2. CASE AdmitLocal
      BY <1>1, <1>3, <2>0, <2>2, AdmitStands DEF AdmitLocal
    <2>3. CASE ObserveReplication
      BY <1>1, <1>3, <2>0, <2>3, ObserveStands DEF ObserveReplication
    <2>4. CASE ConfirmHostRestored
      <3> DEFINE q == Activate(prediction, client)
      <3>1. PredictionShape(q)
        BY <1>1, ActivateFacts
      <3>2. Stands(q)
        BY <1>1, <2>4, ActivateStands DEF ConfirmHostRestored, CanConfirmRestored
      <3> HIDE DEF q
      <3>3. Stands(ObserveBoundary(q, client))
        BY <3>1, <3>2, ObserveBoundaryStands
      <3> QED
        BY <1>3, <2>0, <2>4, <3>3 DEF ConfirmHostRestored, ConfirmRestored, q
    <2> QED
      BY <1>4, <2>1, <2>2, <2>3, <2>4 DEF PredictionStep
  <1>5. CASE PredictionDisturbed /\ UNCHANGED vars
    <2>1. CASE LocalApplicationFails
      BY <1>1, <1>3, <1>5, <2>1, InvalidateStands DEF LocalApplicationFails
    <2>2. CASE ReplayFails
      <3> DEFINE o == Observe(prediction, client)
      <3>1. PredictionShape(o)
        BY <1>1, ObserveFacts DEF Observed
      <3>2. Stands(o)
        BY <1>1, ObserveStands
      <3> HIDE DEF o
      <3>3. Stands(Invalidate(o, "ReplayFailure"))
        BY <3>1, <3>2, InvalidateStands
      <3> QED
        BY <1>3, <1>5, <2>2, <3>3 DEF ReplayFails, ObserveFailing, o
    <2>3. CASE ParticipationEnds
      BY <1>1, <1>3, <1>5, <2>3, EndStands DEF ParticipationEnds
    <2> QED
      BY <1>5, <2>1, <2>2, <2>3 DEF PredictionDisturbed
  <1>6. CASE UNCHANGED allVars
    <2>1. UNCHANGED vars /\ prediction' = prediction
      BY <1>6 DEF allVars, liveVars
    <2> QED
      BY <1>1, <1>3, <2>1
  <1> QED
    BY <1>2, <1>4, <1>5, <1>6 DEF PredictionNext

\* The prediction only ever stands on a state the client really committed, its input lies
\* within the span beyond that state's tick, and its count of bytes is exact.
THEOREM PredictionStands == PredictionSpec => []PredictionStandsOnACommit
  <1>1. PredictionInit => SInv
    <2> SUFFICES ASSUME PredictionInit PROVE SInv
      OBVIOUS
    <2>1. HistoryIsSound
      BY DEF PredictionInit, LiveInit, Init, NewReplica, HistoryIsSound
    <2>2. Stands(prediction)
      <3>1. /\ prediction.pending = EmptyMap /\ prediction.bytes = 0
            /\ prediction.frontier = 0 /\ prediction.last_commit = 0 /\ client.current = 0
            /\ ~IsActive(prediction)
        BY DEF PredictionInit, LiveInit, Init, NewReplica, NewPrediction, NoTick, NoCursor,
               IsActive
      <3> QED
        BY <3>1, EmptyStands
    <2> QED
      BY <2>1, <2>2, InitPInv DEF SInv
  <1>2. SInv /\ [PredictionNext]_allVars => SInv'
    BY StandsStep
  <1>3. SInv => PredictionStandsOnACommit
    BY DEF SInv, PInv, PredictionOrder, Stands, PendingIsAccounted, IsBeyond,
           PredictionStandsOnACommit
  <1> QED
    BY <1>1, <1>2, <1>3, PTL DEF PredictionSpec
=============================================================================
