-------------------------- MODULE AuthorityLineage --------------------------
(***************************************************************************)
(* One participant's replication lineage on the authority                  *)
(* (replication/authority.rs): the operations of AuthorityLineage as       *)
(* operators on a lineage record. For an operation Op, CanOp(l) says when  *)
(* the code performs it and Op(l) is the lineage it leaves; when CanOp(l)  *)
(* is false the code returns an error or an outcome and changes nothing.   *)
(*                                                                         *)
(* Recovery reasons only feed diagnostics and are left out.                *)
(***************************************************************************)
EXTENDS ReplicationModel

CONSTANTS
  MaxGeneration,          \* the last RecoveryGeneration (u64::MAX in the code)
  AuthorityLimits         \* ReplicationRetentionLimits of every lineage

Generation == 0 .. MaxGeneration

NoGeneration == -1       \* a snapshot not designated for a recovery generation

ASSUME AuthorityLineageAssumption ==
  /\ MaxGeneration \in Nat
  /\ ValidLimits(AuthorityLimits)

-----------------------------------------------------------------------------

\* SnapshotCandidate: base is NoCursor and extra is 0 in a full snapshot,
\* generation is NoGeneration in a delta.
Candidate ==
  [kind : {Full, Delta}, base : Cursor \cup {NoCursor}, cursor : Cursor,
   tick : Tick, image : Images, generation : Generation \cup {NoGeneration},
   extra : Nat]

NoCandidate == [kind |-> "None"]

\* delta_base # NoCursor is DeltaEligible(delta_base). Otherwise the lineage is
\* FullSnapshotRequired in generation with start_cursor_watermark watermark
\* (the code stores generation in both places and always sets them together).
Lineage ==
  [delta_base : Cursor \cup {NoCursor},
   generation : Generation,
   watermark : Cursor \cup {NoCursor},
   latest_confirmed : Cursor \cup {NoCursor},
   greatest_emitted : Cursor \cup {NoCursor},
   greatest_emitted_tick : Tick \cup {NoTick},
   retained : Retention,
   evidence : UNION {[S -> [kind : {Full, Delta},
                            generation : Generation \cup {NoGeneration}]] :
                       S \in SUBSET Cursor},
   pending : Candidate \cup {NoCandidate}]

NewLineage ==
  [delta_base |-> NoCursor, generation |-> 0, watermark |-> NoCursor,
   latest_confirmed |-> NoCursor, greatest_emitted |-> NoCursor,
   greatest_emitted_tick |-> NoTick, retained |-> EmptyMap,
   evidence |-> EmptyMap, pending |-> NoCandidate]

DeltaEligible(l) == l.delta_base # NoCursor
BaselineAvailable(l, c) == c \in DOMAIN l.retained
HasPending(l) == l.pending # NoCandidate

-----------------------------------------------------------------------------

\* Mutant of CanStartRecovery: the exhaustion of generations goes unnoticed.
CanAlwaysStartRecovery(l) == TRUE

\* A new recovery generation: the send boundary that drops unemitted work.
CanStartRecovery(l) == l.generation < MaxGeneration

\* Mutant of StartRecovery: the candidate prepared before it survives.
StartRecoveryKeepingPending(l) ==
  [l EXCEPT !.generation = @ + 1, !.delta_base = NoCursor,
            !.watermark = l.greatest_emitted]

\* Mutant of StartRecovery: no watermark is taken.
StartRecoveryWithoutWatermark(l) ==
  [l EXCEPT !.pending = NoCandidate, !.generation = @ + 1, !.delta_base = NoCursor]

StartRecovery(l) ==
  [l EXCEPT !.pending = NoCandidate, !.generation = @ + 1,
            !.delta_base = NoCursor, !.watermark = l.greatest_emitted]

\* Mutant of IsNewTarget: ticks may go back.
IsNewCursor(l, cursor, tick) == l.greatest_emitted < cursor

IsNewTarget(l, cursor, tick) ==
  /\ l.greatest_emitted < cursor
  /\ l.greatest_emitted_tick <= tick

CandidateFits(image, extra) ==
  /\ ImageBytes[image] <= AuthorityLimits.image_bytes
  /\ ImageBytes[image] + extra <= AuthorityLimits.candidate_bytes

CanPrepareFull(l, cursor, tick, image, designate) ==
  /\ ~HasPending(l)
  /\ IsNewTarget(l, cursor, tick)
  /\ CandidateFits(image, 0)
  /\ designate => ~DeltaEligible(l) /\ l.watermark < cursor

PrepareFull(l, cursor, tick, image, designate) ==
  [l EXCEPT !.pending =
     [kind |-> Full, base |-> NoCursor, cursor |-> cursor, tick |-> tick,
      image |-> image, extra |-> 0,
      generation |-> IF designate THEN l.generation ELSE NoGeneration]]

CanPrepareDelta(l, cursor, tick, image, extra) ==
  /\ ~HasPending(l)
  /\ DeltaEligible(l)
  /\ BaselineAvailable(l, l.delta_base)
  /\ l.delta_base < cursor
  /\ IsNewTarget(l, cursor, tick)
  /\ l.retained[l.delta_base].tick <= tick
  /\ CandidateFits(image, extra)

PrepareDelta(l, cursor, tick, image, extra) ==
  [l EXCEPT !.pending =
     [kind |-> Delta, base |-> l.delta_base, cursor |-> cursor, tick |-> tick,
      image |-> image, extra |-> extra, generation |-> NoGeneration]]

CancelPending(l) == [l EXCEPT !.pending = NoCandidate]

-----------------------------------------------------------------------------

\* Mutant of RetainState: the delta base is evicted like any other image.
RetainStateOverBase(l, cursor, tick, image) ==
  LET Fits(gone) == HasRoom(l.retained, gone, image, AuthorityLimits)
      kept == Drop(l.retained, EvictOldest(DOMAIN l.retained, Fits))
  IN [l EXCEPT !.retained = Put(kept, cursor, [tick |-> tick, image |-> image])]

\* retain_authority_state: evict the oldest images but never the delta base;
\* when even that does not make room, the new image is not retained.
RetainState(l, cursor, tick, image) ==
  LET Fits(gone) == HasRoom(l.retained, gone, image, AuthorityLimits)
      evicted == EvictOldest(DOMAIN l.retained \ {l.delta_base}, Fits)
      kept == Drop(l.retained, evicted)
  IN [l EXCEPT !.retained =
        IF Fits(evicted)
        THEN Put(kept, cursor, [tick |-> tick, image |-> image])
        ELSE kept]

RetainEvidence(l, cursor, kind, generation) ==
  LET known == DOMAIN l.evidence
      Fits(gone) == Cardinality(known \ gone) < AuthorityLimits.evidence
  IN [l EXCEPT !.evidence = Put(Drop(l.evidence, EvictOldest(known, Fits)), cursor,
                                [kind |-> kind, generation |-> generation])]

\* record_delivery_acceptance(Accepted): the pending snapshot becomes emitted.
Emit(l) ==
  LET c == l.pending
      emitted == [l EXCEPT !.pending = NoCandidate, !.greatest_emitted = c.cursor,
                           !.greatest_emitted_tick = c.tick]
  IN RetainEvidence(RetainState(emitted, c.cursor, c.tick, c.image),
                    c.cursor, c.kind, c.generation)

-----------------------------------------------------------------------------

BecomeDeltaEligible(l, c) ==
  [l EXCEPT !.delta_base = c, !.watermark = NoCursor]

\* A duplicate, stale, future or unverifiable acknowledgement changes nothing.
CanConfirm(l, c) ==
  /\ l.latest_confirmed < c
  /\ c <= l.greatest_emitted
  /\ c \in DOMAIN l.evidence
  /\ DeltaEligible(l) /\ ~BaselineAvailable(l, c) => CanStartRecovery(l)

\* Mutant of QualifiesForRecovery: any full snapshot ends the recovery.
AnyFullQualifies(l, c) ==
  l.evidence[c].kind = Full /\ BaselineAvailable(l, c)

QualifiesForRecovery(l, c) ==
  /\ l.evidence[c].kind = Full
  /\ l.evidence[c].generation = l.generation
  /\ BaselineAvailable(l, c)

Confirm(l, c) ==
  LET confirmed == [l EXCEPT !.latest_confirmed = c]
  IN IF DeltaEligible(l)
     THEN IF BaselineAvailable(l, c)
          THEN BecomeDeltaEligible(confirmed, c)
          ELSE StartRecovery(confirmed)
     ELSE IF QualifiesForRecovery(l, c)
          THEN BecomeDeltaEligible(confirmed, c)
          ELSE confirmed

\* require_full_recovery; repeated demands do not begin another generation.
CanRequireFull(l) == DeltaEligible(l) /\ CanStartRecovery(l)

\* evict_retained_state: losing the delta base begins a new recovery.
CanEvictState(l, c) ==
  /\ BaselineAvailable(l, c)
  /\ l.delta_base = c => CanStartRecovery(l)

EvictState(l, c) ==
  LET evicted == [l EXCEPT !.retained = Drop(@, {c})]
  IN IF l.delta_base = c THEN StartRecovery(evicted) ELSE evicted

-----------------------------------------------------------------------------
(* What a lineage l is to be like, and an operation that makes m of it     *)

\* The next delta can be built on the base, which is what the peer has confirmed.
EligibleBase(l) ==
  DeltaEligible(l) => /\ l.delta_base = l.latest_confirmed
                      /\ BaselineAvailable(l, l.delta_base)

\* What is pending was prepared in the present state of recovery.
PendingIsCurrent(l) ==
  HasPending(l) =>
    /\ l.greatest_emitted < l.pending.cursor
    /\ l.greatest_emitted_tick <= l.pending.tick
    /\ l.pending.kind = Delta => DeltaEligible(l)
    /\ l.pending.generation \in {NoGeneration, l.generation}

\* A recovery is left by the confirmation of a full snapshot of its own.
EndsByItsOwnFull(l, m) ==
  ~DeltaEligible(l) /\ DeltaEligible(m) =>
    /\ m.delta_base = m.latest_confirmed
    /\ l.latest_confirmed < m.latest_confirmed
    /\ m.evidence[m.delta_base] = [kind |-> Full, generation |-> l.generation]
    /\ l.watermark < m.delta_base

\* A recovery has the next generation and begins with nothing pending.
RecoveryBoundary(l, m) ==
  /\ DeltaEligible(l) /\ ~DeltaEligible(m) => l.generation < m.generation
  /\ l.generation # m.generation =>
       /\ m.generation = l.generation + 1
       /\ ~DeltaEligible(m) /\ ~HasPending(m)
       /\ m.watermark = m.greatest_emitted

\* Neither emissions nor confirmations go back, and evidence is not rewritten.
Advances(l, m) ==
  /\ l.latest_confirmed <= m.latest_confirmed
  /\ l.greatest_emitted <= m.greatest_emitted
  /\ l.greatest_emitted_tick <= m.greatest_emitted_tick
  /\ \A c \in DOMAIN l.evidence \cap DOMAIN m.evidence :
       m.evidence[c] = l.evidence[c]
=============================================================================
