------------------------ MODULE AuthorityReplication ------------------------
(***************************************************************************)
(* The authority's replication session (AuthorityReplicationSession of     *)
(* replication/authority.rs): one lineage per participant, all of them     *)
(* under shared resource limits. The environment is arbitrary: the host    *)
(* prepares, emits, cancels and evicts in any order, and the peer          *)
(* acknowledges any cursor at any time.                                    *)
(***************************************************************************)
EXTENDS AuthorityLineage

CONSTANTS
  Participants,
  ExtraBytes,        \* sizes of a delta's candidate beyond its target image
  SessionLimits      \* AuthorityAggregateLimits

ASSUME AuthorityReplicationAssumption ==
  /\ ExtraBytes \subseteq Nat
  /\ SessionLimits \in [lineages : Nat \ {0}, state_bytes : Nat \ {0},
                        images : Nat \ {0}, retained_bytes : Nat \ {0},
                        evidence : Nat \ {0}]

VARIABLE lineages      \* participant -> lineage

AuthorityTypeOK ==
  /\ DOMAIN lineages \subseteq Participants
  /\ \A p \in DOMAIN lineages : lineages[p] \in Lineage

AuthorityInit == lineages = EmptyMap

-----------------------------------------------------------------------------

Sum(size(_), ls) == SumFunction([p \in DOMAIN ls |-> size(ls[p])])

EvidenceCount(l) == Cardinality(DOMAIN l.evidence)
PendingCount(l) == IF HasPending(l) THEN 1 ELSE 0
PendingStateBytes(l) == IF HasPending(l) THEN ImageBytes[l.pending.image] ELSE 0
PendingCandidateBytes(l) ==
  IF HasPending(l) THEN ImageBytes[l.pending.image] + l.pending.extra ELSE 0

\* Everything retained, plus what the pending snapshots will add when emitted.
AggregateReservationsFit(ls) ==
  /\ Sum(RetainedBytes, ls) + Sum(PendingCandidateBytes, ls) <= SessionLimits.state_bytes
  /\ Sum(ImageCount, ls) + Sum(PendingCount, ls) <= SessionLimits.images
  /\ Sum(RetainedBytes, ls) + Sum(PendingStateBytes, ls) <= SessionLimits.retained_bytes
  /\ Sum(EvidenceCount, ls) + Sum(PendingCount, ls) <= SessionLimits.evidence

Update(p, l) == lineages' = [lineages EXCEPT ![p] = l]

-----------------------------------------------------------------------------

AddLineage(p) ==
  /\ p \notin DOMAIN lineages
  /\ Cardinality(DOMAIN lineages) < SessionLimits.lineages
  /\ lineages' = Put(lineages, p, NewLineage)

RemoveLineage(p) == lineages' = Drop(lineages, {p})

\* Mutant of PrepareFullSnapshot: the shared limits are not looked at.
PrepareFullUnshared(p, cursor, tick, image, designate) ==
  /\ CanPrepareFull(lineages[p], cursor, tick, image, designate)
  /\ Update(p, PrepareFull(lineages[p], cursor, tick, image, designate))

\* A candidate that breaks a shared limit is cancelled and an error returned.
PrepareFullSnapshot(p, cursor, tick, image, designate) ==
  /\ CanPrepareFull(lineages[p], cursor, tick, image, designate)
  /\ Update(p, PrepareFull(lineages[p], cursor, tick, image, designate))
  /\ AggregateReservationsFit(lineages')

PrepareDeltaSnapshot(p, cursor, tick, image, extra) ==
  /\ CanPrepareDelta(lineages[p], cursor, tick, image, extra)
  /\ Update(p, PrepareDelta(lineages[p], cursor, tick, image, extra))
  /\ AggregateReservationsFit(lineages')

RecordAccepted(p) ==
  /\ HasPending(lineages[p])
  /\ Update(p, Emit(lineages[p]))

CancelCandidate(p) ==
  /\ HasPending(lineages[p])
  /\ Update(p, CancelPending(lineages[p]))

AcknowledgeAuthorized(p, cursor) ==
  /\ CanConfirm(lineages[p], cursor)
  /\ Update(p, Confirm(lineages[p], cursor))

RequireFullRecovery(p) ==
  /\ CanRequireFull(lineages[p])
  /\ Update(p, StartRecovery(lineages[p]))

ConnectionReplaced(p) ==
  /\ CanStartRecovery(lineages[p])
  /\ Update(p, StartRecovery(lineages[p]))

EvictRetainedState(p, cursor) ==
  /\ CanEvictState(lineages[p], cursor)
  /\ Update(p, EvictState(lineages[p], cursor))

Prepare(p) ==
  \E cursor \in Cursor, tick \in Tick, image \in Images :
    \/ \E designate \in BOOLEAN :
         PrepareFullSnapshot(p, cursor, tick, image, designate)
    \/ \E extra \in ExtraBytes :
         PrepareDeltaSnapshot(p, cursor, tick, image, extra)

Operate(p) ==
  \/ RemoveLineage(p)
  \/ Prepare(p)
  \/ RecordAccepted(p)
  \/ CancelCandidate(p)
  \/ \E cursor \in Cursor : AcknowledgeAuthorized(p, cursor)
  \/ RequireFullRecovery(p)
  \/ ConnectionReplaced(p)
  \/ \E cursor \in Cursor : EvictRetainedState(p, cursor)

AuthorityNext ==
  \/ \E p \in Participants : AddLineage(p)
  \/ \E p \in DOMAIN lineages : Operate(p)

AuthoritySpec == AuthorityInit /\ [][AuthorityNext]_lineages
-----------------------------------------------------------------------------

\* A delta-eligible lineage can always build its next delta: the base is the
\* latest confirmed cursor and its image is retained, through every eviction,
\* acknowledgement and emission that could separate the three.
EligibleBaseIsConfirmedAndRetained ==
  \A p \in DOMAIN lineages : EligibleBase(lineages[p])

\* Nothing prepared before a recovery boundary can be emitted after it: no
\* delta is pending while a full snapshot is required, and a pending recovery
\* full was designated for the current generation, past its watermark
\* (install_new_recovery drops the pending candidate).
NoPendingWorkCrossesRecovery ==
  \A p \in DOMAIN lineages : PendingIsCurrent(lineages[p])

\* Only preparation looks at the limits, those of the lineage and those that
\* all lineages share, yet they hold at all times: an emission with its
\* evictions never uses more than was reserved for it, whatever other lineages
\* prepared and emitted in between.
WithinOwnLimits(l) ==
  /\ ImageCount(l) <= AuthorityLimits.images
  /\ RetainedBytes(l) <= AuthorityLimits.retained_bytes
  /\ EvidenceCount(l) <= AuthorityLimits.evidence

LimitsHold ==
  /\ AggregateReservationsFit(lineages)
  /\ \A p \in DOMAIN lineages : WithinOwnLimits(lineages[p])

\* A lineage leaves recovery only by the confirmation of a retained full
\* snapshot that was designated for, and is newer than, that very generation.
RecoveryEndsByItsOwnFull ==
  [][\A p \in DOMAIN lineages \cap DOMAIN lineages' :
       EndsByItsOwnFull(lineages[p], lineages'[p])]_lineages

\* A new generation begins whenever delta eligibility is lost, is the next
\* number, and starts at the greatest cursor emitted so far with no candidate.
EveryBoundaryIsAGeneration ==
  [][\A p \in DOMAIN lineages \cap DOMAIN lineages' :
       RecoveryBoundary(lineages[p], lineages'[p])]_lineages

\* Emission order and confirmations never go back, and the evidence of an
\* emission is never re-tagged for a later generation.
LineagesOnlyAdvance ==
  [][\A p \in DOMAIN lineages \cap DOMAIN lineages' :
       Advances(lineages[p], lineages'[p])]_lineages
=============================================================================
