---------------------------- MODULE ClientLineage ----------------------------
(***************************************************************************)
(* One replication lineage on the client (replication/client.rs) as        *)
(* operators on a lineage record. Stale, duplicate, blocked and oversized  *)
(* snapshots change nothing and have no operator. Recovery reasons only    *)
(* feed diagnostics and are left out.                                      *)
(***************************************************************************)
EXTENDS ReplicationModel

CONSTANTS
  ClientLimits,     \* ReplicationRetentionLimits of every lineage
  ClientSetLimits   \* ClientAggregateLimits

ASSUME ClientLineageAssumption ==
  /\ ValidLimits(ClientLimits)
  /\ ClientSetLimits \in [images : Nat \ {0}, retained_bytes : Nat \ {0}]

\* A received snapshot. A delta is a transform made from one image: applied to
\* that image it yields the target image, to any other it may yield anything.
\* base is NoCursor and from is the image itself in a full snapshot.
Snapshot ==
  [kind : {Full, Delta}, base : Cursor \cup {NoCursor}, cursor : Cursor,
   tick : Tick, from : Images, image : Images]

\* synchronized = FALSE is FullSnapshotRequired; boundary is the cursor of
\* latest_recovery_boundary.
Replica ==
  [synchronized : BOOLEAN,
   current : Cursor \cup {NoCursor},
   boundary : Cursor \cup {NoCursor},
   retained : Retention]

NewReplica ==
  [synchronized |-> FALSE, current |-> NoCursor, boundary |-> NoCursor,
   retained |-> EmptyMap]

\* Neither Stale nor DuplicateCurrent.
IsNewer(r, s) == r.current < s.cursor

CurrentTick(r) ==
  IF r.current \in DOMAIN r.retained THEN r.retained[r.current].tick ELSE NoTick

-----------------------------------------------------------------------------

\* plan_commit: evict the oldest retained images, the current one if need be.
CommitEvictions(r, image) ==
  EvictOldest(DOMAIN r.retained,
              LAMBDA gone : HasRoom(r.retained, gone, image, ClientLimits))

AfterCommit(r, s, image) ==
  Put(Drop(r.retained, CommitEvictions(r, image)), s.cursor,
      [tick |-> s.tick, image |-> image])

\* plan_commit, and aggregate_commit_fits for a set with this one lineage: the
\* outcome fits, and the candidate fits beside all that is still retained.
CommitFits(r, s, image) ==
  /\ ImageBytes[image] <= ClientLimits.image_bytes
  /\ HasRoom(r.retained, CommitEvictions(r, image), image, ClientLimits)
  /\ RetainedBytes(r) + ImageBytes[image] <= ClientSetLimits.retained_bytes
  /\ Cardinality(DOMAIN AfterCommit(r, s, image)) <= ClientSetLimits.images

\* commit_with_plan
Commit(r, s, image) ==
  [r EXCEPT !.retained = AfterCommit(r, s, image), !.current = s.cursor,
            !.synchronized = TRUE]

EnterRecovery(r) ==
  [r EXCEPT !.synchronized = FALSE,
            !.boundary = IF r.current # NoCursor THEN r.current ELSE @]

\* Mutant of CanCommitFull: an older full snapshot is taken too.
CanCommitOldFull(r, s) == CommitFits(r, s, s.image)

CanCommitFull(r, s) ==
  /\ IsNewer(r, s)
  /\ CurrentTick(r) <= s.tick
  /\ CommitFits(r, s, s.image)

\* Mutant of ConsidersDelta: recovery does not block deltas.
ConsidersAnyDelta(r, s) == IsNewer(r, s)

\* A delta is looked at only by a synchronized client.
ConsidersDelta(r, s) == IsNewer(r, s) /\ r.synchronized

IsApplicable(r, s) ==
  /\ s.base < s.cursor
  /\ CurrentTick(r) <= s.tick
  /\ s.base \in DOMAIN r.retained
  /\ r.retained[s.base].tick <= s.tick

\* Mutant of Reconstructions: the delta is applied to the current image.
ReconstructionsOnCurrent(r, s) ==
  IF r.retained[r.current].image = s.from THEN {s.image} ELSE Images

Reconstructions(r, s) ==
  IF r.retained[s.base].image = s.from THEN {s.image} ELSE Images

CanCommitDelta(r, s, image) ==
  /\ ConsidersDelta(r, s)
  /\ IsApplicable(r, s)
  /\ image \in Reconstructions(r, s)
  /\ CommitFits(r, s, image)

CanEvictHistorical(r, c) == c \in DOMAIN r.retained /\ c # r.current
EvictHistorical(r, c) == [r EXCEPT !.retained = Drop(@, {c})]
=============================================================================
