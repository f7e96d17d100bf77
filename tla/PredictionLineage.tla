-------------------------- MODULE PredictionLineage --------------------------
(***************************************************************************)
(* Local prediction of one participant (input/prediction.rs) as operators  *)
(* on a prediction record and the client's replication lineage, which it   *)
(* only observes. Refused input changes nothing and has no operator; what  *)
(* is pending for a tick is its accounted size, for a repeated and a       *)
(* conflicting batch are refused alike.                                    *)
(***************************************************************************)
EXTENDS ClientLineage

CONSTANTS
  PredictionLimits,     \* PredictionLimits of the lineage
  InputSizes            \* accounted sizes of local input

ASSUME PredictionAssumption ==
  /\ PredictionLimits \in [inputs : Nat \ {0}, bytes : Nat \ {0}, span : Nat]
  /\ InputSizes \subseteq Nat

Terminal == {"ParticipantMembershipEnded", "SessionClosed"}
HostFailure == {"LocalApplicationFailure", "ReplayFailure"}
Recoverable == {"InitialBaseline", "ReplicationRecovery"}

\* state is Active or the reason of the invalidation.
NewPrediction ==
  [state |-> "InitialBaseline", frontier |-> NoTick, pending |-> EmptyMap, bytes |-> 0,
   last_commit |-> NoCursor, last_boundary |-> NoCursor]

IsActive(p) == p.state = "Active"
IsTerminal(p) == p.state \in Terminal

SizeOf(pending, ticks) == SumFunction([t \in ticks |-> pending[t]])

\* admit_local, up to InputAccepted.
CanAdmit(p, tick, size) ==
  /\ IsActive(p)
  /\ p.frontier < tick /\ tick - p.frontier <= PredictionLimits.span
  /\ tick \notin DOMAIN p.pending
  /\ Cardinality(DOMAIN p.pending) < PredictionLimits.inputs
  /\ p.bytes + size <= PredictionLimits.bytes

Admit(p, tick, size) == [p EXCEPT !.pending = Put(@, tick, size), !.bytes = @ + size]

\* connection_lost, local_application_failed, invalidate_for_recovery: whatever is
\* pending goes, the frontier stays, and an end is final.
Invalidate(p, reason) ==
  IF IsTerminal(p) THEN p
  ELSE [p EXCEPT !.state = reason, !.pending = EmptyMap, !.bytes = 0]

\* participant_membership_ended, session_closed
End(p, reason) ==
  [p EXCEPT !.state = reason, !.frontier = NoTick, !.pending = EmptyMap, !.bytes = 0]

ObserveBoundary(p, r) ==
  [p EXCEPT !.last_boundary = IF r.boundary # NoCursor THEN r.boundary ELSE @]

\* Mutant of RequireReplacementFull: only the boundary is taken note of.
RequireReplacementOnly(p, r) == ObserveBoundary(p, r)

\* require_connection_replacement_full, with r the lineage after it required one.
RequireReplacementFull(p, r) == Invalidate(ObserveBoundary(p, r), "ReplicationRecovery")

\* A prediction starts again, from the state the lineage shows.
Activate(p, r) ==
  [p EXCEPT !.state = "Active", !.frontier = CurrentTick(r), !.pending = EmptyMap,
            !.bytes = 0, !.last_commit = r.current]

\* confirm_host_restored_after_prediction_failure
CanConfirmRestored(p, r) ==
  /\ p.state \in HostFailure
  /\ r.synchronized
  /\ p.frontier <= CurrentTick(r)

ConfirmRestored(p, r) == ObserveBoundary(Activate(p, r), r)

\* Mutant of NoticeRecovery: only a recovery that lasts is noticed.
NoticeLastingRecovery(p, r) ==
  IF r.synchronized THEN p ELSE Invalidate(p, "ReplicationRecovery")

\* A recovery since the last observation is noticed even when it is over.
NoticeRecovery(p, r) ==
  IF r.boundary > p.last_boundary
  THEN [Invalidate(p, "ReplicationRecovery") EXCEPT !.last_boundary = r.boundary]
  ELSE p

\* Has the lineage a commit the prediction is to follow?
FollowsCommit(p, r) ==
  /\ r.synchronized /\ ~IsTerminal(p)
  /\ p.last_commit < r.current
  /\ p.frontier <= CurrentTick(r)

\* Mutant of Retire: input for the very tick of the commit is replayed.
RetireBefore(p, tick) ==
  LET gone == {t \in DOMAIN p.pending : t < tick}
  IN [p EXCEPT !.pending = Drop(@, gone), !.bytes = @ - SizeOf(p.pending, gone)]

Retire(p, tick) ==
  LET gone == {t \in DOMAIN p.pending : t <= tick}
  IN [p EXCEPT !.pending = Drop(@, gone), !.bytes = @ - SizeOf(p.pending, gone)]

\* reconcile_committed, as far as the replay
Reconcile(p, r) ==
  IF p.state \in Recoverable THEN Activate(p, r)
  ELSE IF ~IsActive(p) THEN [p EXCEPT !.last_commit = r.current]
  ELSE [Retire(p, CurrentTick(r)) EXCEPT !.frontier = CurrentTick(r),
                                         !.last_commit = r.current]

\* observe_replication, when the host replays what it is asked to.
Observe(p, r) ==
  LET q == NoticeRecovery(p, r)
  IN IF ~r.synchronized THEN Invalidate(q, "ReplicationRecovery")
     ELSE IF FollowsCommit(q, r) THEN Reconcile(q, r) ELSE q

\* The input the host is asked to replay.
Replayed(p, r) ==
  IF r.synchronized /\ FollowsCommit(NoticeRecovery(p, r), r)
  THEN DOMAIN Observe(p, r).pending ELSE {}

\* observe_replication, when the replay fails.
ObserveFailing(p, r) == Invalidate(Observe(p, r), "ReplayFailure")
=============================================================================
