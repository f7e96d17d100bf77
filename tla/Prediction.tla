------------------------------ MODULE Prediction ------------------------------
(***************************************************************************)
(* Local prediction over a replication lineage that loses connections and  *)
(* messages and recovers. The prediction is told nothing by the lineage:   *)
(* the host calls observe_replication when it pleases, after one commit or *)
(* after several commits and recoveries. It reports a failure of its own   *)
(* state while the prediction is active, that is, when it applies the      *)
(* input it has just admitted, and confirms when it has restored it.       *)
(***************************************************************************)
EXTENDS ReplicationRecovery, PredictionLineage

CONSTANT MaxTargetTick       \* bound on the target ticks of local input

ASSUME PredictionPathAssumption == MaxTargetTick \in Nat

VARIABLES
  prediction,
  doubted      \* history: the pending targets that were pending while the client
               \* required a full snapshot

allVars == <<liveVars, prediction, doubted>>

TargetTick == 1 .. MaxTargetTick

PredictionInit == LiveInit /\ prediction = NewPrediction /\ doubted = {}

-----------------------------------------------------------------------------

\* Moving to a replacement connection is one call for prediction and lineage.
PredictionFollows ==
  prediction' = IF client_connection' # client_connection
                THEN RequireReplacementFull(prediction, client') ELSE prediction

\* The bound connection is lost and the client's host learns of it.
ConnectionLost ==
  /\ ~bound \/ client_connection # connection
  /\ prediction' = Invalidate(prediction, "ConnectionLoss")

AdmitLocal ==
  \E tick \in TargetTick, size \in InputSizes :
    /\ CanAdmit(prediction, tick, size)
    /\ prediction' = Admit(prediction, tick, size)

ObserveReplication == prediction' = Observe(prediction, client)

ConfirmHostRestored ==
  /\ CanConfirmRestored(prediction, client)
  /\ prediction' = ConfirmRestored(prediction, client)

PredictionStep == ConnectionLost \/ AdmitLocal \/ ObserveReplication \/ ConfirmHostRestored

LocalApplicationFails ==
  /\ IsActive(prediction)
  /\ prediction' = Invalidate(prediction, "LocalApplicationFailure")

ReplayFails ==
  /\ Replayed(prediction, client) # {}
  /\ prediction' = ObserveFailing(prediction, client)

ParticipationEnds == \E reason \in Terminal : prediction' = End(prediction, reason)

\* The failures of the host are part of the bounded interference.
PredictionDisturbed ==
  /\ disturbances < MaxDisturbances
  /\ disturbances' = disturbances + 1
  /\ LocalApplicationFails \/ ReplayFails \/ ParticipationEnds

Doubt ==
  doubted' = IF client'.synchronized THEN doubted \cap DOMAIN prediction'.pending
             ELSE DOMAIN prediction'.pending

PredictionNext ==
  /\ \/ LiveNext /\ PredictionFollows
     \/ PredictionStep /\ UNCHANGED liveVars
     \/ PredictionDisturbed /\ UNCHANGED vars
  /\ Doubt

\* The host goes on observing, and restores what failed.
PredictionFairness ==
  /\ WF_allVars(ObserveReplication /\ UNCHANGED liveVars /\ Doubt)
  /\ WF_allVars(ConfirmHostRestored /\ UNCHANGED liveVars /\ Doubt)

PredictionSpec ==
  PredictionInit /\ [][PredictionNext]_allVars /\ Fairness /\ PredictionFairness
-----------------------------------------------------------------------------

\* The prediction stands on a state the client really committed: while it is active
\* its frontier is the tick of the last commit it has observed, what is pending lies
\* beyond that and within the limits, and its bytes, counted by hand, are exact.
\* What is not active has nothing pending.
PredictionStandsOnACommit ==
  LET p == prediction
  IN /\ p.bytes = SizeOf(p.pending, DOMAIN p.pending)
     /\ p.bytes <= PredictionLimits.bytes
     /\ Cardinality(DOMAIN p.pending) <= PredictionLimits.inputs
     /\ p.last_commit <= client.current /\ p.last_boundary <= client.boundary
     /\ IF IsActive(p)
        THEN /\ p.last_commit \in committed
             /\ p.frontier = emitted[p.last_commit].tick
             /\ \A t \in DOMAIN p.pending :
                  p.frontier < t /\ t <= p.frontier + PredictionLimits.span
        ELSE p.pending = EmptyMap

\* Input that was pending while the client required a full snapshot is never
\* replayed, nor does it survive the next observed commit, even when the recovery
\* began and ended between two observations ("the endpoint MUST NOT replay
\* invalidated pre-recovery predicted input").
DoubtedInputIsNeverReplayed ==
  [][prediction'.last_commit # prediction.last_commit => doubted' = {}]_allVars

\* Whatever is lost, replaced, rejected or fails, replication comes back into service
\* and the prediction follows it again, unless the participation has ended: neither
\* waits for a boundary or a commit that has passed.
PredictionResumes ==
  []<>(InService /\ (IsActive(prediction) \/ IsTerminal(prediction)))
=============================================================================
