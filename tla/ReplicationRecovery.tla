------------------------- MODULE ReplicationRecovery -------------------------
(***************************************************************************)
(* Does recovery end? Replication under a host that does its part: it      *)
(* offers a recovery full whenever one is required and none is under way,  *)
(* it binds a replacement for a lost connection, and the client demands a  *)
(* full snapshot for as long as it needs one. Deltas, losses of messages   *)
(* and connections, evictions of baselines and failing deltas interfere,   *)
(* in any order, MaxDisturbances times in all.                             *)
(***************************************************************************)
EXTENDS Replication

CONSTANT MaxDisturbances     \* bound on the interference

ASSUME RecoveryAssumption == MaxDisturbances \in Nat /\ 1 \in Tick

VARIABLE disturbances

liveVars == <<vars, disturbances>>

LiveInit == Init /\ disturbances = 0

-----------------------------------------------------------------------------

\* A recovery full of this generation is prepared, in flight or held by the
\* client without a confirmation.
RecoveryUnderWay ==
  \/ HasPending(authority)
  \/ \E c \in Cursor :
       /\ authority.watermark < c /\ authority.latest_confirmed < c
       /\ client.current <= c
       /\ <<connection, c>> \in snapshots \/ client.current = c

NextCursor == authority.greatest_emitted + 1

\* A bound on the exploration: the simulation moves on only from delta to delta, so
\* a full snapshot for a recovery has the tick of the latest emission.
RecoveryTick ==
  IF authority.greatest_emitted_tick = NoTick THEN 1 ELSE authority.greatest_emitted_tick

HostRecovers ==
  /\ bound /\ ~DeltaEligible(authority) /\ ~RecoveryUnderWay
  /\ NextCursor \in Cursor
  /\ \E image \in Images : HostPreparesFull(NextCursor, RecoveryTick, image, TRUE)

Emits == EmitSnapshot

ClientCommits(cursor) == Received(cursor) /\ (CommitFull(cursor) \/ CommitDelta(cursor))

\* A delta the client cannot apply is certain to send it into recovery.
ClientRejects(cursor) ==
  /\ Received(cursor)
  /\ ~IsApplicable(client, emitted[cursor])
  /\ RejectDelta(cursor)

ClientAcks == <<client_connection, client.current>> \notin acks /\ SendAck

ClientDemands == client_connection \notin demands /\ DemandFull

\* The demand is consumed, whether it begins a recovery or finds one begun.
AuthorityServesDemand ==
  /\ connection \in demands /\ bound
  /\ demands' = demands \ {connection}
  /\ IF CanRequireFull(authority)
     THEN authority' = StartRecovery(authority)
     ELSE UNCHANGED authority
  /\ UNCHANGED <<emitted, clientVars, sessionVars, snapshots, acks>>

Progress ==
  \/ HostRecovers
  \/ Emits
  \/ \E c \in Cursor :
       ClientCommits(c) \/ ClientRejects(c) \/ ReceiveAck(connection, c)
  \/ ClientAcks
  \/ ClientDemands
  \/ AuthorityServesDemand
  \/ ReplaceConnection
  \/ ClientReconnects

-----------------------------------------------------------------------------

LoseMessage ==
  /\ \/ \E m \in snapshots : snapshots' = snapshots \ {m} /\ UNCHANGED <<acks, demands>>
     \/ \E m \in acks : acks' = acks \ {m} /\ UNCHANGED <<snapshots, demands>>
     \/ \E m \in demands : demands' = demands \ {m} /\ UNCHANGED <<snapshots, acks>>
  /\ UNCHANGED <<authorityVars, clientVars, sessionVars>>

HostSendsDelta ==
  /\ NextCursor \in Cursor
  /\ \E tick \in Tick, image \in Images : HostPreparesDelta(NextCursor, tick, image)

Disturb ==
  \/ LoseMessage
  \/ LoseConnection
  \/ HostSendsDelta
  \/ \E c \in Cursor :
       \/ HostEvictsState(c)
       \/ ClientEvictsHistory(c)
       \/ Received(c) /\ RejectDelta(c)

LiveNext ==
  \/ Progress /\ UNCHANGED disturbances
  \/ /\ disturbances < MaxDisturbances
     /\ Disturb
     /\ disturbances' = disturbances + 1

Fairness ==
  /\ WF_liveVars(HostRecovers /\ UNCHANGED disturbances)
  /\ WF_liveVars(Emits /\ UNCHANGED disturbances)
  /\ \A c \in Cursor :
       /\ WF_liveVars(ClientCommits(c) /\ UNCHANGED disturbances)
       /\ WF_liveVars(ClientRejects(c) /\ UNCHANGED disturbances)
       /\ WF_liveVars(ReceiveAck(connection, c) /\ UNCHANGED disturbances)
  /\ WF_liveVars(ClientAcks /\ UNCHANGED disturbances)
  /\ WF_liveVars(ClientDemands /\ UNCHANGED disturbances)
  /\ WF_liveVars(AuthorityServesDemand /\ UNCHANGED disturbances)
  /\ WF_liveVars(ReplaceConnection /\ UNCHANGED disturbances)
  /\ WF_liveVars(ClientReconnects /\ UNCHANGED disturbances)

-----------------------------------------------------------------------------

\* Both ends on one connection, deltas possible, the client up to date with
\* a state it and the authority agree on.
InService ==
  /\ bound /\ client_connection = connection
  /\ DeltaEligible(authority)
  /\ client.synchronized
=============================================================================
