----------------------------- MODULE Replication -----------------------------
(***************************************************************************)
(* One participant's state replication end to end: the authority's         *)
(* lineage, the client's lineage, and the connections between them.        *)
(*                                                                         *)
(* Snapshots, acknowledgements and demands for a full snapshot travel over *)
(* a connection that may lose, repeat, delay and reorder them: a message   *)
(* stays in its set, so it may be received never, once or several times,   *)
(* in any order. The connection itself may be lost and replaced; the two   *)
(* ends notice at different times.                                         *)
(***************************************************************************)
EXTENDS AuthorityLineage, ClientLineage

CONSTANT MaxConnections      \* bound on the replacements of the connection

ASSUME ReplicationAssumption == MaxConnections \in Nat \ {0}

Connection == 1 .. MaxConnections

VARIABLES
  authority,           \* the authority's lineage
  client,              \* the client's lineage
  connection,          \* the participant's latest connection at the authority
  bound,               \* is the participant Bound to it, or Unbound?
  client_connection,   \* the connection the client uses
  emitted,             \* history: cursor -> the snapshot emitted for it
  committed,           \* history: the cursors the client has committed
  snapshots,           \* <<connection, cursor>> of snapshots sent
  acks,                \* <<connection, cursor>> of acknowledgements sent
  demands              \* connections a full snapshot was demanded on

authorityVars == <<authority, emitted>>
clientVars == <<client, committed, client_connection>>
sessionVars == <<connection, bound>>
networkVars == <<snapshots, acks, demands>>
vars == <<authorityVars, clientVars, sessionVars, networkVars>>

TypeOK ==
  /\ authority \in Lineage
  /\ client \in Replica
  /\ connection \in Connection /\ client_connection \in Connection
  /\ bound \in BOOLEAN
  /\ DOMAIN emitted \subseteq Cursor
  /\ \A c \in DOMAIN emitted : emitted[c] \in Snapshot
  /\ committed \subseteq DOMAIN emitted
  /\ snapshots \subseteq Connection \X DOMAIN emitted
  /\ acks \subseteq Connection \X committed
  /\ demands \subseteq Connection

Init ==
  /\ authority = NewLineage
  /\ client = NewReplica
  /\ connection = 1 /\ client_connection = 1
  /\ bound = TRUE
  /\ emitted = EmptyMap
  /\ committed = {}
  /\ snapshots = {} /\ acks = {} /\ demands = {}

-----------------------------------------------------------------------------
(* The authority and its host                                              *)

\* The host supplies the state it wants replicated next, as a full snapshot ...
HostPreparesFull(cursor, tick, image, designate) ==
  /\ CanPrepareFull(authority, cursor, tick, image, designate)
  /\ authority' = PrepareFull(authority, cursor, tick, image, designate)
  /\ UNCHANGED <<emitted, clientVars, sessionVars, networkVars>>

\* ... or as a delta from the lineage's base.
HostPreparesDelta(cursor, tick, image) ==
  /\ CanPrepareDelta(authority, cursor, tick, image, 0)
  /\ authority' = PrepareDelta(authority, cursor, tick, image, 0)
  /\ UNCHANGED <<emitted, clientVars, sessionVars, networkVars>>

HostCancels ==
  /\ HasPending(authority)
  /\ authority' = CancelPending(authority)
  /\ UNCHANGED <<emitted, clientVars, sessionVars, networkVars>>

\* The wire form of a candidate; a delta is made against its base's image.
ToSnapshot(c) ==
  [kind |-> c.kind, base |-> c.base, cursor |-> c.cursor, tick |-> c.tick,
   from |-> IF c.kind = Delta THEN emitted[c.base].image ELSE c.image,
   image |-> c.image]

\* Delivery accepts the pending snapshot into a flow of the bound connection.
EmitSnapshot ==
  /\ bound
  /\ HasPending(authority)
  /\ authority' = Emit(authority)
  /\ emitted' = Put(emitted, authority.pending.cursor, ToSnapshot(authority.pending))
  /\ snapshots' = snapshots \cup {<<connection, authority.pending.cursor>>}
  /\ UNCHANGED <<clientVars, sessionVars, acks, demands>>

HostEvictsState(cursor) ==
  /\ CanEvictState(authority, cursor)
  /\ authority' = EvictState(authority, cursor)
  /\ UNCHANGED <<emitted, clientVars, sessionVars, networkVars>>

\* Mutant of IsAuthorized: traffic counts whatever connection it came on.
IsAuthorizedAnywhere(c) == c \in Connection

\* Session::is_authorized: participant traffic counts only from the connection
\* the participant is bound to.
IsAuthorized(c) == bound /\ c = connection

ReceiveAck(c, cursor) ==
  /\ <<c, cursor>> \in acks
  /\ IsAuthorized(c)
  /\ CanConfirm(authority, cursor)
  /\ authority' = Confirm(authority, cursor)
  /\ UNCHANGED <<emitted, clientVars, sessionVars, networkVars>>

ReceiveDemand(c) ==
  /\ c \in demands
  /\ IsAuthorized(c)
  /\ CanRequireFull(authority)
  /\ authority' = StartRecovery(authority)
  /\ UNCHANGED <<emitted, clientVars, sessionVars, networkVars>>

-----------------------------------------------------------------------------
(* The connection                                                          *)

LoseConnection ==
  /\ bound
  /\ bound' = FALSE
  /\ UNCHANGED <<authorityVars, clientVars, connection, networkVars>>

\* Mutant of ReplaceConnection: the lineage is not told.
ReplaceConnectionOnly ==
  /\ ~bound
  /\ connection < MaxConnections
  /\ bound' = TRUE
  /\ connection' = connection + 1
  /\ UNCHANGED <<authorityVars, clientVars, networkVars>>

\* The retained participant is bound to a new connection and its lineage is
\* told before replication on that connection proceeds.
ReplaceConnection ==
  /\ ~bound
  /\ connection < MaxConnections
  /\ CanStartRecovery(authority)
  /\ bound' = TRUE
  /\ connection' = connection + 1
  /\ authority' = StartRecovery(authority)
  /\ UNCHANGED <<emitted, clientVars, networkVars>>

\* The client moves to the replacement (require_connection_replacement_full).
ClientReconnects ==
  /\ client_connection < connection
  /\ client_connection' = connection
  /\ client' = EnterRecovery(client)
  /\ UNCHANGED <<authorityVars, committed, sessionVars, networkVars>>

-----------------------------------------------------------------------------
(* The client and its host                                                 *)

Received(cursor) == <<client_connection, cursor>> \in snapshots

CommitFull(cursor) ==
  LET s == emitted[cursor]
  IN /\ s.kind = Full
     /\ CanCommitFull(client, s)
     /\ client' = Commit(client, s, s.image)
     /\ committed' = committed \cup {cursor}
     /\ UNCHANGED <<authorityVars, client_connection, sessionVars, networkVars>>

CommitDelta(cursor) ==
  LET s == emitted[cursor]
  IN /\ s.kind = Delta
     /\ \E image \in Images :
          /\ CanCommitDelta(client, s, image)
          /\ client' = Commit(client, s, image)
     /\ committed' = committed \cup {cursor}
     /\ UNCHANGED <<authorityVars, client_connection, sessionVars, networkVars>>

\* A delta without its base or against the tick order, and any delta whose
\* decoding, reconstruction or host commit fails, sends the client into recovery.
RejectDelta(cursor) ==
  LET s == emitted[cursor]
  IN /\ s.kind = Delta
     /\ ConsidersDelta(client, s)
     /\ client' = EnterRecovery(client)
     /\ UNCHANGED <<authorityVars, committed, client_connection, sessionVars, networkVars>>

ReceiveSnapshot(cursor) ==
  /\ Received(cursor)
  /\ CommitFull(cursor) \/ CommitDelta(cursor) \/ RejectDelta(cursor)

ClientEvictsHistory(cursor) ==
  /\ CanEvictHistorical(client, cursor)
  /\ client' = EvictHistorical(client, cursor)
  /\ UNCHANGED <<authorityVars, committed, client_connection, sessionVars, networkVars>>

\* Mutant of SendAck: a snapshot is acknowledged when it is received.
AckOnReceipt ==
  \E c \in Cursor :
    /\ Received(c)
    /\ acks' = acks \cup {<<client_connection, c>>}
    /\ UNCHANGED <<authorityVars, clientVars, sessionVars, snapshots, demands>>

\* acknowledgement_cursor: the client acknowledges its current cursor.
SendAck ==
  /\ client.current # NoCursor
  /\ acks' = acks \cup {<<client_connection, client.current>>}
  /\ UNCHANGED <<authorityVars, clientVars, sessionVars, snapshots, demands>>

DemandFull ==
  /\ ~client.synchronized
  /\ demands' = demands \cup {client_connection}
  /\ UNCHANGED <<authorityVars, clientVars, sessionVars, snapshots, acks>>

-----------------------------------------------------------------------------

AuthorityStep ==
  \/ \E cursor \in Cursor, tick \in Tick, image \in Images :
       \/ \E designate \in BOOLEAN : HostPreparesFull(cursor, tick, image, designate)
       \/ HostPreparesDelta(cursor, tick, image)
  \/ HostCancels
  \/ EmitSnapshot
  \/ \E cursor \in Cursor : HostEvictsState(cursor)
  \/ \E c \in Connection : ReceiveDemand(c)
  \/ \E c \in Connection, cursor \in Cursor : ReceiveAck(c, cursor)

ConnectionStep == LoseConnection \/ ReplaceConnection \/ ClientReconnects

ClientStep ==
  \/ \E cursor \in Cursor : ReceiveSnapshot(cursor) \/ ClientEvictsHistory(cursor)
  \/ SendAck
  \/ DemandFull

Next == AuthorityStep \/ ConnectionStep \/ ClientStep

Spec == Init /\ [][Next]_vars
-----------------------------------------------------------------------------

\* The client never loses what it shows: the current state is retained, is the
\* newest retained one and no older one has a later tick (plan_commit may
\* evict the state it replaces, and nothing else may).
CurrentIsRetained ==
  /\ client.current # NoCursor => client.current \in DOMAIN client.retained
  /\ \A c \in DOMAIN client.retained :
       c <= client.current /\ client.retained[c].tick <= CurrentTick(client)

\* Every state the client retains is, bit for bit, the state the authority
\* emitted at that cursor, whatever deltas it was rebuilt from and in whatever
\* order they came (exact-base reconstruction in apply_delta), and the one it
\* shows is among them.
ReplicaIsExact ==
  /\ \A c \in DOMAIN client.retained :
       /\ c \in DOMAIN emitted
       /\ client.retained[c] = [tick |-> emitted[c].tick, image |-> emitted[c].image]
  /\ CurrentIsRetained

\* The authority never takes a cursor for confirmed, nor builds a delta on one,
\* that the client has not committed, however late, repeated or reordered the
\* acknowledgements are.
DeltasBuildOnCommittedState ==
  /\ authority.latest_confirmed \in committed \cup {NoCursor}
  /\ authority.latest_confirmed <= client.current
  /\ \A c \in DOMAIN emitted :
       emitted[c].kind = Delta => emitted[c].base \in committed

\* After a replacement of the connection no delta is sent before the client has
\* committed a full snapshot sent on the new connection: an acknowledgement of
\* anything older never ends the recovery the replacement began.
FullFirst ==
  \A m \in snapshots :
    emitted[m[2]].kind = Delta =>
      \E n \in snapshots :
        /\ n[1] = m[1]
        /\ emitted[n[2]].kind = Full
        /\ n[2] \in committed
        /\ n[2] <= emitted[m[2]].base

\* No delta is built on, or sent over, what the client does not have.
DeltasFollowAFreshFull == DeltasBuildOnCommittedState /\ FullFirst

\* A client that requires a full snapshot moves on only by committing one
\* (DeltaBlockedByRecovery), and is synchronized again only by moving on.
RecoveryIsABarrier ==
  [][~client.synchronized =>
       /\ client'.current # client.current => emitted[client'.current].kind = Full
       /\ client'.synchronized => client'.current # client.current]_vars

\* Confirmation moves only on an acknowledgement from the connection the
\* participant is bound to at that moment, never on a late one from another.
OnlyTheBoundConnectionConfirms ==
  [][authority'.latest_confirmed # authority.latest_confirmed =>
       bound /\ <<connection, authority'.latest_confirmed>> \in acks]_vars

\* The whole exchange implements ReplicaContract.
Published ==
  [c \in DOMAIN emitted |-> [tick |-> emitted[c].tick, image |-> emitted[c].image]]

View ==
  IF client.current = NoCursor THEN [cursor |-> 0]
  ELSE [cursor |-> client.current, tick |-> client.retained[client.current].tick,
        image |-> client.retained[client.current].image]

Contract ==
  INSTANCE ReplicaContract
    WITH Cursors <- Cursor, Ticks <- Tick, States <- Images, published <- Published,
         shown <- committed, view <- View, confirmed <- authority.latest_confirmed

ImplementsContract == Contract!Spec
=============================================================================
