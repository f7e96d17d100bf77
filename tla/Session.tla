------------------------------- MODULE Session -------------------------------
(***************************************************************************)
(* The session of runen-net (session.rs): admission of participants,       *)
(* binding of participants to established connections, loss with bounded   *)
(* retention, replacement, expiry on the host's recovery clock, closing.   *)
(*                                                                         *)
(* A failed operation returns an error and changes nothing, so only the    *)
(* succeeding outcomes are actions. The one failure of the code that does  *)
(* change state, bind_replacement dropping an overdue membership, needs a  *)
(* retained membership whose expiry has passed: NoOverdueMembership shows  *)
(* that there is none.                                                     *)
(***************************************************************************)
EXTENDS Integers, FiniteSets, PartialMaps

CONSTANTS
  Participants,       \* participant identities the host may admit
  Connections,        \* handles of connections whose negotiation is established
  NoConnection,       \* Option::None for a connection handle
  MaxMemberships,     \* SessionLimits::max_memberships
  MaxIncarnations,    \* SessionLimits::max_participant_incarnations
  MaxTime             \* the greatest RecoveryTime (u64::MAX in the code)

ASSUME SessionAssumption ==
  /\ NoConnection \notin Connections
  /\ Connections \cap {"Fresh", "Unbound", "Ended"} = {}
  /\ MaxMemberships \in Nat \ {0}
  /\ MaxIncarnations \in Nat \ {0}
  /\ MaxTime \in Nat

VARIABLES
  phase,               \* "Open" or "Closed"
  recovery_clock,
  used_participants,   \* identities ever admitted; never released
  memberships,         \* participant -> membership record
  bindings             \* connection -> participant

vars == <<phase, recovery_clock, used_participants, memberships, bindings>>

Time == 0 .. MaxTime
Duration == 1 .. MaxTime          \* RecoveryDuration is non-zero

\* connection = NoConnection is MembershipState::Unbound{expires_at}.
Bound(c) ==
  [connection |-> c, expires_at |-> 0, previous_connection |-> NoConnection]

Unbound(expiry, lost) ==
  [connection |-> NoConnection, expires_at |-> expiry, previous_connection |-> lost]

Membership ==
  [connection : Connections \cup {NoConnection}, expires_at : Time,
   previous_connection : Connections \cup {NoConnection}]

Live == DOMAIN memberships
IsBound(p) == p \in Live /\ memberships[p].connection # NoConnection
IsUnbound(p) == p \in Live /\ memberships[p].connection = NoConnection

\* May traffic received on connection c be taken as participant p's?
IsAuthorized(p, c) ==
  /\ c \in DOMAIN bindings /\ bindings[c] = p
  /\ p \in Live /\ memberships[p].connection = c

TypeOK ==
  /\ phase \in {"Open", "Closed"}
  /\ recovery_clock \in Time
  /\ used_participants \subseteq Participants
  /\ Live \subseteq Participants
  /\ memberships \in [Live -> Membership]
  /\ DOMAIN bindings \subseteq Connections
  /\ bindings \in [DOMAIN bindings -> Participants]

Init ==
  /\ phase = "Open"
  /\ recovery_clock = 0
  /\ used_participants = {}
  /\ memberships = EmptyMap
  /\ bindings = EmptyMap

\* Mutant of AdmitNew: only live participants count as used.
AdmitAgain(p, c) ==
  /\ phase = "Open"
  /\ Cardinality(Live) < MaxMemberships
  /\ c \notin DOMAIN bindings
  /\ p \notin Live
  /\ used_participants' = used_participants \cup {p}
  /\ bindings' = Put(bindings, c, p)
  /\ memberships' = Put(memberships, p, Bound(c))
  /\ UNCHANGED <<phase, recovery_clock>>

AdmitNew(p, c) ==
  /\ phase = "Open"
  /\ Cardinality(Live) < MaxMemberships
  /\ c \notin DOMAIN bindings
  /\ p \notin used_participants
  /\ Cardinality(used_participants) < MaxIncarnations
  /\ used_participants' = used_participants \cup {p}
  /\ bindings' = Put(bindings, c, p)
  /\ memberships' = Put(memberships, p, Bound(c))
  /\ UNCHANGED <<phase, recovery_clock>>

\* connection_lost under RetentionPolicy::Terminate.
LoseTerminate(p, c) ==
  /\ phase = "Open"
  /\ IsAuthorized(p, c)
  /\ bindings' = Drop(bindings, {c})
  /\ memberships' = Drop(memberships, {p})
  /\ UNCHANGED <<phase, recovery_clock, used_participants>>

\* Mutant of LoseRetain: the range of the recovery clock is not checked.
LoseRetainUnchecked(p, c, duration) ==
  /\ phase = "Open"
  /\ IsAuthorized(p, c)
  /\ bindings' = Drop(bindings, {c})
  /\ memberships' = Put(memberships, p, Unbound(recovery_clock + duration, c))
  /\ UNCHANGED <<phase, recovery_clock, used_participants>>

\* connection_lost under RetentionPolicy::RetainForRecovery; an expiry beyond
\* the clock's range is refused.
LoseRetain(p, c, duration) ==
  /\ phase = "Open"
  /\ IsAuthorized(p, c)
  /\ recovery_clock + duration <= MaxTime
  /\ bindings' = Drop(bindings, {c})
  /\ memberships' = Put(memberships, p, Unbound(recovery_clock + duration, c))
  /\ UNCHANGED <<phase, recovery_clock, used_participants>>

\* Mutant of BindReplacement: the connection may be bound already.
BindTakenConnection(p, c) ==
  /\ phase = "Open"
  /\ IsUnbound(p)
  /\ bindings' = Put(bindings, c, p)
  /\ memberships' = Put(memberships, p, Bound(c))
  /\ UNCHANGED <<phase, recovery_clock, used_participants>>

\* Mutant of BindReplacement: the membership may still be Bound, its old
\* binding is released on the way.
BindWithoutLoss(p, c) ==
  /\ phase = "Open"
  /\ c \notin DOMAIN bindings
  /\ p \in Live
  /\ bindings' = Put(Drop(bindings, {memberships[p].connection}), c, p)
  /\ memberships' = Put(memberships, p, Bound(c))
  /\ UNCHANGED <<phase, recovery_clock, used_participants>>

BindReplacement(p, c) ==
  /\ phase = "Open"
  /\ c \notin DOMAIN bindings
  /\ IsUnbound(p)
  /\ recovery_clock < memberships[p].expires_at
  /\ memberships[p].previous_connection # c
  /\ bindings' = Put(bindings, c, p)
  /\ memberships' = Put(memberships, p, Bound(c))
  /\ UNCHANGED <<phase, recovery_clock, used_participants>>

RemoveParticipant(p) ==
  /\ phase = "Open"
  /\ p \in Live
  /\ memberships' = Drop(memberships, {p})
  /\ bindings' = Drop(bindings, {memberships[p].connection})
  /\ UNCHANGED <<phase, recovery_clock, used_participants>>

\* Mutant of Expired: a membership survives the very time it expires at.
ExpiredBefore(now) ==
  {p \in Live : IsUnbound(p) /\ memberships[p].expires_at < now}

Expired(now) ==
  {p \in Live : IsUnbound(p) /\ memberships[p].expires_at <= now}

AdvanceRecoveryClock(now) ==
  /\ phase = "Open"
  /\ recovery_clock <= now
  /\ recovery_clock' = now
  /\ memberships' = Drop(memberships, Expired(now))
  /\ UNCHANGED <<phase, used_participants, bindings>>

Close ==
  /\ phase' = "Closed"
  /\ bindings' = EmptyMap
  /\ memberships' = EmptyMap
  /\ UNCHANGED <<recovery_clock, used_participants>>

ConnectionLost(p, c) ==
  \/ LoseTerminate(p, c)
  \/ \E d \in Duration : LoseRetain(p, c, d)

Next ==
  \/ \E p \in Participants, c \in Connections :
       \/ AdmitNew(p, c)
       \/ ConnectionLost(p, c)
       \/ BindReplacement(p, c)
  \/ \E p \in Participants : RemoveParticipant(p)
  \/ \E now \in Time : AdvanceRecoveryClock(now)
  \/ Close

Spec == Init /\ [][Next]_vars
-----------------------------------------------------------------------------

\* The two tables of the session agree: a connection is bound to a participant
\* exactly when that participant's membership is Bound to the connection
\* (session.rs keeps both by hand in every operation).
BindingsAgree ==
  /\ \A c \in DOMAIN bindings : IsAuthorized(bindings[c], c)
  /\ \A p \in Live : IsBound(p) => IsAuthorized(p, memberships[p].connection)

\* No retained membership is overdue: whenever the host may act, the recovery
\* clock is before the expiry of every Unbound membership, so an expired one
\* can never be rebound (advance_recovery_clock expires eagerly).
NoOverdueMembership ==
  \A p \in Live : IsUnbound(p) => recovery_clock < memberships[p].expires_at

\* A membership that has ended is never live again, whatever the order of
\* loss, removal, expiry and new admissions (ParticipantId is not reused).
MembershipEndsForGood ==
  [][\A p \in Participants :
       p \in used_participants /\ p \notin Live => p \notin Live']_vars

\* The session implements SessionContract: its tables and clock are one way
\* of keeping the status of each participant.
Status ==
  [p \in Participants |->
     IF p \notin used_participants THEN "Fresh"
     ELSE IF p \notin Live THEN "Ended"
     ELSE IF IsBound(p) THEN memberships[p].connection ELSE "Unbound"]

Contract == INSTANCE SessionContract WITH open <- phase = "Open", status <- Status

ImplementsContract == Contract!Spec
=============================================================================
