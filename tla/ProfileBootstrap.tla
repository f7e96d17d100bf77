-------------------------- MODULE ProfileBootstrap --------------------------
(***************************************************************************)
(* How a QUIC connection becomes one of the profile (lifecycle.rs,         *)
(* control.rs): the handshake runs, and each side sends its SETTINGS as    *)
(* the first frame of the control stream and reads the other's. A host may *)
(* drop the future it waits on, or the connection it got.                  *)
(*                                                                         *)
(* The module has the control stream and the state of the transport too,   *)
(* which the layers above go on using. ALPN and DATAGRAM support are those *)
(* both endpoints of this code configure and never differ.                 *)
(***************************************************************************)
EXTENDS Integers, FiniteSetsExt, Sequences

CONSTANTS
  Links,            \* connections, and their handles on both sides
  Dialer,           \* Dialer[l]: the side that connects
  Profiles,         \* Profiles[side][l]: LocalControlLimits a host may connect with
  NoBody,           \* the body of an acknowledgement
  NoSettings        \* Option::None for the peer's settings

Authority == "Authority"
NonAuthority == "NonAuthority"
Sides == {Authority, NonAuthority}
Other(side) == IF side = Authority THEN NonAuthority ELSE Authority

AllSettings == UNION {Profiles[side][l] : side \in Sides, l \in Links}

\* A connection is dialed from one side. LocalControlLimits are a role and counts.
ASSUME ProfileAssumption ==
  /\ Dialer \in [Links -> Sides]
  /\ AllSettings \subseteq
       [role : Sides, control_bytes : Nat, negotiation_bytes : Nat, flows : Nat,
        message_bytes : Nat]
  /\ NoSettings \notin AllSettings

Frame(type, body) == [type |-> type, body |-> body]

VARIABLES
  setup,   \* setup[side][l]: how far a side has come with a connection
  wire,    \* wire[side][l]: frames from side the other has not read
  open     \* open[l]: whether the transport lives

\* A side is Breached when it found the other to break the profile.
SetupPhase == {"None", "Handshaking", "AwaitingSettings", "Ready", "Closed", "Breached"}

Setup(phase, local) == [phase |-> phase, local |-> local, peer |-> NoSettings]

Bootstrapping == {"Handshaking", "AwaitingSettings"}

BootstrapInit ==
  /\ setup = [side \in Sides |-> [l \in Links |-> Setup("None", NoSettings)]]
  /\ wire = [side \in Sides |-> [l \in Links |-> <<>>]]
  /\ open = [l \in Links |-> FALSE]

-----------------------------------------------------------------------------
(* Limits                                                                  *)

MaxSettingsBodyBytes == 33
MinOfferBodyBytes == 35

\* Settings::validate, but for the ceilings of the encoding (2^60 and above).
IsValidSettings(s) ==
  /\ s.control_bytes >= MaxSettingsBodyBytes
  /\ s.negotiation_bytes \in MinOfferBodyBytes..s.control_bytes
  /\ s.flows > 0
  /\ s.message_bytes > 0

\* LocalControlLimits::validate asks of a host's own limits what it asks of a peer's.
IsUsable(limits) == IsValidSettings(limits)

Smaller(m, n) == IF m <= n THEN m ELSE n

\* Mutant of FrameLimit: the peer's limit is forgotten.
OwnFrameLimit(side, l) == setup[side][l].local.negotiation_bytes

\* max_negotiation_frame_bytes of the exchange; validate_outbound_body, whose bound
\* on every frame is no smaller.
FrameLimit(side, l) ==
  Smaller(setup[side][l].local.negotiation_bytes, setup[side][l].peer.negotiation_bytes)

\* validate_inbound_body_length
MayRead(side, l, bytes) == bytes <= setup[side][l].local.negotiation_bytes

-----------------------------------------------------------------------------
(* Transport                                                               *)

\* connect_profile_ready; with unusable limits nothing happens.
Connect(l) ==
  LET side == Dialer[l]
  IN /\ setup[side][l].phase = "None"
     /\ \E s \in Profiles[side][l] :
          /\ IsUsable(s)
          /\ setup' = [setup EXCEPT ![side][l] = Setup("Handshaking", s)]
     /\ open' = [open EXCEPT ![l] = TRUE]
     /\ UNCHANGED wire

\* accept_profile_ready
Accept(l) ==
  LET side == Other(Dialer[l])
  IN /\ setup[side][l].phase = "None" /\ open[l]
     /\ \E s \in Profiles[side][l] :
          /\ IsUsable(s)
          /\ setup' = [setup EXCEPT ![side][l] = Setup("Handshaking", s)]
     /\ UNCHANGED <<wire, open>>

-----------------------------------------------------------------------------
(* The control stream                                                      *)

\* The dialer's stream opens when the handshake is done; the other side gets it with
\* the first frame on it.
HasControlStream(side, l) ==
  IF side = Dialer[l] THEN setup[Other(side)][l].phase # "None"
  ELSE wire[Other(side)][l] # <<>>

\* send_local_settings, after open_bi or accept_bi
SendSettings(side, l) ==
  /\ setup[side][l].phase = "Handshaking" /\ open[l]
  /\ HasControlStream(side, l)
  /\ wire' = [wire EXCEPT ![side][l] = Append(@, Frame("Settings", setup[side][l].local))]
  /\ setup' = [setup EXCEPT ![side][l].phase = "AwaitingSettings"]
  /\ UNCHANGED open

\* validate_inbound_type, Settings::decode, receive_settings
IsProperSettings(frame, local) ==
  /\ frame.type = "Settings"
  /\ IsValidSettings(frame.body)
  /\ frame.body.role = Other(local.role)

\* receive_peer_settings; what is not proper closes the connection.
ReceiveSettings(side, l) ==
  /\ setup[side][l].phase = "AwaitingSettings"
  /\ wire[Other(side)][l] # <<>>
  /\ LET frame == Head(wire[Other(side)][l])
     IN IF IsProperSettings(frame, setup[side][l].local)
        THEN /\ setup' = [setup EXCEPT ![side][l].phase = "Ready",
                                       ![side][l].peer = frame.body]
             /\ UNCHANGED open
        ELSE /\ setup' = [setup EXCEPT ![side][l].phase = "Breached"]
             /\ open' = [open EXCEPT ![l] = FALSE]
  /\ wire' = [wire EXCEPT ![Other(side)][l] = Tail(@)]

\* The handshake or a stream fails.
FailBootstrap(side, l) ==
  /\ setup[side][l].phase \in Bootstrapping /\ ~open[l]
  /\ setup' = [setup EXCEPT ![side][l].phase = "Closed"]
  /\ UNCHANGED <<wire, open>>

\* The host drops the future, or the connection before it is activated.
Abandon(side, l) ==
  /\ setup[side][l].phase \in Bootstrapping \cup {"Ready"}
  /\ setup' = [setup EXCEPT ![side][l].phase = "Closed"]
  /\ open' = [open EXCEPT ![l] = FALSE]
  /\ UNCHANGED wire

Bootstrap(side, l) ==
  SendSettings(side, l) \/ ReceiveSettings(side, l) \/ FailBootstrap(side, l)

-----------------------------------------------------------------------------
BootstrapTypeOK ==
  /\ setup \in [Sides -> [Links ->
       [phase : SetupPhase, local : AllSettings \cup {NoSettings},
        peer : AllSettings \cup {NoSettings}]]]
  /\ open \in [Links -> BOOLEAN]

\* Two ends never hold opposite views of a connection: one that got past the settings
\* has those the other side sent, in the opposite role (receive_settings).
SettingsAreExchanged ==
  \A side \in Sides, l \in Links :
    LET mine == setup[side][l]
    IN mine.peer # NoSettings =>
         /\ mine.peer = setup[Other(side)][l].local
         /\ mine.peer.role # mine.local.role

\* Hosts with opposite roles never take each other's first frame for a breach of the
\* profile.
NobodyBreaksTheBootstrap ==
  \A side \in Sides, l \in Links :
    setup[side][l].phase = "Breached" =>
      setup[side][l].local.role = setup[Other(side)][l].local.role
=============================================================================
