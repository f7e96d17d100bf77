--------------------------- MODULE FlowLifecycle ---------------------------
(***************************************************************************)
(* The life of one flow between two ends, free of frames, slots, streams   *)
(* and datagrams. One end asks for the flow, the other refuses or admits   *)
(* it; only an admitted flow opens at the end that asked, also when the    *)
(* other has ended it since. Messages are accepted while the opener has    *)
(* the flow and exposed while the acceptor has it, as its mode allows.     *)
(* Nothing that is over begins again.                                      *)
(***************************************************************************)
EXTENDS Integers, Sequences

VARIABLES
  mode,        \* "None" until the flow is asked for
  opener,      \* "Fresh", "Asking", "Open", "Refused", "Over"
  acceptor,    \* "Fresh", "Deciding", "Open", "Refused", "Over"
  accepted,    \* how many messages were accepted: 1 .. accepted
  exposed      \* the messages exposed, in order

Init ==
  /\ mode = "None"
  /\ opener = "Fresh" /\ acceptor = "Fresh"
  /\ accepted = 0 /\ exposed = <<>>

AskFor(m) ==
  /\ opener = "Fresh"
  /\ opener' = "Asking" /\ mode' = m
  /\ UNCHANGED <<acceptor, accepted, exposed>>

Consider ==
  /\ opener # "Fresh" /\ acceptor = "Fresh"
  /\ acceptor' = "Deciding"
  /\ UNCHANGED <<mode, opener, accepted, exposed>>

Admit ==
  /\ acceptor = "Deciding"
  /\ acceptor' = "Open"
  /\ UNCHANGED <<mode, opener, accepted, exposed>>

Refuse ==
  /\ opener # "Fresh" /\ acceptor \in {"Fresh", "Deciding"}
  /\ acceptor' = "Refused"
  /\ UNCHANGED <<mode, opener, accepted, exposed>>

Establish ==
  /\ opener = "Asking" /\ acceptor \in {"Open", "Over"}
  /\ opener' = "Open"
  /\ UNCHANGED <<mode, acceptor, accepted, exposed>>

LearnRefusal ==
  /\ opener = "Asking" /\ acceptor = "Refused"
  /\ opener' = "Refused"
  /\ UNCHANGED <<mode, acceptor, accepted, exposed>>

EndOpener ==
  /\ opener \in {"Asking", "Open"}
  /\ opener' = "Over"
  /\ UNCHANGED <<mode, acceptor, accepted, exposed>>

EndAcceptor ==
  /\ acceptor = "Open"
  /\ acceptor' = "Over"
  /\ UNCHANGED <<mode, opener, accepted, exposed>>

Accept ==
  /\ opener = "Open"
  /\ accepted' = accepted + 1
  /\ UNCHANGED <<mode, opener, acceptor, exposed>>

MayExpose(n) ==
  /\ mode = "ReliableOrdered" => n = Len(exposed) + 1
  /\ mode = "UnreliableSequenced" => exposed = <<>> \/ exposed[Len(exposed)] < n
  /\ mode = "UnreliableUnordered" => n \notin {exposed[i] : i \in DOMAIN exposed}

Expose(n) ==
  /\ acceptor = "Open"
  /\ MayExpose(n)
  /\ exposed' = Append(exposed, n)
  /\ UNCHANGED <<mode, opener, acceptor, accepted>>

Next ==
  \/ \E m \in {"ReliableOrdered", "UnreliableUnordered", "UnreliableSequenced"} : AskFor(m)
  \/ Consider \/ Admit \/ Refuse
  \/ Establish \/ LearnRefusal
  \/ EndOpener \/ EndAcceptor
  \/ Accept
  \/ \E n \in 1 .. accepted : Expose(n)

vars == <<mode, opener, acceptor, accepted, exposed>>

Spec == Init /\ [][Next]_vars
=============================================================================
