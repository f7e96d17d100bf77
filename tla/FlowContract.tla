---------------------------- MODULE FlowContract ----------------------------
(***************************************************************************)
(* What a delivery flow promises, free of queues, limits and transports:   *)
(* messages are accepted one after the other, and exposed at the other end *)
(* as the mode of the flow says - each exactly once and in order, or any,  *)
(* or never one older than the last. Either end may end the flow, for good.*)
(***************************************************************************)
EXTENDS Integers, Sequences

CONSTANT Messages

VARIABLES
  mode,        \* "None" until the flow is established
  accepted,    \* the messages accepted, in order; the i-th has index i - 1
  exposed,     \* the messages exposed with their indices, in order
  sending, receiving     \* are the ends of the flow alive?

Init ==
  /\ mode = "None"
  /\ accepted = <<>> /\ exposed = <<>>
  /\ sending = FALSE /\ receiving = FALSE

Open(m) ==
  /\ mode = "None"
  /\ mode' = m
  /\ sending' = TRUE /\ receiving' = TRUE
  /\ UNCHANGED <<accepted, exposed>>

Accept(message) ==
  /\ sending
  /\ accepted' = Append(accepted, message)
  /\ UNCHANGED <<mode, exposed, sending, receiving>>

MayExpose(i) ==
  /\ i < Len(accepted)
  /\ mode = "ReliableOrdered" => i = Len(exposed)
  /\ mode = "UnreliableSequenced" /\ exposed # <<>> => exposed[Len(exposed)].index < i

Expose(i) ==
  /\ receiving
  /\ MayExpose(i)
  /\ exposed' = Append(exposed, [index |-> i, payload |-> accepted[i + 1]])
  /\ UNCHANGED <<mode, accepted, sending, receiving>>

EndSending ==
  /\ sending' = FALSE
  /\ UNCHANGED <<mode, accepted, exposed, receiving>>

EndReceiving ==
  /\ receiving' = FALSE
  /\ UNCHANGED <<mode, accepted, exposed, sending>>

Next ==
  \/ \E m \in {"ReliableOrdered", "UnreliableUnordered", "UnreliableSequenced"} : Open(m)
  \/ \E message \in Messages : Accept(message)
  \/ \E i \in 0 .. Len(accepted) - 1 : Expose(i)
  \/ EndSending
  \/ EndReceiving

vars == <<mode, accepted, exposed, sending, receiving>>

Spec == Init /\ [][Next]_vars
=============================================================================
