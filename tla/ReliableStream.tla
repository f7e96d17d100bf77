--------------------------- MODULE ReliableStream ---------------------------
(***************************************************************************)
(* The stream of a reliable flow and what either end keeps of it           *)
(* (quinn_binding.rs, reliable_driver.rs). The sender writes the flow's    *)
(* identifier, then its messages, then ends the stream; the receiver reads *)
(* them in that order. A reset may overtake what was written before it, a  *)
(* stop reaches the sender at any later time, and so does the transport's  *)
(* acknowledgement of an ended stream.                                     *)
(*                                                                         *)
(* A chunk is written and read as a whole: how a message is cut into       *)
(* segments, and the framing that restores it, are left out.               *)
(***************************************************************************)
EXTENDS Integers, Sequences

Header == [kind |-> "FlowId"]
Message(payload) == [kind |-> "Message", payload |-> payload]

\* A stream is acquired when the receiver has taken it from the connection.
NewStream == [data |-> <<>>, end |-> "Open", stopped |-> FALSE, acquired |-> FALSE]

\* The receiver learns of a stream by what is sent on it.
Arrives(s) == ~s.acquired /\ (s.data # <<>> \/ s.end # "Open")
Acquired(s) == [s EXCEPT !.acquired = TRUE]

\* poll_write_step, finish_reliable, reset_reliable: what comes after a stop is lost.
Written(s, chunk) == IF s.stopped THEN s ELSE [s EXCEPT !.data = Append(@, chunk)]
Finished(s) == [s EXCEPT !.end = "Fin"]
WasReset(s) == [s EXCEPT !.end = "Reset"]

\* poll_read_step, stop_reliable
Consumed(s) == [s EXCEPT !.data = Tail(@)]
Stopped(s) == [s EXCEPT !.stopped = TRUE, !.data = <<>>]

AtFin(s) == s.end = "Fin" /\ s.data = <<>>

-----------------------------------------------------------------------------
\* PendingOutboundOpen, then OutboundReliable: is the stream's header written, and
\* which message is next?
NewOutbound == [state |-> "Acquiring", header |-> FALSE, next |-> 0]
Bound(b) == [b EXCEPT !.state = "Writing"]
HeaderWritten(b) == [b EXCEPT !.header = TRUE]
MessageWritten(b) == [b EXCEPT !.next = @ + 1]
Finishing(b) == [b EXCEPT !.state = "Finishing"]

\* InboundReliable: is its flow known, which message is next, has the sender ended?
NewInbound == [associated |-> FALSE, next |-> 0, draining |-> FALSE]
Associated(b) == [b EXCEPT !.associated = TRUE]
MessageRead(b) == [b EXCEPT !.next = @ + 1]
Draining(b) == [b EXCEPT !.draining = TRUE]
=============================================================================
