--------------------------- MODULE SessionContract ---------------------------
(***************************************************************************)
(* What a session promises, free of its tables, clocks and limits: every   *)
(* participant identity lives at most one membership, a membership is      *)
(* Bound to one connection or Unbound, a connection speaks for at most one *)
(* participant, and a participant changes connection only through Unbound. *)
(***************************************************************************)
CONSTANTS Participants, Connections

VARIABLES
  open,      \* may the session still change?
  status     \* Participants -> Fresh, Unbound, Ended or the bound connection

Fresh   == "Fresh"
Unbound == "Unbound"
Ended   == "Ended"

Init ==
  /\ open = TRUE
  /\ status = [p \in Participants |-> Fresh]

\* A connection that speaks for nobody begins to speak for participant p.
Bind(p, c) ==
  /\ open
  /\ status[p] \in {Fresh, Unbound}
  /\ \A q \in Participants : status[q] # c
  /\ status' = [status EXCEPT ![p] = c]
  /\ UNCHANGED open

\* The bound connection of p is lost and the membership retained.
Retain(p) ==
  /\ open
  /\ status[p] \in Connections
  /\ status' = [status EXCEPT ![p] = Unbound]
  /\ UNCHANGED open

\* The memberships in S end, for good.
End(S) ==
  /\ open
  /\ \A p \in S : status[p] \in Connections \cup {Unbound}
  /\ status' = [p \in Participants |-> IF p \in S THEN Ended ELSE status[p]]
  /\ UNCHANGED open

Close ==
  /\ open' = FALSE
  /\ status' = [p \in Participants |->
                  IF status[p] \in Connections \cup {Unbound}
                  THEN Ended ELSE status[p]]

Next ==
  \/ \E p \in Participants, c \in Connections : Bind(p, c)
  \/ \E p \in Participants : Retain(p)
  \/ \E S \in SUBSET Participants : End(S)
  \/ Close

vars == <<open, status>>

Spec == Init /\ [][Next]_vars
=============================================================================
