------------------------------ MODULE MCSession ------------------------------
(***************************************************************************)
(* The session with a history variable: the connections each participant   *)
(* has lost.                                                               *)
(***************************************************************************)
EXTENDS Session

VARIABLE lost      \* <<participant, connection>> pairs that were bound once

MCInit == Init /\ lost = {}

MCNext ==
  /\ Next
  /\ lost' = lost \cup {<<p, c>> \in Participants \X Connections :
                          IsAuthorized(p, c) /\ ~IsAuthorized(p, c)'}

MCSpec == MCInit /\ [][MCNext]_<<vars, lost>>

\* "A replacement binding MUST NOT make traffic from the previous connection
\* valid again": no connection a participant has lost is authorized for it
\* again (bind_replacement remembers only the last one).
LostConnectionStaysLost ==
  \A p \in Participants, c \in Connections :
    <<p, c>> \in lost => ~IsAuthorized(p, c)
=============================================================================
