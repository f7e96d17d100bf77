--------------------------- MODULE ReplicaContract ---------------------------
(***************************************************************************)
(* What state replication promises, free of snapshots, baselines, losses   *)
(* and recovery: the authority publishes numbered states, the participant  *)
(* shows one published state after another, never an older one and never   *)
(* one nobody published, and the authority believes the participant holds  *)
(* a state only when it has shown it.                                      *)
(***************************************************************************)
EXTENDS Integers, PartialMaps

CONSTANTS Cursors, Ticks, States

VARIABLES
  published,     \* cursor -> tick and state
  shown,         \* the cursors the participant has shown
  view,          \* what it shows now: cursor, tick and state
  confirmed      \* the cursor the authority believes it holds, 0 if none

Nothing == [cursor |-> 0]

Init ==
  /\ published = EmptyMap
  /\ shown = {}
  /\ view = Nothing
  /\ confirmed = 0

Publish(c, t, s) ==
  /\ \A d \in DOMAIN published : d < c /\ published[d].tick <= t
  /\ published' = Put(published, c, [tick |-> t, image |-> s])
  /\ UNCHANGED <<shown, view, confirmed>>

Show(c) ==
  /\ c \in DOMAIN published
  /\ view.cursor < c
  /\ view' = [cursor |-> c, tick |-> published[c].tick, image |-> published[c].image]
  /\ shown' = shown \cup {c}
  /\ UNCHANGED <<published, confirmed>>

Confirm(c) ==
  /\ c \in shown
  /\ confirmed < c
  /\ confirmed' = c
  /\ UNCHANGED <<published, shown, view>>

Next ==
  \/ \E c \in Cursors, t \in Ticks, s \in States : Publish(c, t, s)
  \/ \E c \in Cursors : Show(c) \/ Confirm(c)

vars == <<published, shown, view, confirmed>>

Spec == Init /\ [][Next]_vars
=============================================================================
