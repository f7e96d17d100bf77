---------------------------- MODULE AuthorityInput ----------------------------
(***************************************************************************)
(* Participant input at the authority (input/authority.rs), over the       *)
(* session that says who may be heard: a window of target ticks for every  *)
(* participant, the batches accepted in it, and what they use of the       *)
(* participant's and of the shared limits.                                 *)
(*                                                                         *)
(* A batch that is refused - unauthorized, stale, repeated, conflicting,   *)
(* beyond the window or beyond the limits - changes nothing and is no step.*)
(* The host reconciles with the session when it pleases: until then the    *)
(* input of a participant whose membership has ended is still held.        *)
(***************************************************************************)
EXTENDS Session

CONSTANTS
  Batches,            \* input batches
  BatchBytes,         \* their accounted sizes
  MaxTargetTick,      \* bound on the target ticks
  InputLimits,        \* AuthorityInputLimits of every participant
  SharedInputLimits   \* AuthorityInputAggregateLimits

\* AuthorityInputLimits::new refuses a batch above the participant's budget.
ASSUME AuthorityInputAssumption ==
  /\ MaxTargetTick \in Nat
  /\ BatchBytes \in [Batches -> Nat]
  /\ InputLimits \in [batch_bytes : Nat \ {0}, keys : Nat \ {0}, bytes : Nat \ {0}, span : Nat]
  /\ InputLimits.batch_bytes <= InputLimits.bytes
  /\ SharedInputLimits \in [keys : Nat \ {0}, bytes : Nat \ {0}]

VARIABLES
  inputs,          \* participants: participant -> window, batches and their bytes
  retained_keys,   \* what all participants retain, counted by hand
  retained_bytes,
  accepted         \* history: the <<participant, tick>> keys ever accepted

inputVars == <<inputs, retained_keys, retained_bytes, accepted>>

TargetTick == 0 .. MaxTargetTick

Window == {w \in [minimum : TargetTick, maximum : TargetTick] : w.minimum <= w.maximum}

Span(w) == w.maximum - w.minimum

\* A participant just configured retains nothing.
NewParticipantInput(w) == [window |-> w, retained |-> EmptyMap, bytes |-> 0]

InputInit ==
  /\ Init
  /\ inputs = EmptyMap
  /\ retained_keys = 0 /\ retained_bytes = 0
  /\ accepted = {}

-----------------------------------------------------------------------------

AddParticipant(p, w) ==
  /\ p \in Live
  /\ p \notin DOMAIN inputs
  /\ Span(w) <= InputLimits.span
  /\ inputs' = Put(inputs, p, NewParticipantInput(w))
  /\ UNCHANGED <<vars, retained_keys, retained_bytes, accepted>>

BytesAt(retained, ticks) == SumFunction([t \in ticks |-> BatchBytes[retained[t]]])

\* What a set of participants holds, by the counters of each.
KeysOf(ps) == SumFunction([p \in ps |-> Cardinality(DOMAIN inputs[p].retained)])
BytesOf(ps) == SumFunction([p \in ps |-> inputs[p].bytes])

\* Mutant of Advances: only the maximum must not go back.
AdvancesMaximum(old, new) == old.maximum <= new.maximum /\ Span(new) <= InputLimits.span

Advances(old, new) ==
  /\ old.minimum <= new.minimum
  /\ old.maximum <= new.maximum
  /\ Span(new) <= InputLimits.span

\* Every batch below the new minimum is released.
AdvanceWindow(p, w) ==
  /\ p \in DOMAIN inputs
  /\ Advances(inputs[p].window, w)
  /\ LET retained == inputs[p].retained
         closed == {t \in DOMAIN retained : t < w.minimum}
         freed == BytesAt(retained, closed)
     IN /\ inputs' = Put(inputs, p, [window |-> w, retained |-> Drop(retained, closed),
                                     bytes |-> inputs[p].bytes - freed])
        /\ retained_keys' = retained_keys - Cardinality(closed)
        /\ retained_bytes' = retained_bytes - freed
  /\ UNCHANGED <<vars, accepted>>

\* Mutant of ReconcileMemberships: the shared counters keep what was held.
ReconcileWithoutRelease ==
  /\ inputs' = Drop(inputs, DOMAIN inputs \ Live)
  /\ UNCHANGED <<vars, retained_keys, retained_bytes, accepted>>

\* Input of the participants whose membership has ended is released.
ReconcileMemberships ==
  LET ended == DOMAIN inputs \ Live
  IN /\ inputs' = Drop(inputs, ended)
     /\ retained_keys' = retained_keys - KeysOf(ended)
     /\ retained_bytes' = retained_bytes - BytesOf(ended)
     /\ UNCHANGED <<vars, accepted>>

\* Room for one more batch, at the participant and in the shared limits.
IsAdmitted(p, b) ==
  /\ BatchBytes[b] <= InputLimits.batch_bytes
  /\ Cardinality(DOMAIN inputs[p].retained) < InputLimits.keys
  /\ retained_keys < SharedInputLimits.keys
  /\ inputs[p].bytes + BatchBytes[b] <= InputLimits.bytes
  /\ retained_bytes + BatchBytes[b] <= SharedInputLimits.bytes

\* submit, up to InputAccepted.
Submit(p, c, t, b) ==
  /\ IsAuthorized(p, c)
  /\ p \in DOMAIN inputs
  /\ inputs[p].window.minimum <= t /\ t <= inputs[p].window.maximum
  /\ t \notin DOMAIN inputs[p].retained
  /\ IsAdmitted(p, b)
  /\ inputs' = Put(inputs, p, [inputs[p] EXCEPT !.retained = Put(@, t, b),
                                                !.bytes = @ + BatchBytes[b]])
  /\ retained_keys' = retained_keys + 1
  /\ retained_bytes' = retained_bytes + BatchBytes[b]
  /\ accepted' = accepted \cup {<<p, t>>}
  /\ UNCHANGED vars

InputStep ==
  \/ \E p \in Participants, w \in Window : AddParticipant(p, w) \/ AdvanceWindow(p, w)
  \/ ReconcileMemberships
  \/ \E p \in Participants, c \in Connections, t \in TargetTick, b \in Batches :
       Submit(p, c, t, b)

InputNext == (Next /\ UNCHANGED inputVars) \/ InputStep

InputSpec == InputInit /\ [][InputNext]_<<vars, inputVars>>
-----------------------------------------------------------------------------

\* The counters that submit, advance_window and reconcile_memberships keep by hand
\* are exact, for every participant and for all, within both limits, and what is
\* retained lies in the window: no subtraction of the code can fail.
InputsAreAccounted ==
  /\ DOMAIN inputs \subseteq used_participants
  /\ \A p \in DOMAIN inputs :
       LET i == inputs[p]
       IN /\ i.window \in Window /\ Span(i.window) <= InputLimits.span
          /\ DOMAIN i.retained \subseteq i.window.minimum .. i.window.maximum
          /\ i.bytes = BytesAt(i.retained, DOMAIN i.retained)
          /\ i.bytes <= InputLimits.bytes
          /\ Cardinality(DOMAIN i.retained) <= InputLimits.keys
  /\ retained_keys = KeysOf(DOMAIN inputs)
  /\ retained_bytes = BytesOf(DOMAIN inputs)
  /\ retained_keys <= SharedInputLimits.keys
  /\ retained_bytes <= SharedInputLimits.bytes

\* The host is given a batch for one participant and tick at most once, and never
\* another in its place, however windows move, connections are replaced, memberships
\* end and evidence is released (spec/prediction/reconciliation.md, at most once).
KeysAreAcceptedOnce ==
  [][\A p \in DOMAIN inputs' :
       LET before == IF p \in DOMAIN inputs THEN inputs[p].retained ELSE EmptyMap
           after == inputs'[p].retained
       IN \A t \in DOMAIN after :
            IF t \in DOMAIN before THEN after[t] = before[t] ELSE <<p, t>> \notin accepted
    ]_<<vars, inputVars>>
=============================================================================
