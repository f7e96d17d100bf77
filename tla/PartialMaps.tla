----------------------------- MODULE PartialMaps -----------------------------
(***************************************************************************)
(* Partial maps: functions whose domain grows and shrinks, the model of    *)
(* the HashMap and BTreeMap fields of the RunenNet endpoints.              *)
(***************************************************************************)
EXTENDS Functions

EmptyMap == [k \in {} |-> k]

\* insert: add the key k, or replace its value.
Put(m, k, v) == [x \in DOMAIN m \cup {k} |-> IF x = k THEN v ELSE m[x]]

\* remove: forget every key of ks.
Drop(m, ks) == Restrict(m, DOMAIN m \ ks)
=============================================================================
