-------------------------- MODULE ReplicationModel --------------------------
(***************************************************************************)
(* What both ends of a replication lineage share (replication/model.rs):   *)
(* cursors, ticks, accounted state images, retention limits, and eviction  *)
(* of the oldest retained entry first.                                     *)
(*                                                                         *)
(* Cursors and ticks start at 1; 0 stands for Option::None, which the code *)
(* treats as below every value. An image is an uninterpreted state with a  *)
(* size.                                                                   *)
(***************************************************************************)
EXTENDS Integers, FiniteSets, FiniteSetsExt, PartialMaps

CONSTANTS
  MaxCursor, MaxTick,     \* bounds on the cursors and ticks the host supplies
  Images,                 \* replicated state images
  ImageBytes              \* their accounted sizes

Cursor == 1 .. MaxCursor
Tick == 1 .. MaxTick

NoCursor == 0
NoTick == 0

ASSUME ReplicationModelAssumption ==
  /\ MaxCursor \in Nat /\ MaxTick \in Nat
  /\ ImageBytes \in [Images -> Nat]

Full == "Full"
Delta == "Delta"

RetentionLimits ==
  [image_bytes : Nat \ {0}, images : Nat \ {0}, retained_bytes : Nat \ {0},
   candidate_bytes : Nat \ {0}, evidence : Nat \ {0}]

\* ReplicationRetentionLimits::new refuses any other limits.
ValidLimits(limits) ==
  /\ limits \in RetentionLimits
  /\ limits.image_bytes <= limits.retained_bytes
  /\ limits.image_bytes <= limits.candidate_bytes

\* Retained states: cursor -> tick and image.
Retention == UNION {[S -> [tick : Tick, image : Images]] : S \in SUBSET Cursor}

BytesOf(retained, cursors) ==
  SumFunction([c \in cursors |-> ImageBytes[retained[c].image]])

\* The counter retained_bytes of a lineage, which the code adjusts whenever it
\* inserts or removes an image.
RetainedBytes(l) == BytesOf(l.retained, DOMAIN l.retained)

ImageCount(l) == Cardinality(DOMAIN l.retained)

\* Room for one more image once the cursors in gone are evicted?
HasRoom(retained, gone, image, limits) ==
  LET kept == DOMAIN retained \ gone
  IN /\ Cardinality(kept) < limits.images
     /\ BytesOf(retained, kept) + ImageBytes[image] <= limits.retained_bytes

\* What an eviction loop removes that takes the oldest element of S first and
\* stops as soon as Fits holds of the removed elements: every element that is
\* still in the way at its turn (all of S when nothing ever fits).
EvictOldest(S, Fits(_)) ==
  {c \in S : \A x \in S : x <= c => ~Fits({d \in S : d < x})}
=============================================================================
