---------------------------- MODULE LatestValue ----------------------------
(***************************************************************************)
(* What a process_data buffer promises its provider and its consumer: a    *)
(* register that always holds the frame pushed last, of which the consumer *)
(* takes a copy when it pops.  Frames that are pushed over before the      *)
(* consumer pops are lost on purpose.  Every step is atomic here; the      *)
(* module TripleBuffer implements it without a lock.                       *)
(***************************************************************************)
EXTENDS Naturals

CONSTANTS Fields,   \* the members of the process data
          Values    \* what a member may hold

VARIABLES scratch,  \* the frame the provider is filling
          latest,   \* the frame pushed last
          held,     \* the frame the consumer works on
          fresh     \* latest has not been taken by the consumer yet

vars == <<scratch, latest, held, fresh>>

Frames == [Fields -> Values]

Init ==
  /\ scratch \in Frames
  /\ latest \in Frames
  /\ held = latest
  /\ fresh = FALSE

(* The provider stores one member of the frame it fills. *)
Store(f, v) ==
  /\ scratch' = [scratch EXCEPT ![f] = v]
  /\ UNCHANGED <<latest, held, fresh>>

(* The provider publishes its frame and goes on with a recycled one, whose *)
(* content is not specified.                                               *)
Push ==
  /\ latest' = scratch
  /\ fresh' = TRUE
  /\ scratch' \in Frames
  /\ UNCHANGED held

(* The consumer takes the frame pushed last, once. *)
Pop ==
  /\ fresh
  /\ held' = latest
  /\ fresh' = FALSE
  /\ UNCHANGED <<scratch, latest>>

Next == Push \/ Pop \/ \E f \in Fields, v \in Values : Store(f, v)

Spec == Init /\ [][Next]_vars
=============================================================================
