---------------------------- MODULE TripleFrames ----------------------------
(***************************************************************************)
(* What a triple_buffer is to the rest of robotkernel: three frames of     *)
(* which the provider has one and the consumer one, and which are          *)
(* exchanged in one step.  The lock-free code of TripleBuffer implements   *)
(* it, and ProcessData is built on it: it says, unlike LatestValue, which  *)
(* frame the provider goes on with after a push.                           *)
(***************************************************************************)
CONSTANTS Fields,   \* the members of the process data
          Values    \* what a member may hold

VARIABLES backFrame,     \* the frame the provider is filling
          flipFrame,     \* the one between the two
          frontFrame,    \* the frame the consumer works on
          fresh          \* flipFrame has not been taken by the consumer yet

vars == <<backFrame, flipFrame, frontFrame, fresh>>

Init ==
  /\ frontFrame \in [Fields -> Values]
  /\ backFrame = frontFrame /\ flipFrame = frontFrame
  /\ fresh = FALSE

(* The provider stores one member of the frame it fills. *)
Store(f, v) ==
  /\ backFrame' = [backFrame EXCEPT ![f] = v]
  /\ UNCHANGED <<flipFrame, frontFrame, fresh>>

(* swap_back. *)
Push ==
  /\ backFrame' = flipFrame /\ flipFrame' = backFrame
  /\ fresh' = TRUE
  /\ UNCHANGED frontFrame

(* swap_front, when there is a new frame. *)
Pop ==
  /\ fresh
  /\ frontFrame' = flipFrame /\ flipFrame' = frontFrame
  /\ fresh' = FALSE
  /\ UNCHANGED backFrame

Next == Push \/ Pop \/ \E f \in Fields, v \in Values : Store(f, v)

Spec == Init /\ [][Next]_vars
=============================================================================
