--------------------------- MODULE MCProcessData ---------------------------
(* An instance of ProcessData: each kind of buffer, with a description in   *)
(* which all types are known, or one with an unknown type first, last or   *)
(* between the two members, so that a push throws at the second override   *)
(* with the first one applied.                                             *)
EXTENDS ProcessData

CONSTANTS pos, vel

Names  == <<pos, vel>>
Known  == << <<pos, 2>>, <<vel, 2>> >>
Mixed  == << <<vel, 0>>, <<pos, 2>> >>
Mixed2 == << <<pos, 2>>, <<vel, 0>> >>
Hidden == << <<pos, 2>>, <<"raw", 0>>, <<vel, 2>> >>

AllForms == {[kind |-> "triple", members |-> Known], [kind |-> "triple", members |-> Mixed2],
             [kind |-> "triple", members |-> Hidden], [kind |-> "single", members |-> Hidden],
             [kind |-> "single", members |-> Mixed], [kind |-> "pointer", members |-> Known]}
Triple   == {[kind |-> "triple", members |-> Known]}
=============================================================================
