--------------------------- MODULE MCKernelState ---------------------------
(* Instances of KernelState: configurations of two or three modules. *)
EXTENDS KernelState

CONSTANTS a, b, c

Pair  == <<a, b>>
Three == <<a, b, c>>

None == a :> <<>> @@ b :> <<>> @@ c :> <<>>
AllTo(s) == [m \in {a, b, c} |-> s]

Config(deps, excl, up, fail) ==
  [depends |-> deps, excludes |-> excl, power_up |-> AllTo(up), mayFail |-> fail]

(* b depends on a, c on b. *)
Chain(fail) == Config(a :> <<>> @@ b :> <<a>> @@ c :> <<b>>, None, op, fail)
(* c depends on a; a and b exclude each other. *)
Either(fail) == Config(a :> <<>> @@ b :> <<>> @@ c :> <<a>>,
                       a :> <<b>> @@ b :> <<a>> @@ c :> <<>>, init, fail)
(* a and b depend on each other. *)
Cycle(fail) == Config(a :> <<b>> @@ b :> <<a>> @@ c :> <<>>, None, op, fail)
(* b and c depend on a. *)
Fork == Config(a :> <<>> @@ b :> <<a>> @@ c :> <<a>>, None, op, {})

Ordered == {Chain({a, b, c}), Either({a, b, c})}
Pairs   == {Chain({b}), Chain({}), Cycle({})}
Forked  == {Fork}
=============================================================================
