----------------------------- MODULE MCRegistry -----------------------------
(***************************************************************************)
(* An instance of Registry: a has a process data and an interface, b an    *)
(* interface and a process data with a's clock; clients call a service of  *)
(* a module and one of a handler by owner and name.                        *)
(***************************************************************************)
EXTENDS Registry

CONSTANTS a, b, sp

KindsOf == a :> {"pd", "interface"} @@ b :> {"pd", "interface"}
Clocks  == a :> a @@ b :> a

CalledServices == {<<a, "own">>, <<b, sp>>}
=============================================================================
