---------------------------- MODULE ModuleStates ----------------------------
(***************************************************************************)
(* The state machine every robotkernel module implements: its states, the  *)
(* requests module::set_state (module.cpp) splits a transition into, and   *)
(* the hooks module_base::set_state (module_base.cpp) runs for a request.  *)
(* Both are switch statements over (from, to) whose cases fall through.    *)
(***************************************************************************)
EXTENDS Naturals, Sequences

init   == 1
preop  == 2
safeop == 4
op     == 8
boot   == 16
error  == 32768

States == {init, preop, safeop, op, boot, error}

(* The states in which devices are run, from the lowest; boot is as low as *)
(* init.                                                                   *)
Ladder == <<init, preop, safeop, op>>
Rung(s) == CASE s = op -> 4 [] s = safeop -> 3 [] s = preop -> 2 [] OTHER -> 1

(* module::set_state: the states requested of the module one after the     *)
(* other, up to the last; going down, safeop only when it is the target.   *)
Climb(from, to) == SubSeq(Ladder, Rung(from) + 1, Rung(to))

Descent(from, to) ==
  SubSeq(<<preop, init, boot>>,
         CASE from = init -> 3 [] from = preop -> 2 [] OTHER -> 1,
         CASE to = preop -> 1 [] to = init -> 2 [] OTHER -> 3)

(* Mutant of Known: the switch has no case error -> init. *)
KnownNotFromError(from, to) ==
  \/ from \in {init, preop, safeop, op} /\ to \in {init, preop, safeop, op, boot}
  \/ from = boot /\ to \in {init, preop, safeop, op}

(* A transition the switch does not name returns -1. *)
Known(from, to) ==
  \/ from = error /\ to = init
  \/ from \in {init, preop, safeop, op} /\ to \in {init, preop, safeop, op, boot}
  \/ from = boot /\ to \in {init, preop, safeop, op}

Requests(from, to) ==
  IF from = error \/ from = to \/ (from = op /\ to = safeop) THEN <<to>>
  ELSE IF from = boot THEN <<init>> \o Climb(init, to)
  ELSE IF from < to /\ to # boot THEN Climb(from, to)
  ELSE Descent(from, to)

(* module_base::set_state: the hooks set_state_<from>_2_<to> run for one   *)
(* request, as <<from, to>>.  A transition it does not name (any from or   *)
(* to error) runs none, nor does one between init and boot.                *)
ClimbHooks(from, to) ==
  [i \in 1 .. Rung(to) - Rung(from) |->
     <<Ladder[Rung(from) + i - 1], Ladder[Rung(from) + i]>>]

DescentHooks(from, to) ==
  [i \in 1 .. Rung(from) - Rung(to) |->
     <<Ladder[Rung(from) - i + 1], Ladder[Rung(from) - i]>>]

Hooks(from, to) ==
  IF error \in {from, to} THEN <<>>
  ELSE IF Rung(from) < Rung(to) THEN ClimbHooks(from, to)
  ELSE DescentHooks(from, to)
=============================================================================
