----------------------------- MODULE ModuleBase -----------------------------
(***************************************************************************)
(* One module whose state is changed by several threads of the kernel: the *)
(* main thread (power_up, state_check) and the threads of the bridges that *)
(* call its set_state service.  module::set_state reads the module's state *)
(* and asks it for one state after the other; module_base::set_state reads *)
(* it again, picks the hooks and runs each of them under state_mtx.        *)
(*                                                                         *)
(* Neither reading is protected by the mutex: a thread may act on a state  *)
(* that another one, or the module itself, has changed since.              *)
(***************************************************************************)
EXTENDS ModuleStates

CONSTANTS Callers,      \* threads that may call module::set_state
          Targets,      \* the states they ask for
          NoOne,        \* not a thread: nobody holds the mutex
          MaySignal     \* whether the module switches itself to error

ASSUME CallersAssumption   == Callers # {} /\ NoOne \notin Callers
ASSUME TargetsAssumption   == Targets \subseteq States
ASSUME MaySignalAssumption == MaySignal \in BOOLEAN

VARIABLES
  state,      \* module_base::state
  state_mtx,  \* who holds it, or NoOne
  pc,         \* per caller: "idle", "ask", "lock", "hook", "final"
  target,     \* per caller: what it called module::set_state with
  requests,   \* per caller: the requests still to be sent to the module
  hooks,      \* per caller: the hooks still to be run for the first of them
  result,     \* per caller: what its last call returned
  \* history, not in the code:
  level,      \* how far the hooks that have run have brought the module
  stale,      \* the callers since whose reading of the state a hook of
              \* another call has ended
  clean       \* no caller has acted on a stale reading, and the module has
              \* not signalled an error

vars == <<state, state_mtx, pc, target, requests, hooks, result, level, stale, clean>>

Hook == (States \X States)

Init ==
  /\ state = init
  /\ state_mtx = NoOne
  /\ pc = [t \in Callers |-> "idle"]
  /\ target = [t \in Callers |-> init]
  /\ requests = [t \in Callers |-> <<>>]
  /\ hooks = [t \in Callers |-> <<>>]
  /\ result = [t \in Callers |-> 0]
  /\ level = init /\ stale = {} /\ clean = TRUE

Goto(t, p) == pc' = [pc EXCEPT ![t] = p]

(* The call ends: 0 for success, -1 for a refused request. *)
Return(t, r) ==
  /\ Goto(t, "idle")
  /\ result' = [result EXCEPT ![t] = r]
  /\ requests' = [requests EXCEPT ![t] = <<>>]
  /\ hooks' = [hooks EXCEPT ![t] = <<>>]

(* module::set_state: read the state, choose the requests. *)
Call(t, to) ==
  /\ pc[t] = "idle"
  /\ target' = [target EXCEPT ![t] = to]
  /\ IF Known(state, to)
     THEN /\ Goto(t, "ask")
          /\ requests' = [requests EXCEPT ![t] = Requests(state, to)]
          /\ UNCHANGED <<hooks, result>>
     ELSE Return(t, 0 - 1)
  /\ UNCHANGED <<state, state_mtx, level, stale, clean>>

(* mod_set_state: module_base::set_state reads the state and chooses the   *)
(* hooks of the transition, before it takes the mutex.                     *)
Ask(t) ==
  /\ pc[t] = "ask"
  /\ LET hs == Hooks(state, Head(requests[t]))
     IN  /\ hooks' = [hooks EXCEPT ![t] = hs]
         /\ Goto(t, IF hs = <<>> THEN "final" ELSE "lock")
  /\ stale' = stale \ {t}
  /\ UNCHANGED <<state, state_mtx, target, requests, result, level, clean>>

(* What t does next rests on its reading of the state.  Once one of them   *)
(* has acted on a stale one, no other reading matters.                     *)
Acts(t) ==
  /\ clean' = (clean /\ t \notin stale)
  /\ stale' = IF t \in stale THEN {} ELSE stale

(* A hook has ended: what the others have read is not the state any more.  *)
Outdates(t) ==
  stale' = {u \in Callers \ {t} : clean /\ (u \in stale \/ pc[u] \in {"lock", "hook", "final"})}

(* Mutant of Lock: no lock_guard around the hook. *)
LockFree(t) ==
  /\ pc[t] = "lock"
  /\ state_mtx' = t
  /\ Goto(t, "hook") /\ Acts(t)
  /\ UNCHANGED <<state, target, requests, hooks, result, level>>

(* Take the mutex and start the next hook. *)
Lock(t) ==
  /\ pc[t] = "lock"
  /\ state_mtx = NoOne
  /\ state_mtx' = t
  /\ Goto(t, "hook") /\ Acts(t)
  /\ UNCHANGED <<state, target, requests, hooks, result, level>>

(* Mutant of HookDone: only the end of the request sets the state. *)
HookDoneNoState(t) ==
  /\ pc[t] = "hook"
  /\ level' = Head(hooks[t])[2]
  /\ state_mtx' = NoOne /\ Outdates(t)
  /\ hooks' = [hooks EXCEPT ![t] = Tail(hooks[t])]
  /\ Goto(t, IF Tail(hooks[t]) = <<>> THEN "final" ELSE "lock")
  /\ UNCHANGED <<state, target, requests, result, clean>>

(* The hook returns: its target becomes the state, the mutex is released.  *)
HookDone(t) ==
  /\ pc[t] = "hook"
  /\ state' = Head(hooks[t])[2]
  /\ level' = Head(hooks[t])[2]
  /\ state_mtx' = NoOne /\ Outdates(t)
  /\ hooks' = [hooks EXCEPT ![t] = Tail(hooks[t])]
  /\ Goto(t, IF Tail(hooks[t]) = <<>> THEN "final" ELSE "lock")
  /\ UNCHANGED <<target, requests, result, clean>>

(* Mutant of HookThrows: the exception is swallowed. *)
HookThrowsSwallowed(t) ==
  /\ pc[t] = "hook"
  /\ state_mtx' = NoOne
  /\ Return(t, 0)
  /\ UNCHANGED <<state, target, level, stale, clean>>

(* The hook throws: try_set_state returns module_state_error, which is not *)
(* the requested state, and module::set_state gives up.                    *)
HookThrows(t) ==
  /\ pc[t] = "hook"
  /\ state_mtx' = NoOne
  /\ Return(t, 0 - 1)
  /\ UNCHANGED <<state, target, level, stale, clean>>

(* Mutant of Final: a request that has been carried out is sent again. *)
FinalAsksAgain(t) ==
  /\ pc[t] = "final"
  /\ state' = Head(requests[t])
  /\ Goto(t, "ask") /\ Acts(t)
  /\ UNCHANGED <<state_mtx, target, requests, hooks, result, level>>

(* return (this->state = state), then the next request or the end. *)
Final(t) ==
  /\ pc[t] = "final" /\ Acts(t)
  /\ state' = Head(requests[t])
  /\ IF Tail(requests[t]) = <<>>
     THEN Return(t, 0)
     ELSE /\ Goto(t, "ask")
          /\ requests' = [requests EXCEPT ![t] = Tail(requests[t])]
          /\ UNCHANGED <<hooks, result>>
  /\ UNCHANGED <<state_mtx, target, level>>

(* The module's own cyclic thread detects an error and says so (README.md). *)
SignalError ==
  /\ MaySignal
  /\ state # error
  /\ state' = error
  /\ clean' = FALSE /\ stale' = {}
  /\ UNCHANGED <<state_mtx, pc, target, requests, hooks, result, level>>

Step(t) == Ask(t) \/ Lock(t) \/ HookDone(t) \/ HookThrows(t) \/ Final(t)

Next ==
  \/ \E t \in Callers, to \in Targets : Call(t, to)
  \/ \E t \in Callers : Step(t)
  \/ SignalError

Spec == Init /\ [][Next]_vars

(* Every thread goes on; hooks return or throw; std::mutex is not fair, but *)
(* a thread that finds it free again and again gets it.                     *)
FairSpec ==
  Spec /\ \A t \in Callers : WF_vars(Step(t)) /\ SF_vars(Lock(t))

-----------------------------------------------------------------------------
(* Properties. *)

(* How far the hooks have to bring a module in state s, and the states     *)
(* they may bring it to.                                                   *)
Norm(s) == IF s = boot THEN init ELSE s
Runs    == {init, preop, safeop, op}
Asked   == States \ {error}

TypeOK ==
  /\ state \in States /\ level \in Runs /\ stale \subseteq Callers /\ clean \in BOOLEAN
  /\ state_mtx \in Callers \cup {NoOne}
  /\ pc \in [Callers -> {"idle", "ask", "lock", "hook", "final"}]
  /\ target \in [Callers -> States]
  /\ requests \in [Callers -> Seq(States)]
  /\ hooks \in [Callers -> Seq(Hook)]
  /\ result \in [Callers -> {0, 0 - 1}]

(* Two hooks never run at the same time. *)
HooksExclude ==
  \A t, u \in Callers : pc[t] = "hook" /\ pc[u] = "hook" => t = u

(* The reported state never skips a level: what the hooks have started is  *)
(* exactly what the state says, whichever hook threw on the way, and no    *)
(* hook runs in a module that is not at the level it starts from, however  *)
(* calls overlap, as long as none of them has acted on a reading of the    *)
(* state that a hook of another one had outdated, and the module has not   *)
(* signalled an error.                                                     *)
StateTellsLevel ==
  clean => /\ level = Norm(state)
           /\ \A t \in Callers : pc[t] = "hook" => level = Head(hooks[t])[1]

(* A call that returns 0 has brought the module where it was asked to go,  *)
(* by whatever chain of requests and hooks led there.                      *)
CallsKeepTheirWord ==
  [][\A t \in Callers :
       pc[t] # "idle" /\ pc'[t] = "idle" /\ result'[t] = 0 => state' = target[t]]_vars

(* Every call returns. *)
CallsReturn == \A t \in Callers : pc[t] # "idle" ~> pc[t] = "idle"

-----------------------------------------------------------------------------
(* The inductive invariant. *)

Last(s) == s[Len(s)]

LockInv == \A t \in Callers : pc[t] = "hook" <=> state_mtx = t

(* Each hook starts where the one before it has ended. *)
Linked(hs) == \A i \in 1 .. Len(hs) - 1 : hs[i][2] = hs[i + 1][1]

(* The requests of a call end at its target, and the hooks of a request    *)
(* where it asks.                                                          *)
CallInv ==
  \A t \in Callers :
    /\ pc[t] # "idle" =>
         requests[t] \in Seq(Asked) /\ requests[t] # <<>> /\ Last(requests[t]) = target[t]
    /\ pc[t] \in {"lock", "hook"} =>
         /\ hooks[t] \in Seq(Runs \X Runs) /\ hooks[t] # <<>> /\ Linked(hooks[t])
         /\ Last(hooks[t])[2] = Norm(Head(requests[t]))

(* Who is about to act on a reading that is not stale knows the level.     *)
LevelInv ==
  clean =>
    /\ level = Norm(state) /\ state # error
    /\ \A t \in Callers :
         /\ pc[t] = "hook" \/ (pc[t] = "lock" /\ t \notin stale) => level = Head(hooks[t])[1]
         /\ pc[t] = "final" /\ t \notin stale => level = Norm(Head(requests[t]))

IInv == TypeOK /\ LockInv /\ CallInv /\ LevelInv
=============================================================================
