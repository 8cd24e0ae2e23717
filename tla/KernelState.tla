---------------------------- MODULE KernelState ----------------------------
(***************************************************************************)
(* How the kernel drives the states of its modules (kernel.cpp): the       *)
(* recursive kernel::set_state, which first raises the modules a module    *)
(* depends on, then lowers those that depend on it and those it excludes,  *)
(* and its callers: the main thread (power_up, state_check every 500 ms,   *)
(* ~kernel) under module_map_mtx, and the bridges' threads, which call the *)
(* set_state, remove_module, add_module and reconfigure_module services.   *)
(*                                                                         *)
(* A step is one iteration of one of the loops of set_state, or one        *)
(* mod_set_state call; the recursion is an explicit stack of frames, the   *)
(* innermost call first.  A module is a module_base (see ModuleBase).      *)
(***************************************************************************)
EXTENDS ModuleStates, FiniteSets, SequencesExt

CONSTANTS Order,      \* the modules, in the order of module_map
          Configs,    \* the configurations robotkernel may be started with
          MaySignal,  \* modules that may switch themselves to error
          Bridges,    \* threads that call services
          Main, NoOne,
          Calls,      \* the services they call
          Targets,    \* the states they ask for
          Overlap,    \* whether set_state calls of different threads overlap
          MaxCalls,   \* bound: number of service calls
          MaxErrors   \* bound: number of errors modules signal

Modules == ToSet(Order)
Threads == Bridges \cup {Main}

ASSUME OrderAssumption == Order \in Seq(Modules) /\ Order # <<>> /\ IsInjective(Order)
ASSUME ConfigAssumption ==
  \A c \in Configs : \A m \in Modules :
    /\ c.depends[m] \in Seq(Modules \ {m}) /\ c.excludes[m] \in Seq(Modules \ {m})
    /\ c.power_up[m] \in States \ {error}
    /\ c.mayFail \subseteq Modules
ASSUME ThreadAssumption == Main \notin Bridges /\ NoOne \notin Threads
ASSUME CallAssumption == Targets \subseteq States /\ MaySignal \subseteq Modules
ASSUME OverlapAssumption == Overlap \in BOOLEAN
ASSUME BoundAssumption == MaxCalls \in Nat /\ MaxErrors \in Nat

VARIABLES
  config,         \* what the configuration file says, read once, and which
                  \* modules it names may fail
  state,          \* what get_state of each module returns
  configured,     \* the modules whose mod_handle is not NULL
  module_map,     \* the modules in the map
  module_map_mtx, \* who holds it, or NoOne
  stack,          \* per thread: the active set_state calls
  thrown,         \* per thread: its last set_state call ended in an exception
  pc,             \* per thread: what called set_state
  todo,           \* per thread: the rest of the loop over module_map
  arg,            \* per thread: the module its service is about
  calls, errors,  \* the bounded counters
  crashed         \* a null pointer has been dereferenced: the program is gone

threadvars == <<stack, thrown, pc, todo, arg>>
vars == <<config, state, configured, module_map, module_map_mtx, threadvars, calls, errors,
          crashed>>

depends  == config.depends   \* for each module the modules it depends on,
excludes == config.excludes  \* those it excludes,
power_up == config.power_up  \* and the state power_up raises it to;
MayFail  == config.mayFail   \* the modules whose hooks may throw

Init ==
  /\ config \in Configs
  /\ state = [m \in Modules |-> init]
  /\ configured = Modules
  /\ module_map = Modules
  /\ module_map_mtx = NoOne
  /\ stack = [t \in Threads |-> <<>>]
  /\ thrown = [t \in Threads |-> FALSE]
  /\ pc = [t \in Threads |-> IF t = Main THEN "start" ELSE "idle"]
  /\ todo = [t \in Threads |-> <<>>]
  /\ arg = [t \in Threads |-> Head(Order)]
  /\ calls = 0 /\ errors = 0 /\ crashed = FALSE

-----------------------------------------------------------------------------
(* kernel::set_state *)

Frame(m, target, caller) ==
  [mod |-> m, target |-> target, caller |-> caller, at |-> "enter", rest |-> <<>>]

Top(t) == Head(stack[t])

(* module::get_state throws for a module without a handle, and             *)
(* kernel::get_state also for one that is not in the map.                  *)
HasHandle(m) == m \in configured
Readable(m) == m \in module_map /\ HasHandle(m)

SetStack(t, s) ==
  /\ stack' = [stack EXCEPT ![t] = s]
  /\ UNCHANGED <<thrown, pc, todo, arg, configured, module_map, module_map_mtx,
                 calls, errors>>

(* The innermost call goes on at "at" with the rest of a loop still to do. *)
GoOn(t, at, rest) ==
  SetStack(t, <<[Top(t) EXCEPT !.at = at, !.rest = rest]>> \o Tail(stack[t]))

(* It goes on with rest after a nested call that gets itself in "caller".  *)
Nest(t, rest, m, target) ==
  LET f == Top(t)
      caller == f.caller \cup {f.mod}
  IN  SetStack(t, <<Frame(m, target, caller),
                    [f EXCEPT !.rest = rest, !.caller = caller]>> \o Tail(stack[t]))

Return(t) == SetStack(t, Tail(stack[t]))

(* Nothing in set_state catches: an exception ends all nested calls. *)
Throw(t) ==
  /\ stack' = [stack EXCEPT ![t] = <<>>]
  /\ thrown' = [thrown EXCEPT ![t] = TRUE]
  /\ UNCHANGED <<pc, todo, arg, configured, module_map, module_map_mtx, calls, errors>>

At(t, at) == stack[t] # <<>> /\ Top(t).at = at

Enter(t) ==
  /\ At(t, "enter")
  /\ LET f == Top(t)
         begun == [f EXCEPT !.at = "depends", !.rest = depends[f.mod]]
     IN  IF ~Readable(f.mod) THEN Throw(t)
         ELSE IF state[f.mod] = f.target THEN Return(t)
         ELSE SetStack(t, (IF f.target = boot THEN <<Frame(f.mod, init, {})>> ELSE <<>>)
                            \o <<begun>> \o Tail(stack[t]))
  /\ UNCHANGED state

(* Mutant of Depends: a dependency in boot is taken to be up. *)
DependsTrustsBoot(t) ==
  /\ At(t, "depends")
  /\ LET f == Top(t)
         d == Head(f.rest)
     IN  IF f.rest = <<>>
         THEN GoOn(t, "dependents", Order)
         ELSE IF d \notin f.caller /\ Readable(d) /\ state[d] < f.target
              THEN Nest(t, Tail(f.rest), d, f.target)
         ELSE GoOn(t, "depends", Tail(f.rest))
  /\ UNCHANGED state

(* Mutant of Depends: the loop does not go on after a dependency it skips. *)
DependsGetsStuck(t) ==
  /\ At(t, "depends")
  /\ LET f == Top(t)
         d == Head(f.rest)
     IN  IF f.rest = <<>>
         THEN GoOn(t, "dependents", Order)
         ELSE IF d \notin f.caller /\ Readable(d) /\ state[d] < f.target
              THEN Nest(t, Tail(f.rest), d, f.target)
         ELSE GoOn(t, "depends", f.rest)
  /\ UNCHANGED state

(* One iteration of the loop over the modules this one depends on. *)
Depends(t) ==
  /\ At(t, "depends")
  /\ LET f == Top(t)
         d == Head(f.rest)
         skip == GoOn(t, "depends", Tail(f.rest))
     IN  IF f.rest = <<>>
         THEN GoOn(t, "dependents", Order)
         ELSE IF d \in f.caller THEN skip
         ELSE IF ~Readable(d) THEN Throw(t)
         ELSE IF state[d] = error /\ f.target = init THEN skip
         ELSE IF state[d] = error
              THEN IF HasHandle(f.mod) THEN Return(t) ELSE Throw(t)
         ELSE IF state[d] < f.target \/ state[d] = boot
              THEN Nest(t, Tail(f.rest), d, f.target)
         ELSE skip
  /\ UNCHANGED state

(* One iteration of the loop over module_map, for the modules that depend  *)
(* on this one.                                                            *)
Dependents(t) ==
  /\ At(t, "dependents")
  /\ LET f == Top(t)
         m == Head(f.rest)
         skip == GoOn(t, "dependents", Tail(f.rest))
     IN  IF f.rest = <<>>
         THEN GoOn(t, "excludes", IF f.target = init THEN <<>> ELSE excludes[f.mod])
         ELSE IF m = f.mod \/ m \notin module_map THEN skip
         ELSE IF f.mod \notin ToSet(depends[m]) \ f.caller THEN skip
         ELSE IF ~Readable(m) THEN Throw(t)
         ELSE IF state[m] > f.target THEN Nest(t, Tail(f.rest), m, init)
         ELSE skip
  /\ UNCHANGED state

(* Mutant of Excludes: an excluded module is lowered from op only. *)
ExcludesOnlyOp(t) ==
  /\ At(t, "excludes")
  /\ LET f == Top(t)
         e == Head(f.rest)
     IN  IF f.rest = <<>> THEN GoOn(t, "apply", <<>>)
         ELSE IF e \in f.caller \/ state[e] # op THEN GoOn(t, "excludes", Tail(f.rest))
         ELSE SetStack(t, <<Frame(e, init, f.caller), [f EXCEPT !.rest = Tail(f.rest)]>>
                            \o Tail(stack[t]))
  /\ UNCHANGED state

(* One iteration of the loop over the modules this one excludes; here the  *)
(* nested call gets "caller" as it is.                                     *)
Excludes(t) ==
  /\ At(t, "excludes")
  /\ LET f == Top(t)
         e == Head(f.rest)
         skip == GoOn(t, "excludes", Tail(f.rest))
     IN  IF f.rest = <<>> THEN GoOn(t, "apply", <<>>)
         ELSE IF e \in f.caller THEN skip
         ELSE IF ~Readable(e) THEN Throw(t)
         ELSE IF state[e] = init THEN skip
         ELSE SetStack(t, <<Frame(e, init, f.caller), [f EXCEPT !.rest = Tail(f.rest)]>>
                            \o Tail(stack[t]))
  /\ UNCHANGED state

(* mdl->set_state(): the module object outlives its removal from the map.  *)
Apply(t) ==
  /\ At(t, "apply")
  /\ LET f == Top(t)
     IN  IF ~HasHandle(f.mod) \/ ~Known(state[f.mod], f.target)
         THEN Throw(t)
         ELSE GoOn(t, "request", Requests(state[f.mod], f.target))
  /\ UNCHANGED state

(* One mod_set_state call that succeeds.  The get_state with which          *)
(* kernel::set_state ends is part of the last one.                         *)
Request(t) ==
  /\ At(t, "request") /\ HasHandle(Top(t).mod)
  /\ LET f == Top(t)
     IN  /\ state' = [state EXCEPT ![f.mod] = Head(f.rest)]
         /\ IF Tail(f.rest) = <<>> THEN Return(t) ELSE GoOn(t, "request", Tail(f.rest))

(* One of its hooks throws: the module stays where the hooks before it     *)
(* have brought it, and kernel::set_state throws.                          *)
RequestFails(t) ==
  /\ At(t, "request") /\ HasHandle(Top(t).mod)
  /\ Top(t).mod \in MayFail
  /\ LET m == Top(t).mod
         hooks == Hooks(state[m], Head(Top(t).rest))
     IN  \E k \in DOMAIN hooks : state' = [state EXCEPT ![m] = hooks[k][1]]
  /\ Throw(t)

(* The handle has become NULL since it was tested, by an overlapping       *)
(* reconfigure: mod_set_state dereferences it.                             *)
Crash(t) ==
  /\ At(t, "request") /\ ~HasHandle(Top(t).mod)
  /\ crashed' = TRUE
  /\ UNCHANGED <<state, configured, module_map, module_map_mtx, threadvars, calls, errors>>

SetState(t) ==
  \/ Enter(t) \/ Depends(t) \/ Dependents(t) \/ Excludes(t)
  \/ Apply(t) \/ Request(t) \/ RequestFails(t)

-----------------------------------------------------------------------------
(* The callers of set_state.  A call is over when the stack is empty. *)

Idle(t, p) == pc[t] = p /\ stack[t] = <<>>

(* With Overlap FALSE the callers wait for one another, as they would if    *)
(* set_state itself took module_map_mtx, which it does not.                 *)
Begin(t, m, target) ==
  /\ Overlap \/ \A u \in Threads : stack[u] = <<>>
  /\ stack' = [stack EXCEPT ![t] = <<Frame(m, target, {})>>]
  /\ thrown' = [thrown EXCEPT ![t] = FALSE]

NoCall == UNCHANGED <<stack, thrown>>

Take(t)    == module_map_mtx = NoOne /\ module_map_mtx' = t
Release(t) == module_map_mtx' = IF module_map_mtx = t THEN NoOne ELSE module_map_mtx

Goto(t, p)        == pc' = [pc EXCEPT ![t] = p]
Loop(t, p, names) == Goto(t, p) /\ todo' = [todo EXCEPT ![t] = names]

(* power_up and state_check take the lock for the whole loop. *)
LockAndLoop(from, to) ==
  /\ pc[Main] = from
  /\ Take(Main)
  /\ Loop(Main, to, Order)
  /\ thrown' = [thrown EXCEPT ![Main] = FALSE]
  /\ UNCHANGED <<state, configured, module_map, arg, stack, calls, errors>>

(* Mutant of StartStateCheck: the first module of the map is not looked at. *)
StateCheckSkipsFirst ==
  /\ pc[Main] = "idle"
  /\ Take(Main)
  /\ Loop(Main, "state_check", Tail(Order))
  /\ thrown' = [thrown EXCEPT ![Main] = FALSE]
  /\ UNCHANGED <<state, configured, module_map, arg, stack, calls, errors>>

StartPowerUp    == LockAndLoop("start", "power_up")
StartStateCheck == LockAndLoop("idle", "state_check")

(* main() returns and ~kernel runs. *)
Leave == Release(Main) /\ Loop(Main, "shutdown", Order) /\ NoCall

(* One iteration of power_up; an exception of set_state is only logged. *)
PowerUp ==
  /\ Idle(Main, "power_up")
  /\ LET m == Head(todo[Main])
         next == Loop(Main, "power_up", Tail(todo[Main]))
     IN  IF todo[Main] = <<>>
         THEN Release(Main) /\ Loop(Main, "idle", <<>>) /\ NoCall
         ELSE IF m \notin module_map THEN next /\ NoCall /\ UNCHANGED module_map_mtx
         ELSE IF ~HasHandle(m) THEN Leave
         ELSE /\ next
              /\ UNCHANGED module_map_mtx
              /\ IF state[m] = error \/ (state[m] >= power_up[m] /\ power_up[m] # boot)
                 THEN NoCall
                 ELSE Begin(Main, m, power_up[m])
  /\ UNCHANGED <<state, configured, module_map, arg, calls, errors>>

(* One iteration of state_check; an exception ends the main loop. *)
StateCheck ==
  /\ Idle(Main, "state_check")
  /\ LET m == Head(todo[Main])
         next == Loop(Main, "state_check", Tail(todo[Main]))
     IN  IF thrown[Main] THEN Leave
         ELSE IF todo[Main] = <<>>
         THEN Release(Main) /\ Loop(Main, "idle", <<>>) /\ NoCall
         ELSE IF m \notin module_map THEN next /\ NoCall /\ UNCHANGED module_map_mtx
         ELSE IF ~HasHandle(m) THEN Leave
         ELSE /\ next
              /\ UNCHANGED module_map_mtx
              /\ IF state[m] = error THEN Begin(Main, m, init) ELSE NoCall
  /\ UNCHANGED <<state, configured, module_map, arg, calls, errors>>

(* SIGINT or SIGTERM ends the main loop. *)
Signal ==
  /\ pc[Main] = "idle"
  /\ Leave
  /\ UNCHANGED <<state, configured, module_map, arg, calls, errors>>

(* Mutant of Shutdown: a module that depends on another is left to be      *)
(* lowered along with that one.                                            *)
ShutdownRoots ==
  /\ Idle(Main, "shutdown")
  /\ LET m == Head(todo[Main])
     IN  IF todo[Main] = <<>> THEN Loop(Main, "erase", <<>>) /\ NoCall
         ELSE /\ Loop(Main, "shutdown", Tail(todo[Main]))
              /\ IF m \in module_map /\ depends[m] = <<>> THEN Begin(Main, m, init) ELSE NoCall
  /\ UNCHANGED <<state, configured, module_map, module_map_mtx, arg, calls, errors>>

(* ~kernel, first step: set all modules to init, without the lock. *)
Shutdown ==
  /\ Idle(Main, "shutdown")
  /\ LET m == Head(todo[Main])
     IN  IF todo[Main] = <<>> THEN Loop(Main, "erase", <<>>) /\ NoCall
         ELSE /\ Loop(Main, "shutdown", Tail(todo[Main]))
              /\ IF m \in module_map THEN Begin(Main, m, init) ELSE NoCall
  /\ UNCHANGED <<state, configured, module_map, module_map_mtx, arg, calls, errors>>

(* ~kernel, second step: erase the modules one by one. *)
Erase ==
  /\ pc[Main] = "erase"
  /\ module_map_mtx = NoOne
  /\ IF module_map = {}
     THEN Goto(Main, "done") /\ UNCHANGED module_map
     ELSE /\ LET first == Head(SelectSeq(Order, LAMBDA m : m \in module_map))
             IN  module_map' = module_map \ {first}
          /\ UNCHANGED pc
  /\ UNCHANGED <<state, configured, module_map_mtx, stack, thrown, todo, arg,
                 calls, errors>>

-----------------------------------------------------------------------------
(* Services, in the threads of the bridges. *)

Call(t, kind) ==
  /\ kind \in Calls
  /\ Idle(t, "idle")
  /\ pc[Main] # "done"
  /\ calls < MaxCalls
  /\ calls' = calls + 1

(* <module>.set_state; an exception becomes the service's error message. *)
CallSetState(t, m, target) ==
  /\ Call(t, "set_state")
  /\ m \in module_map
  /\ Goto(t, "set_state")
  /\ Begin(t, m, target)
  /\ UNCHANGED <<state, configured, module_map, module_map_mtx, todo, arg, errors>>

(* Mutant of CallRemove: the lock is not taken. *)
CallRemoveUnlocked(t, m) ==
  /\ Call(t, "remove")
  /\ m \in module_map
  /\ Goto(t, "remove")
  /\ arg' = [arg EXCEPT ![t] = m]
  /\ Begin(t, m, init)
  /\ UNCHANGED <<state, configured, module_map, module_map_mtx, todo, errors>>

(* remove_module: init first, then out of the map, under the lock. *)
CallRemove(t, m) ==
  /\ Call(t, "remove")
  /\ Take(t)
  /\ m \in module_map
  /\ Goto(t, "remove")
  /\ arg' = [arg EXCEPT ![t] = m]
  /\ Begin(t, m, init)
  /\ UNCHANGED <<state, configured, module_map, todo, errors>>

(* add_module: a module is configured, hence in init, before it is inserted *)
(* (without the lock); its set_state(init) then changes nothing.            *)
CallAdd(t, m) ==
  /\ Call(t, "add")
  /\ m \notin module_map
  /\ pc[Main] \notin {"shutdown", "erase"}
  /\ module_map' = module_map \cup {m}
  /\ configured' = configured \cup {m}
  /\ state' = [state EXCEPT ![m] = init]
  /\ UNCHANGED <<module_map_mtx, stack, thrown, pc, todo, arg, errors>>

(* reconfigure_module holds the lock only to find the module. *)
CallReconfigure(t, m) ==
  /\ Call(t, "reconfigure")
  /\ module_map_mtx = NoOne
  /\ m \in module_map
  /\ Goto(t, "lookup")
  /\ arg' = [arg EXCEPT ![t] = m]
  /\ NoCall
  /\ UNCHANGED <<state, configured, module_map, module_map_mtx, todo, errors>>

(* It sets the module to init if it is not there, *)
ReconfigureLookup(t) ==
  /\ pc[t] = "lookup"
  /\ IF ~Readable(arg[t])
     THEN Goto(t, "idle") /\ NoCall
     ELSE /\ Goto(t, "reconfigure")
          /\ IF state[arg[t]] = init
             THEN thrown' = [thrown EXCEPT ![t] = FALSE] /\ UNCHANGED stack
             ELSE Begin(t, arg[t], init)
  /\ UNCHANGED <<state, configured, module_map, module_map_mtx, todo, arg, calls, errors>>

(* unconfigures it, *)
Unconfigure(t) ==
  /\ Idle(t, "reconfigure")
  /\ ~thrown[t]
  /\ configured' = configured \ {arg[t]}
  /\ Goto(t, "configure")
  /\ NoCall
  /\ UNCHANGED <<state, module_map, module_map_mtx, todo, arg, calls, errors>>

(* and configures it anew, which may throw and leave it without a handle. *)
Configure(t) ==
  /\ pc[t] = "configure"
  /\ \/ /\ configured' = configured \cup {arg[t]}
        /\ state' = [state EXCEPT ![arg[t]] = init]
     \/ arg[t] \in MayFail /\ UNCHANGED <<configured, state>>
  /\ Goto(t, "idle")
  /\ NoCall
  /\ UNCHANGED <<module_map, module_map_mtx, todo, arg, calls, errors>>

(* The end of a service whose set_state call is over. *)
EndCall(t) ==
  /\ \/ Idle(t, "set_state") \/ Idle(t, "remove")
     \/ Idle(t, "reconfigure") /\ thrown[t]
  /\ module_map' = IF pc[t] = "remove" /\ ~thrown[t] THEN module_map \ {arg[t]}
                                                     ELSE module_map
  /\ Release(t)
  /\ Goto(t, "idle")
  /\ NoCall
  /\ UNCHANGED <<state, configured, todo, arg, calls, errors>>

(* A module switches itself to error (README.md). *)
SignalError(m) ==
  /\ errors < MaxErrors
  /\ m \in module_map /\ state[m] # error
  /\ state' = [state EXCEPT ![m] = error]
  /\ errors' = errors + 1
  /\ UNCHANGED <<configured, module_map, module_map_mtx, threadvars, calls>>

AllDone == pc[Main] = "done" /\ \A t \in Bridges : pc[t] = "idle"

Terminated == (AllDone \/ crashed) /\ UNCHANGED vars

-----------------------------------------------------------------------------
MainStep == StartPowerUp \/ PowerUp \/ StartStateCheck \/ StateCheck \/ Shutdown
              \/ Erase \/ SetState(Main)

BridgeStep(t) == SetState(t) \/ EndCall(t) \/ ReconfigureLookup(t)
                   \/ Unconfigure(t) \/ Configure(t)

Serve(t) == \E m \in Modules :
  \/ \E target \in Targets : CallSetState(t, m, target)
  \/ CallRemove(t, m) \/ CallAdd(t, m) \/ CallReconfigure(t, m)

(* A step of a program that runs and goes on to run. *)
Running == ~crashed /\ UNCHANGED <<config, crashed>>

Next ==
  \/ /\ Running
     /\ \/ MainStep \/ Signal
        \/ \E t \in Bridges : BridgeStep(t) \/ Serve(t)
        \/ \E m \in MaySignal : SignalError(m)
  \/ ~crashed /\ UNCHANGED config /\ \E t \in Threads : Crash(t)
  \/ Terminated

Spec == Init /\ [][Next]_vars

(* Every thread is scheduled, and main gets the lock though bridges take it *)
(* again and again.                                                         *)
FairSpec ==
  /\ Spec
  /\ WF_vars(MainStep /\ Running)
  /\ SF_vars((StartPowerUp \/ StartStateCheck) /\ Running)
  /\ \A t \in Bridges : WF_vars(BridgeStep(t) /\ Running)
  /\ \A t \in Threads : WF_vars(Crash(t) /\ ~crashed /\ UNCHANGED config)

-----------------------------------------------------------------------------
(* Properties. *)

Quiet == \A t \in Threads : stack[t] = <<>>
Level(m) == IF state[m] = boot THEN init ELSE state[m]

(* Between calls no module is in a higher state than one it depends on: what *)
(* the first two loops of set_state are there for ("powering up module       *)
(* dependencies", "%s depends on %s -> setting state to init").              *)
DependenciesAreUp ==
  Quiet => \A m \in module_map : \A d \in ToSet(depends[m]) :
             d \in module_map /\ error \notin {state[m], state[d]} => Level(m) <= Level(d)

(* Between calls two modules that exclude each other are never both above  *)
(* init, however they and their dependents were raised ("switching         *)
(* excluded module \"%s\" to init").                                       *)
Excluded(m) == {e \in ToSet(excludes[m]) : m \in ToSet(excludes[e])}

ExclusionHolds ==
  Quiet => \A m \in module_map : \A e \in Excluded(m) \cap module_map :
             init \in {state[m], state[e]}

(* remove_module takes a module out of the map, to be destroyed, only in   *)
(* init or boot, or in error: power_up cannot raise it again behind its    *)
(* back.                                                                   *)
RemovedInInit ==
  [][pc[Main] \notin {"shutdown", "erase"} =>
       \A m \in module_map : m \notin module_map' => Level(m) \in {init, error}]_vars

(* No error of a module brings robotkernel down: state_check, whose        *)
(* exceptions end the main loop, throws only if a hook of a module does, or *)
(* while a module has been removed or is being reconfigured.               *)
MainSurvives ==
  [][MayFail = {} /\ module_map = Modules /\ configured = Modules
       /\ pc[Main] = "state_check" /\ ~thrown[Main]
     => ~thrown'[Main] /\ pc'[Main] # "shutdown"]_vars

(* Every set_state call comes to an end, unless robotkernel crashes. *)
SetStateReturns == \A t \in Threads : stack[t] # <<>> ~> stack[t] = <<>> \/ crashed

(* state_check resets every module in error, unless robotkernel terminates. *)
ErrorIsReset ==
  \A m \in Modules :
    state[m] = error ~> \/ state[m] # error \/ m \notin module_map
                       \/ pc[Main] \in {"shutdown", "erase", "done"} \/ crashed

(* ~kernel comes to its end ("set all modules to init", "destruct modules", *)
(* kernel.cpp), with every service answered, whatever they still do to the *)
(* modules it lowers without module_map_mtx.  If no service is executed    *)
(* from then on and no hook throws, every module is in init or boot, or has *)
(* switched itself to error, before the first of them is destructed.       *)
ShutsDown ==
  /\ pc[Main] = "shutdown" ~> AllDone \/ crashed
  /\ MayFail = {} =>
       [](pc[Main] = "shutdown" /\ todo[Main] = Order /\ [](\A t \in Bridges : pc[t] = "idle")
            => [](pc[Main] = "erase" => \A m \in module_map : Level(m) \in {init, error}))
=============================================================================
