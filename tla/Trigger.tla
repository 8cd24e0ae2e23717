------------------------------ MODULE Trigger ------------------------------
(***************************************************************************)
(* A trigger device (trigger.cpp, trigger_worker.cpp): real-time threads   *)
(* call do_trigger, which ticks the callbacks registered with it, either   *)
(* directly in that thread or through a worker thread that sleeps on a     *)
(* condition variable; wait() registers a waiter and sleeps for one tick.  *)
(* Module threads register and remove callbacks meanwhile.                 *)
(*                                                                         *)
(* list_mtx is explicit, since it is held across other waits: the mutex of *)
(* a worker while it runs callbacks, and the end of a removed worker.  The *)
(* mutex of a worker is held beyond one step only while pc is "tick" or    *)
(* "call", that of a waiter never, so these are conditions on pc.          *)
(* Callbacks do not call the trigger they are called by.                   *)
(***************************************************************************)
EXTENDS Naturals, Sequences, SequencesExt, FiniteSets

CONSTANTS Callbacks, \* trigger objects of modules, each with its module's thread
          Waiters,   \* threads that call wait(), each with its waiter object
          Workers,   \* worker keys (priority, affinity, divisor), with their threads
          Tickers,   \* real-time threads that call do_trigger
          Divisor,   \* per entry of the list: tick every so many steps
          NoOne,     \* nobody
          MaxCalls,  \* bound: registrations and wait() calls
          MaxTicks   \* bound: calls of do_trigger

Entries == Callbacks \cup Waiters \cup Workers
Threads == Callbacks \cup Waiters \cup Workers \cup Tickers

ASSUME DivisorAssumption ==
  /\ Divisor \in [Entries -> Nat \ {0}]
  /\ \A w \in Waiters : Divisor[w] = 1
ASSUME BoundAssumption == MaxCalls \in Nat /\ MaxTicks \in Nat
ASSUME NoOneAssumption == NoOne \notin Threads
(* They are different things.  A callback in direct mode has the mode      *)
(* "direct", otherwise the key of its worker.                              *)
ASSUME DisjointAssumption ==
  /\ Callbacks \cap Waiters = {} /\ Callbacks \cap Workers = {}
  /\ Callbacks \cap Tickers = {} /\ Waiters \cap Workers = {}
  /\ Waiters \cap Tickers = {}   /\ Workers \cap Tickers = {}
  /\ "direct" \notin Workers

VARIABLES
  list_mtx,  \* the thread that holds it, or NoOne
  triggers,  \* the list: callbacks in direct mode, waiters, workers
  cnt,       \* per entry: steps since its last tick
  workers,   \* the keys that have a worker
  list,      \* per worker: the callbacks it runs
  run_flag,  \* per worker
  pc,        \* per thread
  arg,       \* per thread: the worker it adds to or joins, or, for tickers
             \* and workers, the callback it is in
  pos,       \* per ticker and worker: the place in its list
  todo,      \* the workers remove_trigger has not visited yet
  calls, ticks,
  destroyed, \* ~trigger has begun
  \* history, not in the code:
  modes      \* per callback: how it is registered ("direct", or the key)

vars == <<list_mtx, triggers, cnt, workers, list, run_flag, pc, arg, pos, todo,
          calls, ticks, destroyed, modes>>

lists == <<triggers, workers, list>>

Init ==
  /\ list_mtx = NoOne /\ triggers = <<>> /\ workers = {} /\ todo = {}
  /\ cnt = [e \in Entries |-> 0]
  /\ list = [k \in Workers |-> <<>>]
  /\ run_flag = [k \in Workers |-> FALSE]
  /\ pc = [t \in Threads |-> "idle"]
  /\ arg = [t \in Threads |-> NoOne]
  /\ pos = [t \in Tickers \cup Workers |-> 1]
  /\ modes = [t \in Callbacks |-> {}]
  /\ calls = 0 /\ ticks = 0 /\ destroyed = FALSE

Goto(t, l) == pc' = [pc EXCEPT ![t] = l]
Clear(t)   == arg' = [arg EXCEPT ![t] = NoOne]

(* std::list::remove: all elements of s but x, in their order. *)
Without(s, x) ==
  LET keep[i \in 0 .. Len(s)] ==
        IF i = 0 THEN <<>>
        ELSE IF s[i] = x THEN keep[i - 1] ELSE Append(keep[i - 1], s[i])
  IN  keep[Len(s)]

(* Mutant of MtxFree: the mutex is not taken. *)
MtxIgnored(k) == TRUE

(* The mutex of worker k is free: it sleeps, or has not begun. *)
MtxFree(k) == pc[k] \notin {"tick", "call"}

-----------------------------------------------------------------------------
(* trigger::add_trigger. *)

Call(t) ==
  /\ ~destroyed /\ list_mtx = NoOne /\ pc[t] = "idle"
  /\ calls < MaxCalls /\ calls' = calls + 1

AddDirect(t) ==
  /\ Call(t)
  /\ triggers' = Append(triggers, t)
  /\ modes' = [modes EXCEPT ![t] = @ \cup {"direct"}]
  /\ UNCHANGED <<list_mtx, cnt, workers, list, run_flag, pc, arg, pos, todo,
                 ticks, destroyed>>

(* Worker mode: the worker for the key is created and started if there is  *)
(* none.  A callback it has already makes add_trigger throw.               *)
AddWorker(t, k) ==
  /\ Divisor[t] = Divisor[k]
  /\ Call(t)
  /\ IF k \in workers
     THEN /\ IF t \in ToSet(list[k])
             THEN UNCHANGED <<list_mtx, pc, arg>>
             ELSE list_mtx' = t /\ Goto(t, "add") /\ arg' = [arg EXCEPT ![t] = k]
          /\ UNCHANGED <<triggers, workers, cnt, run_flag>>
     ELSE /\ list_mtx' = t
          /\ pc' = [pc EXCEPT ![t] = "add", ![k] = "start"]
          /\ arg' = [arg EXCEPT ![t] = k]
          /\ triggers' = Append(triggers, k)
          /\ workers' = workers \cup {k}
          /\ cnt' = [cnt EXCEPT ![k] = 0]
          /\ run_flag' = [run_flag EXCEPT ![k] = TRUE]
  /\ UNCHANGED <<list, pos, todo, ticks, destroyed, modes>>

(* trigger_worker::add_trigger *)
AddDone(t) ==
  /\ pc[t] = "add" /\ MtxFree(arg[t])
  /\ list' = [list EXCEPT ![arg[t]] = Append(@, t)]
  /\ modes' = [modes EXCEPT ![t] = @ \cup {arg[t]}]
  /\ list_mtx' = NoOne /\ Goto(t, "idle") /\ Clear(t)
  /\ UNCHANGED <<triggers, cnt, workers, run_flag, pos, todo, calls, ticks,
                 destroyed>>

-----------------------------------------------------------------------------
(* trigger::remove_trigger, called by a module or at the end of wait(). *)

RemoveTrigger(t) ==
  /\ ~destroyed /\ list_mtx = NoOne
  /\ IF t \in Waiters THEN pc[t] = "leave" ELSE pc[t] = "idle" /\ modes[t] # {}
  /\ list_mtx' = t /\ Goto(t, "remove")
  /\ triggers' = Without(triggers, t)
  /\ todo' = workers
  /\ UNCHANGED <<cnt, workers, list, run_flag, arg, pos, calls, ticks,
                 destroyed, modes>>

(* Mutants of EraseWorker: the worker stays in the list; stop() does not   *)
(* clear run_flag.                                                         *)
EraseKeepsEntry(k) ==
  workers' = workers \ {k} /\ run_flag' = [run_flag EXCEPT ![k] = FALSE] /\ UNCHANGED triggers
EraseNoStop(k) ==
  workers' = workers \ {k} /\ triggers' = Without(triggers, k) /\ UNCHANGED run_flag

EraseWorker(k) ==
  /\ triggers' = Without(triggers, k)
  /\ workers' = workers \ {k}
  /\ run_flag' = [run_flag EXCEPT ![k] = FALSE]

(* Remove t from worker k; a worker that has nothing left is erased and    *)
(* stopped.                                                                *)
RemoveFrom(t, k) ==
  /\ pc[t] = "remove" /\ k \in todo /\ MtxFree(k)
  /\ todo' = todo \ {k}
  /\ list' = [list EXCEPT ![k] = Without(@, t)]
  /\ IF list'[k] = <<>>
     THEN EraseWorker(k) /\ Goto(t, "join") /\ arg' = [arg EXCEPT ![t] = k]
     ELSE UNCHANGED <<triggers, workers, run_flag, pc, arg>>
  /\ UNCHANGED <<list_mtx, cnt, pos, calls, ticks, destroyed, modes>>

(* runnable::stop waits for the thread of the worker, whose list is gone   *)
(* with it.                                                                *)
Join(t) ==
  /\ pc[t] = "join" /\ pc[arg[t]] = "done"
  /\ pc' = [pc EXCEPT ![t] = IF destroyed THEN "destroy" ELSE "remove", ![arg[t]] = "idle"]
  /\ list' = [list EXCEPT ![arg[t]] = <<>>]
  /\ Clear(t)
  /\ UNCHANGED <<list_mtx, triggers, workers, cnt, run_flag, pos, todo, calls,
                 ticks, destroyed, modes>>

RemoveDone(t) ==
  /\ pc[t] = "remove" /\ todo = {}
  /\ list_mtx' = NoOne /\ Goto(t, "idle")
  /\ modes' = [c \in Callbacks |-> IF c = t THEN {} ELSE modes[c]]
  /\ UNCHANGED <<lists, cnt, run_flag, arg, pos, todo, calls, ticks, destroyed>>

-----------------------------------------------------------------------------
(* trigger::~trigger: t gives up the last reference, so no call of anybody *)
(* is going on, but the workers still live.                                *)

Destroy(t) ==
  /\ ~destroyed /\ \A x \in Threads \ Workers : pc[x] = "idle"
  /\ destroyed' = TRUE
  /\ triggers' = <<>>
  /\ todo' = workers
  /\ Goto(t, "destroy")
  /\ UNCHANGED <<list_mtx, cnt, workers, list, run_flag, arg, pos, calls, ticks,
                 modes>>

(* ~trigger_worker stops the thread and waits for it. *)
Reset(t, k) ==
  /\ pc[t] = "destroy" /\ k \in todo
  /\ todo' = todo \ {k}
  /\ EraseWorker(k)
  /\ Goto(t, "join") /\ arg' = [arg EXCEPT ![t] = k]
  /\ UNCHANGED <<list_mtx, cnt, list, pos, calls, ticks, destroyed, modes>>

DestroyDone(t) ==
  /\ pc[t] = "destroy" /\ todo = {}
  /\ Goto(t, "idle")
  /\ modes' = [c \in Callbacks |-> {}]
  /\ UNCHANGED <<list_mtx, lists, cnt, run_flag, arg, pos, todo, calls, ticks,
                 destroyed>>

-----------------------------------------------------------------------------
(* trigger::wait. *)

WaitAdd(w) ==
  /\ Call(w)
  /\ triggers' = Append(triggers, w)
  /\ cnt' = [cnt EXCEPT ![w] = 0]
  /\ Goto(w, "added")
  /\ UNCHANGED <<list_mtx, workers, list, run_flag, arg, pos, todo, ticks,
                 destroyed, modes>>

(* Lock the waiter's mutex and sleep. *)
WaitBlock(w) ==
  /\ pc[w] = "added"
  /\ Goto(w, "wait")
  /\ UNCHANGED <<list_mtx, lists, cnt, run_flag, arg, pos, todo, calls, ticks,
                 destroyed, modes>>

(* Notified, timed out or woken spuriously: remove the waiter. *)
WaitReturn(w) ==
  /\ pc[w] = "wait"
  /\ Goto(w, "leave")
  /\ UNCHANGED <<list_mtx, lists, cnt, run_flag, arg, pos, todo, calls, ticks,
                 destroyed, modes>>

-----------------------------------------------------------------------------
(* trigger::do_trigger. *)

DoTrigger(d) ==
  /\ ~destroyed /\ pc[d] = "idle" /\ list_mtx = NoOne /\ ticks < MaxTicks
  /\ ticks' = ticks + 1
  /\ list_mtx' = d /\ Goto(d, "walk")
  /\ UNCHANGED <<lists, cnt, run_flag, arg, pos, todo, calls, destroyed, modes>>

At(d) == triggers[pos[d]]
IsDue(e) == (cnt[e] + 1) % Divisor[e] = 0
Advance(t) == pos' = [pos EXCEPT ![t] = @ + 1]

Skip(d) ==
  /\ pc[d] = "walk" /\ pos[d] <= Len(triggers) /\ ~IsDue(At(d))
  /\ cnt' = [cnt EXCEPT ![At(d)] = @ + 1]
  /\ Advance(d)
  /\ UNCHANGED <<list_mtx, lists, run_flag, pc, arg, todo, calls, ticks,
                 destroyed, modes>>

(* tick() of a worker or a waiter: wake it up if it sleeps. *)
Notify(d) ==
  /\ pc[d] = "walk" /\ pos[d] <= Len(triggers) /\ IsDue(At(d))
  /\ At(d) \notin Callbacks
  /\ cnt' = [cnt EXCEPT ![At(d)] = 0]
  /\ Advance(d)
  /\ UNCHANGED <<list_mtx, lists, run_flag, pc, arg, todo, calls, ticks,
                 destroyed, modes>>

(* tick() of a callback in direct mode runs in this thread. *)
Tick(d) ==
  /\ pc[d] = "walk" /\ pos[d] <= Len(triggers) /\ IsDue(At(d))
  /\ At(d) \in Callbacks
  /\ cnt' = [cnt EXCEPT ![At(d)] = 0]
  /\ Goto(d, "call") /\ arg' = [arg EXCEPT ![d] = At(d)]
  /\ UNCHANGED <<list_mtx, lists, run_flag, pos, todo, calls, ticks,
                 destroyed, modes>>

TickReturns(d) ==
  /\ pc[d] = "call"
  /\ Advance(d) /\ Goto(d, IF d \in Workers THEN "tick" ELSE "walk")
  /\ Clear(d)
  /\ UNCHANGED <<list_mtx, lists, cnt, run_flag, todo, calls, ticks,
                 destroyed, modes>>

DoTriggerDone(d) ==
  /\ pc[d] = "walk" /\ pos[d] > Len(triggers)
  /\ list_mtx' = NoOne /\ Goto(d, "idle") /\ pos' = [pos EXCEPT ![d] = 1]
  /\ UNCHANGED <<lists, cnt, run_flag, arg, todo, calls, ticks, destroyed,
                 modes>>

-----------------------------------------------------------------------------
(* trigger_worker::run. *)

(* Test run_flag and go to sleep, which releases the mutex, or end. *)
SleepOrEnd(k) == Goto(k, IF run_flag[k] THEN "wait" ELSE "done")

WorkerStart(k) ==
  /\ pc[k] = "start"
  /\ SleepOrEnd(k)
  /\ UNCHANGED <<list_mtx, lists, cnt, run_flag, arg, pos, todo, calls, ticks,
                 destroyed, modes>>

(* wait_for reports a timeout by the clock, also to a thread that has been *)
(* notified; then the worker goes back to sleep.                           *)
WorkerTimeout(k) ==
  /\ pc[k] = "wait"
  /\ SleepOrEnd(k)
  /\ UNCHANGED <<list_mtx, lists, cnt, run_flag, arg, pos, todo, calls, ticks,
                 destroyed, modes>>

(* Notified or spurious: run the callbacks with the mutex held. *)
WorkerWake(k) ==
  /\ pc[k] = "wait"
  /\ Goto(k, "tick")
  /\ UNCHANGED <<list_mtx, lists, cnt, run_flag, arg, pos, todo, calls, ticks,
                 destroyed, modes>>

WorkerTick(k) ==
  /\ pc[k] = "tick" /\ pos[k] <= Len(list[k])
  /\ Goto(k, "call") /\ arg' = [arg EXCEPT ![k] = list[k][pos[k]]]
  /\ UNCHANGED <<list_mtx, lists, cnt, run_flag, pos, todo, calls, ticks,
                 destroyed, modes>>

WorkerRound(k) ==
  /\ pc[k] = "tick" /\ pos[k] > Len(list[k])
  /\ SleepOrEnd(k) /\ pos' = [pos EXCEPT ![k] = 1]
  /\ UNCHANGED <<list_mtx, lists, cnt, run_flag, arg, todo, calls, ticks,
                 destroyed, modes>>

-----------------------------------------------------------------------------
Register(t) == AddDirect(t) \/ AddDone(t) \/ \E k \in Workers : AddWorker(t, k)
Unregister(t) ==
  RemoveTrigger(t) \/ Join(t) \/ RemoveDone(t) \/ \E k \in Workers : RemoveFrom(t, k)
Destruct(t) == Destroy(t) \/ DestroyDone(t) \/ \E k \in Workers : Reset(t, k)
Wait(w) == WaitAdd(w) \/ WaitBlock(w) \/ WaitReturn(w)
RealTime(d) ==
  \/ DoTrigger(d) \/ Skip(d) \/ Notify(d) \/ Tick(d) \/ TickReturns(d)
  \/ DoTriggerDone(d)
Work(k) ==
  WorkerStart(k) \/ WorkerTimeout(k) \/ WorkerWake(k) \/ WorkerTick(k) \/
  TickReturns(k) \/ WorkerRound(k)

Next ==
  \/ \E t \in Callbacks : Register(t) \/ Destruct(t)
  \/ \E t \in Callbacks \cup Waiters : Unregister(t)
  \/ \E w \in Waiters : Wait(w)
  \/ \E d \in Tickers : RealTime(d)
  \/ \E k \in Workers : Work(k)

Spec == Init /\ [][Next]_vars

(* Every thread is scheduled, callbacks return, timeouts expire; a thread  *)
(* that waits for a mutex others keep taking and releasing gets it.        *)
Fairness ==
  /\ \A t \in Callbacks :
       SF_vars(AddDone(t) \/ (pc[t] # "idle" /\ (Unregister(t) \/ Destruct(t))))
  /\ \A w \in Waiters : SF_vars(WaitBlock(w) \/ WaitReturn(w) \/ Unregister(w))
  /\ \A d \in Tickers : WF_vars(pc[d] # "idle" /\ RealTime(d))
  /\ \A k \in Workers : WF_vars(Work(k))

FairSpec == Spec /\ Fairness

-----------------------------------------------------------------------------
(* Properties. *)

(* t's callback is being executed. *)
Running(t) == \E x \in Tickers \cup Workers : pc[x] = "call" /\ arg[x] = t

(* After remove_trigger or the destructor of the trigger has returned, no  *)
(* thread is in a callback that was removed, or will be: the module may    *)
(* free what it uses.  Neither does a list keep a waiter of a wait() that  *)
(* has returned, nor a worker without callbacks its thread.                *)
RemovedIsQuiet ==
  /\ \A t \in Callbacks : modes[t] = {} /\ pc[t] = "idle" => ~Running(t)
  /\ \A w \in Waiters : pc[w] = "idle" => w \notin ToSet(triggers)
  /\ list_mtx = NoOne => \A k \in Workers : pc[k] # "idle" <=> list[k] # <<>>

(* s holds x at one place at most. *)
Once(s, x) == \A i, j \in DOMAIN s : s[i] = x /\ s[j] = x => i = j

(* What is registered is reached by do_trigger whenever the list is free:  *)
(* directly, or through a worker that is in the list once, and lives.      *)
RegisteredIsReached ==
  list_mtx = NoOne /\ ~destroyed =>
    /\ \A t \in Callbacks :
         /\ "direct" \in modes[t] <=> t \in ToSet(triggers)
         /\ \A k \in Workers : k \in modes[t] <=> t \in ToSet(list[k])
    /\ \A k \in Workers :
         /\ list[k] # <<>> <=> k \in ToSet(triggers)
         /\ Once(triggers, k)
         /\ list[k] # <<>> => run_flag[k] /\ pc[k] \in {"start", "wait", "tick", "call"}

(* add_trigger, remove_trigger, wait, do_trigger and the destructor return *)
(* although one thread holds list_mtx while it waits for another.          *)
CallsReturn == \A t \in Callbacks \cup Waiters \cup Tickers : pc[t] # "idle" ~> pc[t] = "idle"
=============================================================================
