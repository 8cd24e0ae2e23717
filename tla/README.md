# A TLA+ model of robotkernel

robotkernel is a framework for hardware abstraction: one process (`kernel`) loads
modules as shared objects, drives them through a state machine, and lets them
exchange data through named devices. Its code runs in several kinds of threads,
and most of what is hard to test in it lies between them:

* the **main thread** (`main.cpp`): `power_up`, then `state_check` every 500 ms,
  and at the end `~kernel`;
* **bridge threads**: a bridge module executes services (`set_state`,
  `remove_module`, `reconfigure_module`, ...) in threads of its own;
* **real-time threads** of the modules: they exchange process data and fire
  triggers, and must never wait for one another;
* **worker threads** of triggers, and the **log thread**.

The directory holds TLA+ modules translated from the code under `src/` and
`include/robotkernel/`, the configurations TLC checks them with, and theorems
proved with TLAPS. `PROJECT.json` gives for every definition the lines it stands
for.

## Inventory

| part | state | operations | what is hard | what makes it correct |
|---|---|---|---|---|
| triple buffer (`process_data.cpp`) | one atomic byte of three indices and a flag, three buffers | `next`, `write`, `push`, `pop`, `read`, `peek`, `new_data` | lost exchanges between provider and consumer | no race on a buffer; whole, newest frames; a wait-free push; like one atomic register |
| permissions (`process_data.cpp`) | `provider`, `consumer`, a `hash` in each object | `set_provider`, `reset_provider`, checks in `next`, `write`, `push` (and the consumer's) | unlocked steps, an object used with several process data | one writer; the owner is never refused |
| injection (`process_data.h`, `kernel.cpp`) | `pd_injections` per process data | add, delete, list (services), apply in `push` | services against the real-time thread | an override is applied from add to delete |
| module_base (`module_base.cpp`) | `state`, `state_mtx` | `set_state`, the hooks of a module | several callers, hooks that throw half-way, errors signalled meanwhile | hooks run one at a time, in order; the state tells what has been started |
| single, pointer buffer (`process_data.cpp`) | one memory, no synchronisation | `next`, `write`, `push`, `pop`, `read`, `set_ptr` | both ends share the memory | the last frame is what was written into it |
| module (`module.cpp`, `so_file.cpp`) | handle, dependencies, excludes, shared object | `set_state`, `reconfigure`, load and unload | a chain of requests that stops half-way | a call that succeeds has brought the module to its target; no code is unloaded that can still be called |
| kernel, module states (`kernel.cpp`, `main.cpp`) | `module_map`, `module_map_mtx` | `set_state`, `power_up`, `state_check`, add/remove/reconfigure module, `~kernel` | recursion over dependencies, overlapping callers, errors, shutdown | dependencies are up; excluded modules are not; errors are reset; the kernel terminates |
| kernel, services (`kernel.cpp`, `service_provider.cpp`, `bridge.cpp`) | `services`, `bridge_map`, mutexes | `add_service`, `remove_service(s)`, `call_service`, bridges come and go | callbacks under locks, removal during a call | a bridge knows exactly the registered services |
| kernel, devices (`kernel.cpp`) | `device_map`, `device_listeners` | add and remove devices and listeners | notification while the list changes | each listener is told of every device |
| trigger (`trigger.cpp`, `trigger_worker.cpp`) | list, workers, `list_mtx`, a mutex and a condition variable per worker | `add_trigger`, `remove_trigger`, `do_trigger`, `wait`, worker loop | removal while a callback runs, joins under a lock, lost notifications | after removal no callback runs; what is registered is called; every call returns |
| trigger_collector (`trigger_collector.h`) | active mask, timestamps | `reinit`, `set_active_mask`, `trigger_collect` | late and missing triggers, a clock that is set back, a mask that changes meanwhile | a callback comes with new data of all active slaves, within the timeout |
| logging (`log_thread.cpp`, `log_base.cpp`, `dump_log.cpp`, `char_ringbuffer.cpp`) | pool, queue, ring | `log`, the writer loop, `dump_log` | exhausted pool, ring that wraps | no message object in two places; the ring keeps the newest text |
| C interface, helpers, datatypes, rkc files | | | | no state of their own that the above does not have |

## The modules, and how they correspond to the code

**`LatestValue`, `TripleFrames` and `TripleBuffer`.** `LatestValue` is what a process data
promises: a register that a provider fills in private and publishes at once, and
whose newest value the consumer takes at once. `TripleFrames` says in addition
which of three frames each end goes on with after an exchange. `TripleBuffer` is how
`triple_buffer` does it: `indices` is the byte `flags` with its three two-bit
indices and the flag in bit 7 (`front`, `back`, `flip`, `written` decode it), a
load and a compare-and-exchange are steps of their own (`PPush`/`CPop` read,
`PSwap`/`CSwap` exchange, `PRetry`/`CRetry` are a lost exchange that reloads), and
members are stored and loaded one by one (`PStore`, `CLoad`) so that torn frames
would show. The exchanges are read-modify-writes with release and the loads have
consume order; every buffer changes hands through such an exchange, which is why
interleaved steps are enough. Spurious failures of the weak exchange would only
repeat `PRetry` or `CRetry` without a change, i.e. stutter.

**`PdAccess`.** Registration of providers: `set_provider` is `SetCheck`,
`SetStore`, `SetHash`, `reset_provider` is `ResetCheck`, `ResetHash`,
`ResetProvider`; `Next_` is the permission check of `next`/`write`, `Push` the end
of the use of the buffer. Any thread may call `reset_provider`: another one's
registration makes it throw, and where there is none the code dereferences a null
pointer, which ends the program (`Crashed`). The constant `Shared` says whether an object is
registered with several process data, `Overlap` whether registration may overlap
other calls: the code protects neither. The consumer's functions are the same
lines with other names.

**`ProcessData`, `MCProcessData`.** Everything between the permissions and the
frames, on top of `PdAccess`: a provider begins a frame (`Begin`), fills it member
by member (`Fill`), lets go of it (`LetGo`, a `write` without push) or pushes it
(`PushFrame`, then one `Inject` per override, then `Publish` or `PushThrows`).
`write` of a single or pointer buffer is always `LetGo`: it ignores its `do_push`
(see below). `due` is what the consumer must find: after such a `write` what was
written, after a push also the overrides, and after a push that throws half-way the
overrides before the one that failed, as the memory is the consumer's, too; a triple
buffer does not exchange its frames then, and the next push begins with what is left.
The three kinds of buffer differ in `Kind`: a triple buffer exchanges frames (in
one step here, as in `TripleFrames`; `TripleBuffer` has the steps), the others have one memory, which
`SetPtr` replaces in a pointer buffer. Clients add and delete overrides
(`AddInjection`, `AddUninitialized`, `DelInjection`). An override is applied in
the order of the map, cut to the width of the type that the description of the
process data gives the member (`Places`, `Found`, `Size`, `Converted`); types are a
few bits wide in the instance.

**`Collector`.** `trigger_collect` of each slave with its reads of the clock and of
the mask as steps of their own (`get_timestamp`, `Expire`, `Mark`, `Scan`,
`Collected`, `CallbackDone`), while the module changes the mask or reinitialises,
and the clock goes on or is set back. `Serial` says that the slaves belong to one
trigger device, whose `list_mtx` orders their calls.

**`ModuleStates`, `ModuleBase`.** `ModuleStates` holds the numbers of the states
and the two tables of transitions: the requests `module::set_state` sends and
the hooks `module_base::set_state` runs from one state to another. Both are
parts of one ladder of states, cut out with `SubSeq` and, on the way down,
reversed (`Climb`, `Descent`, `ClimbHooks`, `DescentHooks`).
`ModuleBase` lets several threads use them on one module: `Call` reads the state
and chooses the requests, `Ask` reads it again and chooses the hooks, `Lock`,
`HookDone` and `HookThrows` are one hook under `state_mtx`, `Final` is the
assignment at the end. `SignalError` is a module that sets its state to error
by itself. All of these steps rest on a reading of `state` made before: `stale` are the
callers whose reading is outdated, because a hook of another call has ended since,
and `clean` says that none has acted on such a reading (`Acts`, `Outdates`) and the
module has signalled no error.

**`KernelState`, `MCKernelState`.** `kernel::set_state` with an explicit stack of
calls per thread (`Enter`, `Depends`, `Dependents`, `Excludes`, `Apply`,
`Request`, `RequestFails`: one step per iteration of its loops), called by
the main thread (`PowerUp`, `StateCheck`, `Shutdown`, `Erase`) and by bridge
threads (`CallSetState`, `CallRemove`, `CallAdd`, `CallReconfigure` and the steps
of the latter). A request to a module whose handle an overlapping reconfiguration has
set to NULL ends the program (`Crash`: `module::set_state` tests the handle once,
`mod_set_state` gets it later, `module.cpp:254` and `311`). The `get_state` with which
`set_state` ends is part of the last request. A module is its table of `ModuleStates`; an exception unwinds
the whole stack, as no level catches. `config` is what the configuration file
says. `MCKernelState` gives the graphs.

**`Trigger`, `MCTrigger`.** A trigger device with direct callbacks, callbacks in
worker threads, and waiters, until the trigger is destroyed (`Destroy`, `Reset`,
`DestroyDone`). `list_mtx` is a variable, since it is held while
`remove_trigger` waits for a worker (`RemoveFrom`, `Join`); the mutex of a worker
is held exactly while it is between `WorkerWake` and `WorkerRound`. A condition
variable may wake spuriously, and its `wait_for` may report a timeout although it
was notified; both are in the model (`WorkerWake` needs no notification,
`WorkerTimeout` ignores one).

**`Registry`, `MCRegistry`.** What modules register: services, which bridges
offer, and devices, of which listeners are told. No lock protects the maps, and
calls that overlap would be data races whatever they do, so calls come one after
the other here. But they are not atomic: `todo` is the stack of what the current
call has left to do, with one entry per element of a loop over a map, so that a
callback into the kernel (a handler of a service provider that adds its service
while a device is announced) and an exception half-way (a bridge that refuses a
service: `Refuse`; a `mod_configure` that fails: `ConfigureFails`) happen where
they would. `Throw` goes on after the next `catch` block. `CreateModule` and
`svc_add_module` with `Loaded`, `svc_reconfigure_module` with `Reconfigured`, and
`svc_remove_module` with `Unload` and `Unloaded` are the lives of a module; each object a module makes
carries a number, which tells it from one of an earlier life. `Open` and `Close`
are its shared object, which a failing constructor closes, too. `ReadConfig`,
`NextPhase` and `Shutdown` are the orders of `kernel::config` and `~kernel`;
`ConfigFails` leaves `kernel::config` with an exception, after which `main`
destroys the kernel as far as it got. `svc_module_list`, `svc_list_devices`,
`svc_process_data_info`, `svc_device_info` and `get_device` are what clients and
modules read. A process
data has the trigger it generates, or names one that must be registered when it
is made (`ClockOf`, `Generates`, `CanBeMade`); only a generated one is added and
removed along with it. `ConfigureFails` may come before or after any of the
devices of `mod_configure`. A module whose reconfiguration failed has no handle, so that
`get_state` throws and it can neither be reconfigured nor removed until the end of
the program (`module.cpp:403`). A name that occurs twice in the configuration file is
a failure like any other: the constructor of the second module adds nothing that the
first has, its destructor takes away the first one's devices and services as well, and then
`~kernel` takes away the rest; neither bridges nor service providers nor listeners
are there yet. A handler that adds a service of its own is how
service providers use the interface; their code is not in the repository.

**`CharRingbuffer`.** The dump log. A character is its place in the stream of all
that was written, so that gaps, repetitions and old text show; a write is one step
per round of its loop (`WriteRound`, `WriteLast`), under the buffer's mutex.
`SetLen` may fail to get memory, which leaves the buffer as it was.

**`LogThread`.** A step is what happens under one lock of `mtx`: `GetPoolObject`,
`Queue` or `PrintSync`, and in the log thread `Running` (the head of the loop,
reached at the start and after a timeout), `Wake` (notified or spurious) and
`PrintNext`, each with the loop up to the next point where the mutex is given
up (`Drain`). `return_pool_object` takes no mutex: `ReturnPoolObject` and
`Returned` are the two ends of its `push_back`, and if the list is accessed in
between (`Access`), or two threads are in it, the object may be lost. A real
data race on a `std::list` may do worse, which the model does not follow.

## The runs

| run | instance | what it shows |
|---|---|---|
| `TripleBuffer` | 3 pushes of a frame of 2 members | no race (`NoDataRace`), whole newest frames (`NewestWholeFrame`), at most one lost exchange per push (`PushIsWaitFree`), `new_data` is never wrong for the consumer (`NewDataIsKept`), `peek` shows an unread frame (`PeekReturnsUnread`), `ImplementsLatestValue`; `LastFrameArrives` |
| `ProcessData` | 2 providers; a process data of any kind, with or without a member of unknown type and one that no client names; 2 members, one value to write and one to override with, which is cut to one bit | `OneWriter`, `OwnerMayWrite`; `FrameIsDue`: what the consumer gets by a push is what the provider wrote into that very frame and what clients override, also after a push that threw half-way; what it gets by a `write` to a single or pointer buffer is what was written and no override |
| `InjectionDeleted` | a provider, a triple buffer | counterexample to `DeletedIsGone`: an override stays in force after it was deleted |
| `Collector` | 3 slaves of one device, a timeout of 1, 4 instants, 2 changes of mask, timeout or clock | `FreshAtCallback`, `InTime`, `CallbackRecurs` |
| `ModuleBase` | 2 threads, targets init, safeop, op, boot, errors at any time | `HooksExclude`, `CallsKeepTheirWord`, `CallsReturn`; and, until a call acts on a reading of the state that a hook of the other has outdated, or an error is signalled, `StateTellsLevel` |
| `KernelOrder` | 3 modules, a chain or an exclusion, any hook may throw, besides `power_up` 2 calls of set_state with any target, remove and add | `DependenciesAreUp`, `ExclusionHolds` between calls that do not overlap |
| `KernelServices` | 2 modules, a chain whose second module's hooks may throw, or a cycle; a set_state, remove or reconfigure service overlaps with the main thread, an error at any time | `MainSurvives`, `ErrorIsReset`, `SetStateReturns`, `RemovedInInit`, `ShutsDown` |
| `KernelForkOrder` | two modules depend on a third | counterexample to `DependenciesAreUp`: only the first dependent is lowered |
| `Trigger` | 2 callbacks, a waiter, a worker, a real-time thread; 4 registrations, 2 triggers; callbacks due every second time; the destructor | `RemovedIsQuiet`, `RegisteredIsReached`, `CallsReturn` |
| `Registry` | 2 modules, one of which cleans up after itself and gives the other one's process data its trigger; 2 bridges, a service provider, a listener; 3 attempts to configure a module; two services that clients call by owner and name; a configuration that fails anywhere | `BridgesMatchServices`, `OnlyOfPresentModule`, `ListenersMatchDevices`, `ClockIsFound`, `CodeIsLoaded`, `TriggerComesFirst` |
| `CharRingbuffer` | sizes 1, 2, 4; texts of 1, 2, 3, 5 characters, 18 in all | `InBounds`, `TextIsNewest`, `LastTextIsKept` |
| `LogThread` | 2 loggers, a pool of 2, 4 messages, the end at any time | `PrintedInOrder`, `QueuedIsPrinted`, `PoolRefills`, `StopReturns` |

The type invariants of all modules are proved (that of `Registry` in
`RegistryProofs`), so that no run repeats them. Both
`OneWriter` and `OwnerMayWrite` are proved for every number of process data;
the run `ProcessData` has one of each kind in turn, since they share nothing.

**Bounds.** `MaxPush` = 3 lets every buffer be front, back and flip at least once
with two frames in flight; the protocol's byte has only twelve reachable values,
so more pushes only repeat them (and the proofs cover every number). Two
providers give an owner and a competitor, two members one with an override and
one without. Three slaves give one that is late, one that is early and one that
is not active. Two
threads suffice for the races of `ModuleBase`, which are pairwise. Three modules
are the smallest chain in which a module has both a dependency and a
dependent. `MaxCalls` bounds services and registrations, `MaxErrors` errors:
each instance has enough for the case its run is about (remove and add again;
register two callbacks and wait). `MaxObjects` = 3 configures a module, fails or
reconfigures it and loads another of the same name. `MaxWritten` = 18 is more than
four times round the largest memory with texts shorter, as long as and longer than it.
`MaxMessages` = 4 uses each object of the pool twice. The largest instances are those of
`ProcessData` (3.1 million states) and `Registry` (a million, up to 130 steps deep).
`KernelServices` has one bridge, so that `RemovedInInit` is checked against the main
thread only; a second bridge can raise the module that is being removed.
`CHECK_DEADLOCK` is off where the program ends or may have nothing left to do:
bounds reached, kernel or log thread gone.

**Fairness.** Threads are scheduled: weak fairness of each thread's own next
step, never of starting a call, except that the consumer of a triple buffer is
cyclic and pops again and again, and an active slave of a collector triggers
again and again, as its device is cyclic. Strong fairness is assumed where a thread waits
for a mutex that another one takes and releases repeatedly: `std::mutex` lets a
waiting thread in eventually although it is not first-come-first-served, and the
holder releases it for a sleep (500 ms in `main`, a second in a worker). Nothing
makes a provider push, a module signal an error or a client call. The log thread
is not assumed to be notified: its wait times out after a second, and only that is
fair.

## What is proved

`TripleBufferProofs` proves, for every finite set of members and every number of
pushes, `TypeOK`, `NoDataRace`, `NewestWholeFrame`, `PushIsWaitFree`,
`NewDataIsKept`, `PeekReturnsUnread` and the refinement `ImplementsLatestValue`
(safety part). None of them is inductive: that the two ends get different
buffers depends on the byte being a permutation (`LayoutInv`), on the pointers a
thread holds being what the byte says (`PointerInv`), on what each buffer holds
(`FrameInv`) and on which exchanges may still fail (`RetryInv`): after the
consumer's exchange the flag is clear, and with a clear flag it does not exchange
again, so the provider loses at most one. `IInv` is their conjunction, checked
with TLC first; `ProviderStep` and `ConsumerStep` show that every step keeps it.

The same invariant gives the refinement of `TripleFrames` (`ImplementsTripleFrames`
in `TripleBufferProofs`): a load, an exchange that is lost and a retry are
stutters, an exchange that succeeds is `Push` or `Pop`. `ProcessDataProofs` proves
the other half under the same name: of the memory of a triple buffer, whoever is
registered, whichever overrides are in force and whichever pushes throw (under
the two assumptions below),
`ProcessData` stores and exchanges only as `TripleFrames` allows (`Memory(p)`).
The first theorem is why an exchange may be a single step of `ProcessData`, the
second that the frames of `ProcessData` are that memory and not another one. They
are not a proof that `TripleBuffer` may be put in place of the frames of
`ProcessData`: the frames of `TripleBuffer` are filled with the number of the push,
those of `ProcessData` with any natural number, and that every exchange is enabled
exactly when it is in `TripleFrames` is visible in the actions but not stated.

`ProcessDataProofs` proves `TypeOK`, `OneWriter`, `OwnerMayWrite` and `FrameIsDue`
for any sets of process data, providers and members, any kinds of buffer and any
overrides, under the two assumptions the code leaves to its users: an object is
registered with one process data (`~Shared`) and registration does not overlap
other calls (`~Overlap`). The permissions are those of `PdAccess`: its invariant
(`IInv`) says that an object and the process data it owns point at one another
except in the middle of its own call, and it carries over because every step
of `ProcessData` is one of `PdAccess` or leaves its variables alone
(`ImplementsAccess`, proved action by action). `FrameIsDue` needs in addition that
overrides are of members the description lists (`PlacesInv`), that what is left to
inject are overrides (`PushingInv`), that the frame being filled holds what
the provider wrote and what was injected so far (`BackInv`, which for a push that
throws says what a live memory shows), and that nothing is due
while a provider writes to memory the consumer sees (`LiveInv`). The theorem says of
`write` on single and pointer buffers only that it shows what was written: the
overrides that its `do_push` should have applied are not there.

`LogProofs` proves, of the dump log, `InBounds`, `TextIsNewest` and `LastTextIsKept` for any
sizes, any lengths and any number of writes. The invariant says of every place
of the memory that belongs to the text which character it holds (`UpToWrite` counts
back from the character written last, `UpToEnd` from the end of the memory), that a
full buffer is full at most once round (`Ordered`), and how much text there is
(`Amount`), all of it also between the rounds of a write, which
`TextIsNewest` says nothing about.

For `Collector`, `TriggerProofs` proves `FreshAtCallback` and `InTime` for any
number of slaves, any timeouts and any clock, under the assumption `Serial`.
`FreshAtCallback` needs to know that stamps of a cycle that has begun belong to
slaves that have triggered since the last callback (`StampsAreFresh`) and that the
loop over the slaves has passed no missing one (`CallerInv`); `InTime` that all
stamps lie between the beginning of the cycle and its timeout (`StampsInTime`).

`ModuleBaseProofs` proves `HooksExclude`, `StateTellsLevel` and
`CallsKeepTheirWord` for any set of callers and of states asked for. Its
lemmas say of the ladder what the code's nested conditions amount to: requests
and hooks are sequences (`Ladders`), a chain of hooks begins where the module is
and each hook leaves the module where the next one expects it (`HooksReach`), and
the last request is the state asked for (`RequestsEnd`). The invariant says that
the holder of `state_mtx` is the only one that runs hooks (`LockInv`), that what
a caller has left to do ends at its target (`CallInv`), and, as long as `clean` holds,
that the state is the level the hooks have reached, and that every caller whose
reading is not stale is about to go on from that level (`LevelInv`). Calls may
overlap as they like; what is excepted is only what follows a step taken on an
outdated reading.

Of the log thread, `LogProofs` proves `TypeOK` and `PrintedInOrder` for any pool, any loggers
and any number of messages. An object on its way to be printed has a message in it
(`Filled`), no object is in two places and no message in two objects
(`PlacesApart`, `MessagesApart`), and what has been queued is, in this order, what
was printed from the queue, what is being printed and what is in it (`QueueInv`);
the races of `return_pool_object` may lose objects but never duplicate one, which is
why the order survives them.

`TriggerProofs` proves `TypeOK`, `RemovedIsQuiet` and `RegisteredIsReached` for any
callbacks, workers, waiters and real-time threads. The invariant says who holds
`list_mtx` (`LockInv`), that a worker is in the map and in the list while it has a
callback or is about to get one (`WorkersInv`), which workers the calls under way
have still to end (`TodoInv`), that the lists agree with what was registered
(`RegInv`), and that a callback runs only as long as the list it was found in keeps
it (`CallInv`). That the removal from a list leaves exactly the
others (`Without`) is proved by a least counterexample, as induction over the
length is not available.

`KernelStateProofs` is about `kernel::set_state` and its callers for every set of
modules, every configuration and any number of threads, calls and errors:

* `TypeCorrect` and `LockHolds`: each active call is a frame of a stack; the
  requests of a call end at its target (`RequestsEnd`, from the tables of
  `ModuleStates`); `power_up`, `state_check` and `remove_module` hold the lock.
* `MainSurvivesHolds`: `state_check`, `~kernel`, `remove_module` and
  `reconfigure_module` only lower modules, and so do all calls nested in theirs
  (`AllDown`); as `module::set_state` knows a way to init from every state, no such
  call throws while every module is there and no hook does.
* `RemovedInInitHolds`, under `OneCaller`: services are executed one after the
  other. The assumption is needed: with two bridges, `remove_module` takes the
  module down, a `set_state` of the other bridge raises it, and then it is
  destroyed. `module_map_mtx` does not help, since `set_state` takes no lock.
* `ExclusionHoldsAlways`: two modules that exclude each other are never both above
  init, not even in the middle of a call. It assumes that `set_state` calls do not
  overlap, that no module switches itself to error, and that no module depends,
  directly or not, on one with which it excludes each other (`Consistent`).
  Without any one of the three, TLC finds it violated: two threads raise one module
  each, both past the loop over the excluded modules; error is a state above init;
  and a module that is excluded by a caller up the stack is skipped. The invariant
  (`FrameInv`) says of every frame of the stack, not only of the innermost one, which
  excluded modules have come down already and that no nested call can raise them
  again: calls nested after the first loop only lower, and the callers of a raising
  call all depend on its module (`CallersOK`).
* `DependenciesAreUpHolds`: when no call is active, no module is in a higher state
  than one it depends on, whatever services are called and wherever hooks throw. It
  assumes that set_state calls do not overlap, that no module switches itself to
  error, that services are executed one after the other and none of them is
  `reconfigure_module`, and that the graph is `Straight`: no circle, at most one
  module that depends on each, and no module that excludes another one below the
  same module. The order has to hold at every moment, not only at the end, since a
  hook may throw at any time and leave everything as it is (`Supported`). A single
  request keeps it because the call that makes it has, or had, all of the
  following in its favour, which `UpInv` says of each frame of the stack
  (`Local`): the dependencies are as high as the target or on `rest` or being
  raised by the frame above (`NeedsUp`); if the module is above the target, the
  module that depends on it has been lowered, or will be, or is being (`NeededLow`);
  a call that reaches a module through one of its own callers does not lower it
  (`CalledLow`, which covers boot as well, where the module first goes to init); a
  caller skipped by the second loop is no higher than the target already
  (`CallerLow`); and the requests still to be made lead from the state the module
  is in to the target without passing by (`RestOK`, `RequestsLead`; where a hook
  throws the module stops between the two, `HooksBetween`). `Pair` relates every
  frame to every one nested in it, directly or not, so that the frames below stay
  true when the innermost call moves its module: a nested call raises only what
  the outer module needs, never above the common target, and lowers only what it
  does not need. `Here` is for removal and shutdown: a module that has left the map
  is down, and a call that has passed its first step is about a module that is
  still there.

  TLC shows what the hypotheses are for; without each of them a smaller instance
  violates `DependenciesAreUp`. Overlap: a thread lowers a module while another
  raises one that depends on it, each past its first loop. Error: a dependency in
  error makes the call for the module above it return without an effect or an
  exception, and the one above that goes up. Two bridges: one raises the dependent
  behind the `remove_module` of the other, and the module that is added again is
  in init. `reconfigure_module`: `power_up` raises a dependent between its
  `set_state(init)` and the unconfiguring. Fork: the run `KernelForkOrder`. Circle:
  lowering one of two modules brings both to init, the one asked for first, and
  then that one goes up again alone. Exclusions: of a module that excludes what it
  depends on, or depends on two of which one excludes the other, the loop over
  the excluded modules undoes the one over the dependencies. That a module must not
  exclude one that depends on it is asked for the sake of the proof only; TLC
  finds no counterexample to that part. The instance of the run `KernelOrder`
  satisfies all of them.

`RegistryProofs` and, for modules that come and go, `RegistryModuleProofs` prove
the type invariant and every property the run `Registry` checks -
`BridgesMatchServices`, `ClockIsFound`, `TriggerComesFirst`, `CodeIsLoaded`,
`ListenersMatchDevices` and `OnlyOfPresentModule` - for any finite sets of modules,
bridges, service providers and listeners and any number of objects. Between calls
these properties are plain; in the middle of one, of any depth, they hold only
together with what is still on `todo`. So the heart of the proof is the order of
`todo` (`CallsAreOrdered`): `MayPrecede` says for two entries whether the first may
stand before the second, and every step, exceptions included, keeps all pairs in
that order (`DoStep`, `StartStep`, `ThrowStep`). From it follow: a service a bridge
does not offer yet has its `offer` pending, and one it no longer offers its
`delete` (`OfferInv`, `AllOffered`); a trigger and its process data are registered
together if one has generated the other, except between the two entries that add or remove them (`ClockInv`); and
while a listener is to be told of a process data nothing removes its trigger. An
exception drops a prefix of `todo`, which a sorted sequence survives; what is
dropped is what the properties except (`refused`, `left`).

`CodeIsLoaded` needs two more invariants. `HandlerInv`: a handler belongs to a
provider that listens and to an interface that is registered, or it is about to be
deleted; so `remove_services`, which tells the listening providers only, reaches all
handlers of a module. `CodeInv`: whatever adds something to the registry is of a module
whose shared object is open and never comes together with an unloading
(`BringInv`), and each thing that is left of a module being unloaded has the entry
that removes it ahead of `so_file`'s destructor (`LeavingInv`). For the module's own
service it is not enough that this entry is pending: `~kernel` removes every service
once more after the modules, so the invariant is about positions on `todo` (`Before`,
`KeepsBefore`). When the destructor is reached nothing stands before it, so nothing is
left. All loops over the maps are over finite sets (`RegistryAssumption`, which also
says that the names of the kinds of services, modules and listeners are distinct).

`ListenersMatchDevices` follows from `ListenInv`, three invariants about the middle of
a call. `HearInv`: a listener has heard of each device, or the `notify_add` of the very
object is pending, or one of the two is on its way out. `ServeInv`: a provider
serves the interface of a module (`Settled`), or an entry on `todo` will make it so
(`InHand`), or a bridge has refused the service of the handler; the
services of a handler are only removed when the handler is settled or in hand, so that a
removal never ends the exception. `GuardInv`: between the entries that make a
handler and a listener that is still to be told of a device there is the `catch` of
the service provider's `add_interface`, so that a handler that throws does not
keep the others from hearing.

`OnlyOfPresentModule` follows from these and from `PresentInv`, which says of each
thing that is registered under the name of a module whose it is while a call is
under way. Its proof classifies the steps by the entry at the head of `todo`
(`Runs`, with what each kind of entry puts there in `Follows` and what it leaves
alone in `Keeps`; `Begins` for calls; `Fails` for exceptions), so that one lemma
covers all entries a conjunct does not care about. The conjuncts build on
each other:

* `MakeInv`: a module that is being loaded is not there yet, one that is being
  reconfigured has no handle, and devices and services are only added for a module
  on its way (`Coming`) or one of which a failure has left something.
* `DeviceInv`: a device is of the present handle of its module, or of the one that
  is coming, or the entry that removes it is pending (`Leaving`).
* `OwnInv`: a module's own services are of the object that is there, unless it is
  being loaded or its destructor has still to finish; nothing removes them while the
  module stays. This is where a module that is reconfigured keeps its services,
  although its handle changes.
* `ServiceInv`: the service of a handler and the handler are made together, where
  neither exists, and go together.
* `ExitInv`: once `~kernel` has begun nothing is added any more, and whatever is
  still registered has the entry that removes it pending.
* `DropInv`, `AgeInv`, `FoundInv`: devices are only removed of a module that has no
  handle any more; no device is of an object yet to be made, and those of other modules are
  older than the one that is coming; and a process data that was made with another
  module's trigger finds it as long as that module's handle is the older one. `ClockIsFound` follows from these and `ClockInv`.
* `LoadInv`: a shared object that is open belongs to a module that is there, comes
  or goes, an exception in its constructor included.

Only model-checked are the liveness properties: fairness and ENABLED are beyond
the prover. Every safety property of a run that passes is stated by a theorem.

## What the counterexamples say

* `KernelForkOrder`: `kernel::set_state` adds the module itself to the list of
  callers when it lowers the first dependent, and the test for the next one looks
  for that very name; every further dependent stays up.
* `InjectionDeleted`: `pd_injection_base::del_injection` (`process_data.h:180`)
  returns when it finds the member, and erases what is not there otherwise; the
  service reports success and the override stays.

A disagreement without a run of its own, as it is plain from the code:
`write` of a process data has an argument `do_push`, "Push the buffer to set it to the actual
one" (`process_data.h:260`, and `:400`, `:585` for single and pointer buffers), which is true
by default. `single_buffer::write` and `pointer_buffer::write`
(`process_data.cpp:326`, `:603`) never look at it. What is written shows at once,
but no override is applied and the cookie does not change, whatever `do_push` says. `LetGo` is translated from the code, and
`FrameIsDue` says what such a `write` does: it shows no override.

Other statements that fail, seen by changing an instance: with `Overlap` TRUE,
`PdAccess` has a window between the two assignments of `set_provider`, and with
`Shared` TRUE, `OwnerMayWrite` and `OneWriter` fail, since `reset_provider` zeroes
the hash of an object that may still be registered elsewhere, and 0 is also the
hash of every object that is not registered; with `Serial` FALSE,
`FreshAtCallback` fails, as two slaves may both find all data there and call
back, or the second erases the stamp the first has just set; `wait()` of a trigger
misses a tick between `add_trigger` and its sleep, and so does a worker that
is still busy or just reports a timeout (the condition variables have no flag),
which is why `CallsReturn` relies on the timeouts; without
the condition `clean`, `StateTellsLevel` fails for two callers, because the
transition is chosen before `state_mtx` is taken: the second one runs hooks for a
state the module has left, or stores it at the end; and an error a module signals
in the middle of a request is overwritten by the final assignment; a change of
`module_map` by a service may fall into an iteration of `set_state`, which takes
no lock; while a module is being reconfigured `get_state` throws, in
`state_check`, which ends the main loop, as well as in `~kernel`, which then
destroys a module that is not in init; if it is reconfigured just while a request is
on its way to it, the request dereferences NULL, which is why the liveness properties
of `KernelServices` end in `crashed`; a service that is executed during
`~kernel`, whose loop takes no lock, may raise a module behind it, which is then
destroyed in that state (the second part of `ShutsDown` is for shutdowns without
services and hooks that throw); a reconfiguration takes a module down although
`power_up` has meanwhile raised one that depends on it; `state_check` also throws for a module
whose dependency was removed.

In `Registry` the exceptions written into the properties are what fails without
them. `BridgesMatchServices` excepts services that were called by owner and name:
that `call_service` (`kernel.cpp:268`) first tells every bridge to remove the
service it calls, and nothing offers it again. It excepts, too, services a bridge
has refused: `add_service` has then registered the service but its caller gets
an exception. `OnlyOfPresentModule` excepts modules of which a failure has left
something: a constructor of a module or handler that fails after it has
registered things leaves them registered, bound to an object that is gone, and
the next attempt's are ignored as duplicates until the module is removed; a
module that does not remove its devices itself keeps the old ones when it is
reconfigured. `ClockIsFound` excepts process data that use the trigger of another
module, once that module is configured again, removed or has failed: the process data keeps
the old trigger, which the kernel still names as its clock (`kernel.cpp:1152`) although
nothing of that name is registered, or another object. `TriggerComesFirst` does not say
that a listener was told of the trigger first: one that is added late is told
of all devices in the order of their names, of `pd` before `trigger`
(`kernel.cpp:861`). A listener other than a service provider is not told of devices
that `remove_devices` drops, and may keep those of such a module when its code
has been unloaded.

In `CharRingbuffer` nothing promises that a full buffer keeps all the text it
could: when the text begins at `write_start` and the next write wraps round,
`read_start` is not moved, although the text before it is complete. In
`LogThread`, `PoolRefills` has its exception because of the race in
`return_pool_object`.

Seen while reading, and outside the models:

* `svc_add_module` and `svc_remove_module` log an error with one argument fewer
  than the format has (`kernel.cpp:1017`); `log_base::log` reads `bufpos` before it
  is set (`log_base.cpp:119`); `dump_log_free` leaves a dangling pointer, which
  nothing should use after `~kernel`.
* The error path of `pop` dereferences the registered object also when there is
  none (`process_data.h:241`), as `reset_provider` does (`Crashed`).
* A pointer kept from `peek` is to a buffer that the next push may hand to the provider;
  `PeekReturnsUnread` is about the moment of the call.
* A callback that adds or removes a trigger of the device that calls it blocks on
  `list_mtx` (direct mode) or on the worker's mutex.
* A service provider without `sp_register` never initialises `sp_handle`; it
  throws from `remove_module`, which `~module` calls (`service_provider.cpp:131`).
* `inject_val` checks neither the length of the frame nor the bitmask of the entry.
* A `trigger_collector` that is default constructed has room for no slave before
  `reinit`, and `reinit` with a count of 0 does not set `receive_timeout`; a
  callback that throws does not clear it.
* Descriptions of data types are never removed: a module that is loaded again
  with a changed description of the same name is refused.
* `currently_loading_module` still points to a module whose constructor has thrown.
* `kernel_c_get_pd_handle` registers a provider when its argument `consumer` is 1.
* `power_down`, `state_change` and `state_check` with a name have
  no callers.

## What is not modelled

Left open: service calls that are executed while modules come and go, on top of
`KernelState` and `Registry`. As the code has no locks there, only what follows
the first data race could be told.

Left out for good: thread priorities and affinities (scheduling is arbitrary in
the model, which covers every assignment of them), the C interface and the
functions of `robotkernel.cpp`, which only pass their arguments on, string and
YAML helpers, the files a configuration includes (`rkc_loader.cpp`: text, read
before anything else runs), the descriptions of data types, trace points and the
build. The reactions of modules, clients and operators are arbitrary: they are
outside the repository.
