------------------------------ MODULE Registry ------------------------------
(***************************************************************************)
(* What modules register with the kernel (kernel.cpp, module.cpp, bridge,  *)
(* service_provider): services, which every bridge offers to its clients,  *)
(* and devices, of which every device listener is told.  A service         *)
(* provider is such a listener: it makes a handler for each interface it   *)
(* can serve, and a handler registers a service of its own.                *)
(*                                                                         *)
(* None of this is protected by a lock, so calls do not overlap; but they  *)
(* call back, and a callback calls the kernel again.  `todo' is the stack  *)
(* of what is left to do of the call that is going on; a loop over a map   *)
(* is put on it as one entry per element.  An exception drops the entries  *)
(* up to the end of the block that catches it.                             *)
(*                                                                         *)
(* The module of name o is reconfigured and loaded again and again: each   *)
(* object it creates carries the number of the attempt that made it, and 0 *)
(* is for nothing.                                                         *)
(* The code of a module is in a shared object, which is opened before      *)
(* anything else and closed when nothing of the module should be left.     *)
(***************************************************************************)
EXTENDS Naturals, Sequences, SequencesExt

CONSTANTS Owners,     \* names of modules
          Kernel,     \* the kernel's own name
          Tidy,       \* those that remove their devices when unconfigured
          Kinds,      \* per owner, the devices it adds: "pd", "interface"
          ClockOf,    \* per owner, whose trigger its process data names as its
                      \* clk_device: its own, if it names none
          Bridges,
          Providers,  \* service providers: one handler per interface
          Listeners,  \* device listeners of modules
          Called,     \* services that clients call by owner and name
          DoNotUnload, \* do_not_unload_modules of the configuration file
          MaxObjects  \* bound: how often modules are configured

ASSUME RegistryAssumption ==
  /\ Tidy \subseteq Owners /\ MaxObjects \in Nat /\ DoNotUnload \in BOOLEAN
  /\ Kinds \in [Owners -> SUBSET {"pd", "interface"}]
  /\ ClockOf \in [Owners -> Owners]
  /\ Providers \cap Listeners = {} /\ Kernel \notin Owners /\ "own" \notin Providers
  /\ \A S \in {Owners, Bridges, Providers, Listeners} : IsFiniteSet(S)

VARIABLES
  object,     \* per owner: the module in module_map
  mod_handle, \* and what mod_configure has returned for it
  loaded,     \* the owners whose shared object is open
  services, bridge_map,
  device_map, dl_map,
  offered,    \* external: the services each bridge offers
  handlers,   \* per provider, its handler_map
  todo,
  phase,      \* what kernel::config is at, "load" for the file at first;
              \* then "running", "stopped"
  objects,    \* the number of objects made
  \* history, not in the code:
  told,       \* the devices each listener has heard of, and not the end of
  refused,    \* the services a bridge has refused
  hidden,     \* the services called by owner and name
  left        \* the owners of which a failure has left something

modulevars == <<object, mod_handle, objects, phase, loaded>>
servicevars == <<services, bridge_map, offered, refused, hidden>>
devicevars == <<device_map, dl_map, handlers, told>>
vars == <<modulevars, servicevars, devicevars, todo, left>>

Device(o, kind) == <<o, kind>>
Devices == Owners \X {"pd", "trigger", "interface"}
(* The service of a module itself (set_state and the like) or of the       *)
(* kernel, and those of the handlers that serve the module's interface.    *)
Services == {<<o, "own">> : o \in Owners \cup {Kernel}} \cup (Owners \X Providers)

ASSUME CalledAssumption == Called \subseteq Services

Idle  == todo = <<>>
Do(c) == todo' = c \o Tail(todo)
Doing(op) == ~Idle /\ Head(todo)[1] = op
Each(S, Op(_)) == LET s == SetToSeq(S) IN [i \in DOMAIN s |-> Op(s[i])]
None(S) == [x \in S |-> 0]

(* so_file: its file is searched and opened by the constructor, and closed *)
(* by the destructor, also when the rest of the constructor fails.         *)
Open(o)  == loaded' = loaded \cup {o}
Close(S) == loaded' = IF DoNotUnload THEN loaded ELSE loaded \ S

(* sp_unregister, in ~service_provider *)
Unregister(p) == <<"remove_listener", p>>

(* ~kernel: the modules, the bridges, the service providers, the rest.     *)
AtExit ==
  Each({o \in Owners : object[o] # 0}, LAMBDA o : <<"unload", o>>)
  \o << <<"remove_bridges">> >>
  \o Each(dl_map \cap Providers, Unregister)
  \o Each(Services, LAMBDA s : <<"remove_service", s>>)

(* An exception: go on after the block that catches it.  Nothing in        *)
(* kernel::config does, and main leaves the program.                       *)
Caught == \E i \in DOMAIN todo : todo[i] = <<"catch">>
Throw ==
  LET n == IF Caught THEN SelectInSeq(todo, LAMBDA c : c = <<"catch">>) ELSE Len(todo)
  IN /\ Close({todo[i][2] : i \in {j \in 1 .. n : todo[j][1] = "loaded"}})
     /\ IF Caught
        THEN todo' = SubSeq(todo, n + 1, Len(todo)) /\ UNCHANGED phase
        ELSE todo' = AtExit /\ phase' = "stopped"

Init ==
  /\ object = None(Owners) /\ mod_handle = None(Owners) /\ objects = 0
  /\ loaded = {}
  /\ services = None(Services) /\ bridge_map = {}
  /\ device_map = None(Devices) /\ dl_map = {}
  /\ offered = [b \in Bridges |-> {}]
  /\ handlers = [p \in Providers |-> None(Owners)]
  /\ todo = <<>> /\ phase = "load"
  /\ told = [l \in Listeners |-> {}]
  /\ refused = {} /\ hidden = {} /\ left = {}

-----------------------------------------------------------------------------
(* Devices *)

(* A process data makes a trigger of its own (is_trigger_dev_generated),    *)
(* or gets the one that is registered under the name it is given.          *)
Clock(o) == Device(ClockOf[o], "trigger")
Generates(d) == d[2] = "pd" /\ ClockOf[d[1]] = d[1]
CanBeMade(d) == d[2] = "pd" /\ ~Generates(d) => device_map[Clock(d[1])] # 0

(* Mutant of AddDevice: the process data comes first, then its trigger.    *)
AddDeviceTriggerLast ==
  /\ Doing("add_device") /\ CanBeMade(Head(todo)[2])
  /\ LET d == Head(todo)[2]
         g == Head(todo)[3]
     IN IF device_map[d] # 0
        THEN Do(<<>>) /\ UNCHANGED device_map
        ELSE /\ device_map' = [device_map EXCEPT ![d] = g]
             /\ Do(Each(dl_map, LAMBDA l : <<"notify_add", l, d, g>>)
                   \o (IF Generates(d) THEN << <<"add_device", Clock(d[1]), g>> >>
                       ELSE <<>>))
  /\ UNCHANGED <<modulevars, servicevars, dl_map, handlers, told, left>>

(* A device is made and added (add_device): a process data brings the       *)
(* trigger along that it has generated.                                    *)
AddDevice ==
  /\ Doing("add_device") /\ CanBeMade(Head(todo)[2])
  /\ LET d == Head(todo)[2]
         g == Head(todo)[3]
     IN IF device_map[d] # 0
        THEN Do(<<>>) /\ UNCHANGED device_map
        ELSE /\ device_map' = [device_map EXCEPT ![d] = g]
             /\ Do((IF Generates(d) THEN << <<"add_device", Clock(d[1]), g>> >> ELSE <<>>)
                   \o Each(dl_map, LAMBDA l : <<"notify_add", l, d, g>>))
  /\ UNCHANGED <<modulevars, servicevars, dl_map, handlers, told, left>>

(* Mutant of RemoveDevice: the trigger of a process data stays. *)
RemoveDeviceKeepsTrigger ==
  /\ Doing("remove_device")
  /\ LET d == Head(todo)[2]
         g == Head(todo)[3]
     IN Do(Each(dl_map, LAMBDA l : <<"notify_remove", l, d, g>>) \o << <<"erase", d>> >>)
  /\ UNCHANGED <<modulevars, servicevars, devicevars, left>>

(* remove_device: the listeners are told whether the device is there or not. *)
RemoveDevice ==
  /\ Doing("remove_device")
  /\ LET d == Head(todo)[2]
         g == Head(todo)[3]
     IN Do((IF Generates(d) THEN << <<"remove_device", Clock(d[1]), g>> >> ELSE <<>>)
           \o Each(dl_map, LAMBDA l : <<"notify_remove", l, d, g>>)
           \o << <<"erase", d>> >>)
  /\ UNCHANGED <<modulevars, servicevars, devicevars, left>>

EraseDevice ==
  /\ Doing("erase")
  /\ device_map' = [device_map EXCEPT ![Head(todo)[2]] = 0]
  /\ Do(<<>>)
  /\ UNCHANGED <<modulevars, servicevars, dl_map, handlers, told, left>>

(* remove_devices: nobody is told. *)
RemoveDevices ==
  /\ Doing("remove_devices")
  /\ device_map' = [d \in Devices |-> IF d[1] = Head(todo)[2] THEN 0 ELSE device_map[d]]
  /\ Do(<<>>)
  /\ UNCHANGED <<modulevars, servicevars, dl_map, handlers, told, left>>

(* A listener of a module notes what it is told. *)
Notify ==
  /\ Doing("notify_add") \/ Doing("notify_remove")
  /\ LET l == Head(todo)[2]
         d == <<Head(todo)[3], Head(todo)[4]>>
     IN /\ l \in Listeners
        /\ told' = [told EXCEPT ![l] = IF Doing("notify_add") THEN @ \cup {d} ELSE @ \ {d}]
  /\ Do(<<>>)
  /\ UNCHANGED <<modulevars, servicevars, device_map, dl_map, handlers, left>>

(* A handler adds its service when it is made; if that fails there is none. *)
add_interface(p, o, g) ==
  IF handlers[p][o] # 0 THEN <<>>
  ELSE << <<"add_service", <<o, p>>, g>>, <<"new_handler", p, o, g>>, <<"catch">> >>

remove_interface(p, o) == << <<"delete_handler", p, o>> >>

(* sp_remove_module *)
remove_module(o) == Each(dl_map \cap Providers, LAMBDA p : <<"delete_handler", p, o>>)

test_interface(d) == d[2] = "interface"

(* Mutant of NotifyProvider: a handler outlives its device. *)
NotifyProviderOfAddOnly ==
  /\ Doing("notify_add") \/ Doing("notify_remove")
  /\ LET p == Head(todo)[2]
         o == Head(todo)[3][1]
         g == Head(todo)[4]
     IN /\ p \in Providers
        /\ Do(IF ~test_interface(Head(todo)[3]) \/ Doing("notify_remove") THEN <<>>
              ELSE add_interface(p, o, g))
  /\ UNCHANGED <<modulevars, servicevars, devicevars, left>>

(* A service provider makes a handler for an interface, or deletes it. *)
NotifyProvider ==
  /\ Doing("notify_add") \/ Doing("notify_remove")
  /\ LET p == Head(todo)[2]
         o == Head(todo)[3][1]
         g == Head(todo)[4]
     IN /\ p \in Providers
        /\ Do(IF ~test_interface(Head(todo)[3]) THEN <<>>
              ELSE IF Doing("notify_remove") THEN remove_interface(p, o)
              ELSE add_interface(p, o, g))
  /\ UNCHANGED <<modulevars, servicevars, devicevars, left>>

NewHandler ==
  /\ Doing("new_handler")
  /\ handlers' = [handlers EXCEPT ![Head(todo)[2]][Head(todo)[3]] = Head(todo)[4]]
  /\ Do(<<>>)
  /\ UNCHANGED <<modulevars, servicevars, device_map, dl_map, told, left>>

(* A handler that is deleted removes its service. *)
DeleteHandler ==
  /\ Doing("delete_handler")
  /\ LET p == Head(todo)[2]
         o == Head(todo)[3]
     IN /\ handlers' = [handlers EXCEPT ![p][o] = 0]
        /\ Do(IF handlers[p][o] = 0 THEN <<>> ELSE << <<"remove_service", <<o, p>> >> >>)
  /\ UNCHANGED <<modulevars, servicevars, device_map, dl_map, told, left>>

EndOfTry ==
  /\ Doing("catch") /\ Do(<<>>)
  /\ UNCHANGED <<modulevars, servicevars, devicevars, left>>

Registered == {d \in Devices : device_map[d] # 0}

(* add_device_listener *)
AddListener(l) ==
  /\ Idle /\ l \notin dl_map
  /\ dl_map' = dl_map \cup {l}
  /\ todo' = Each(Registered, LAMBDA d : <<"notify_add", l, d, device_map[d]>>)
  /\ UNCHANGED <<modulevars, servicevars, device_map, handlers, told, left>>

(* By a module at run time, and by a service provider when it is made.     *)
CallAddListener(l) == phase = "running" /\ AddListener(l)
AddProvider(p) == phase = "providers" /\ AddListener(p)

CallRemoveListener(l) ==
  /\ Idle /\ phase = "running" /\ l \in dl_map \cap Listeners
  /\ todo' = << <<"remove_listener", l>> >>
  /\ UNCHANGED <<modulevars, servicevars, devicevars, left>>

(* remove_device_listener: it hears that the devices go, then goes itself. *)
RemoveListener ==
  /\ Doing("remove_listener")
  /\ LET l == Head(todo)[2]
     IN Do(Each(Registered, LAMBDA d : <<"notify_remove", l, d, device_map[d]>>)
           \o << <<"erase_listener", l>> >>)
  /\ UNCHANGED <<modulevars, servicevars, devicevars, left>>

EraseListener ==
  /\ Doing("erase_listener")
  /\ dl_map' = dl_map \ {Head(todo)[2]}
  /\ told' = [l \in Listeners |-> IF l = Head(todo)[2] THEN {} ELSE told[l]]
  /\ Do(<<>>)
  /\ UNCHANGED <<modulevars, servicevars, device_map, handlers, left>>

-----------------------------------------------------------------------------
(* Services *)

(* add_service *)
AddService ==
  /\ Doing("add_service")
  /\ LET s == Head(todo)[2]
     IN IF services[s] # 0
        THEN Do(<<>>) /\ UNCHANGED services
        ELSE /\ services' = [services EXCEPT ![s] = Head(todo)[3]]
             /\ Do(Each(bridge_map, LAMBDA b : <<"offer", b, s>>))
  /\ UNCHANGED <<modulevars, bridge_map, offered, refused, hidden, devicevars, left>>

(* bridge_add_service, which may throw. *)
Offer ==
  /\ Doing("offer")
  /\ offered' = [offered EXCEPT ![Head(todo)[2]] = @ \cup {Head(todo)[3]}]
  /\ Do(<<>>)
  /\ UNCHANGED <<modulevars, services, bridge_map, refused, hidden, devicevars, left>>

Refuse ==
  /\ Doing("offer") /\ Throw
  /\ refused' = refused \cup {Head(todo)[3]}
  /\ left' = left \cup {Head(todo)[3][1]}
  /\ UNCHANGED <<object, mod_handle, objects, services, bridge_map,
                 offered, hidden, devicevars>>

(* Mutant of RemoveService: the bridges hear of it too late. *)
RemoveServiceDeletesFirst ==
  /\ Doing("remove_service")
  /\ LET s == Head(todo)[2]
     IN Do(IF services[s] = 0 THEN <<>>
           ELSE << <<"delete", s>> >> \o Each(bridge_map, LAMBDA b : <<"withdraw", b, s>>))
  /\ UNCHANGED <<modulevars, servicevars, devicevars, left>>

(* remove_service *)
RemoveService ==
  /\ Doing("remove_service")
  /\ LET s == Head(todo)[2]
     IN Do(IF services[s] = 0 THEN <<>>
           ELSE Each(bridge_map, LAMBDA b : <<"withdraw", b, s>>) \o << <<"delete", s>> >>)
  /\ UNCHANGED <<modulevars, servicevars, devicevars, left>>

Withdraw ==
  /\ Doing("withdraw")
  /\ offered' = [offered EXCEPT ![Head(todo)[2]] = @ \ {Head(todo)[3]}]
  /\ Do(<<>>)
  /\ UNCHANGED <<modulevars, services, bridge_map, refused, hidden, devicevars, left>>

Delete ==
  /\ Doing("delete")
  /\ LET s == Head(todo)[2]
     IN /\ services' = [services EXCEPT ![s] = 0]
        /\ refused' = refused \ {s} /\ hidden' = hidden \ {s}
  /\ Do(<<>>)
  /\ UNCHANGED <<modulevars, bridge_map, offered, devicevars, left>>

(* Mutant of RemoveServices: the service providers are not told. *)
RemoveServicesKeepsHandlers ==
  /\ Doing("remove_services")
  /\ Do(<< <<"remove_own", Head(todo)[2]>> >>)
  /\ UNCHANGED <<modulevars, servicevars, devicevars, left>>

(* remove_services: the handlers go first, then what services are left.    *)
RemoveServices ==
  /\ Doing("remove_services")
  /\ LET o == Head(todo)[2]
     IN Do(remove_module(o) \o << <<"remove_own", o>> >>)
  /\ UNCHANGED <<modulevars, servicevars, devicevars, left>>

RemoveOwn ==
  /\ Doing("remove_own")
  /\ Do(Each({s \in Services : s[1] = Head(todo)[2]}, LAMBDA s : <<"remove_service", s>>))
  /\ UNCHANGED <<modulevars, servicevars, devicevars, left>>

(* call_service(owner, name): it tells the bridges that the service goes.  *)
CallByOwner(s) ==
  /\ Idle /\ phase = "running" /\ services[s] # 0
  /\ todo' = Each(bridge_map, LAMBDA b : <<"withdraw", b, s>>)
  /\ hidden' = hidden \cup {s}
  /\ UNCHANGED <<modulevars, services, bridge_map, offered, refused, devicevars, left>>

(* kernel::config *)
AddBridge(b) ==
  /\ Idle /\ phase = "bridges" /\ b \notin bridge_map
  /\ bridge_map' = bridge_map \cup {b}
  /\ todo' = Each({s \in Services : services[s] # 0}, LAMBDA s : <<"offer", b, s>>)
  /\ UNCHANGED <<modulevars, services, offered, refused, hidden, devicevars, left>>

-----------------------------------------------------------------------------
(* Modules *)

(* mod_configure, in which the module adds its devices. *)
Configure(o, g) ==
  Each(Kinds[o], LAMBDA k : <<"add_device", Device(o, k), g>>) \o << <<"configure", o>> >>

(* mod_unconfigure, in which a tidy module removes them. *)
Unconfigure(o) ==
  IF o \in Tidy /\ mod_handle[o] # 0
  THEN Each(Kinds[o], LAMBDA k : <<"remove_device", Device(o, k), mod_handle[o]>>)
  ELSE <<>>

(* module::module: its services come last. *)
Construct(o, g) == Configure(o, g) \o << <<"add_service", <<o, "own">>, g>> >>

Configured ==
  /\ Doing("configure")
  /\ Do(<<>>)
  /\ UNCHANGED <<modulevars, servicevars, devicevars, left>>

(* It returns NULL, or throws, with some devices added or with all of them. *)
ConfigureFails ==
  /\ \/ Doing("configure") /\ left' = left \cup {Head(todo)[2]}
     \/ /\ Doing("add_device") /\ Head(todo)[2][2] # "trigger"
        /\ left' = left \cup {Head(todo)[2][1]}
  /\ Throw
  /\ UNCHANGED <<object, mod_handle, objects, servicevars, devicevars>>

(* load_module.  A file that is not found or cannot be opened leaves       *)
(* nothing.                                                                *)
load_module(o, end) ==
  /\ Idle /\ object[o] = 0 /\ objects < MaxObjects
  /\ objects' = objects + 1
  /\ Open(o)
  /\ todo' = Construct(o, objects') \o << <<"loaded", o, objects'>> >> \o end
  /\ UNCHANGED <<object, mod_handle, phase, servicevars, devicevars, left>>

(* kernel::config, which does the same, and the service, which catches.    *)
CreateModule(o) == phase = "modules" /\ load_module(o, <<>>)
svc_add_module(o) == phase = "running" /\ load_module(o, << <<"catch">> >>)

Loaded ==
  /\ Doing("loaded")
  /\ LET o == Head(todo)[2]
         g == Head(todo)[3]
     IN object' = [object EXCEPT ![o] = g] /\ mod_handle' = [mod_handle EXCEPT ![o] = g]
  /\ Do(<<>>)
  /\ UNCHANGED <<objects, phase, loaded, servicevars, devicevars, left>>

(* The service reconfigure_module.  Like remove_module it first asks for    *)
(* the state of the module, and fails if that has no handle.               *)
svc_reconfigure_module(o) ==
  /\ Idle /\ phase = "running" /\ object[o] # 0 /\ mod_handle[o] # 0
  /\ objects < MaxObjects
  /\ objects' = objects + 1
  /\ mod_handle' = [mod_handle EXCEPT ![o] = 0]
  /\ todo' = Unconfigure(o) \o Configure(o, objects')
             \o << <<"reconfigured", o, objects'>>, <<"catch">> >>
  /\ left' = IF o \in Tidy THEN left ELSE left \cup {o}
  /\ UNCHANGED <<object, phase, loaded, servicevars, devicevars>>

Reconfigured ==
  /\ Doing("reconfigured")
  /\ mod_handle' = [mod_handle EXCEPT ![Head(todo)[2]] = Head(todo)[3]]
  /\ Do(<<>>)
  /\ UNCHANGED <<object, objects, phase, loaded, servicevars,
                 devicevars, left>>

(* The service remove_module. *)
svc_remove_module(o) ==
  /\ Idle /\ phase = "running" /\ object[o] # 0 /\ mod_handle[o] # 0
  /\ todo' = << <<"unload", o>> >>
  /\ UNCHANGED <<modulevars, servicevars, devicevars, left>>

(* Mutant of Unload: the shared object is closed too early. *)
UnloadClosesFirst ==
  /\ Doing("unload")
  /\ LET o == Head(todo)[2]
     IN /\ Do(Unconfigure(o) \o << <<"unloaded", o>>, <<"remove_devices", o>>,
                                   <<"remove_services", o>> >>)
        /\ object' = [object EXCEPT ![o] = 0] /\ mod_handle' = [mod_handle EXCEPT ![o] = 0]
  /\ UNCHANGED <<objects, phase, loaded, servicevars, devicevars, left>>

(* ~module, then ~so_file *)
Unload ==
  /\ Doing("unload")
  /\ LET o == Head(todo)[2]
     IN /\ Do(Unconfigure(o) \o << <<"remove_devices", o>>, <<"remove_services", o>>,
                                   <<"unloaded", o>> >>)
        /\ object' = [object EXCEPT ![o] = 0] /\ mod_handle' = [mod_handle EXCEPT ![o] = 0]
  /\ UNCHANGED <<objects, phase, loaded, servicevars, devicevars, left>>

Unloaded ==
  /\ Doing("unloaded")
  /\ Close({Head(todo)[2]})
  /\ left' = left \ {Head(todo)[2]}
  /\ Do(<<>>)
  /\ UNCHANGED <<object, mod_handle, objects, phase, servicevars, devicevars>>

-----------------------------------------------------------------------------
(* main, with kernel::config *)

ReadConfig ==
  /\ Idle /\ phase = "load" /\ phase' = "modules"
  /\ UNCHANGED <<object, mod_handle, objects, loaded, servicevars, devicevars, todo, left>>

(* It creates modules, then bridges, then service providers, and at last   *)
(* adds the services of the kernel.                                        *)
NextPhase ==
  /\ Idle
  /\ \/ phase = "modules" /\ phase' = "bridges" /\ UNCHANGED todo
     \/ phase = "bridges" /\ phase' = "providers" /\ UNCHANGED todo
     \/ /\ phase = "providers" /\ phase' = "running"
        /\ todo' = << <<"add_service", <<Kernel, "own">>, 1>> >>
  /\ UNCHANGED <<object, mod_handle, objects, loaded, servicevars,
                 devicevars, left>>

(* A file that is missing, a name that occurs twice, a symbol that is not  *)
(* exported.                                                               *)
ConfigFails ==
  /\ Idle /\ phase \in {"load", "modules", "bridges", "providers"}
  /\ Throw
  /\ UNCHANGED <<object, mod_handle, objects, servicevars, devicevars, left>>

(* A signal ends the loop of main. *)
Shutdown ==
  /\ Idle /\ phase = "running"
  /\ phase' = "stopped" /\ todo' = AtExit
  /\ UNCHANGED <<object, mod_handle, objects, loaded, servicevars,
                 devicevars, left>>

RemoveBridges ==
  /\ Doing("remove_bridges")
  /\ bridge_map' = {} /\ offered' = [b \in Bridges |-> {}]
  /\ Do(<<>>)
  /\ UNCHANGED <<modulevars, services, refused, hidden, devicevars, left>>

-----------------------------------------------------------------------------
(* What the services of the kernel tell a client, and get_device a module: *)
(* an object, or 0 for an error.                                           *)

svc_module_list  == {o \in Owners : object[o] # 0}
svc_list_devices == {d \in Devices : device_map[d] # 0}

get_device(d, type) == IF d[2] = type THEN device_map[d] ELSE 0

(* trigger_info, stream_info, service_interface_info: the owner, if the    *)
(* device is there and of that type.                                       *)
svc_device_info(d, type) == IF get_device(d, type) = 0 THEN {} ELSE {d[1]}

svc_process_data_info(d) ==
  IF get_device(d, "pd") = 0 THEN {}
  ELSE {[owner |-> d[1], clk_device |-> Clock(d[1])]}

-----------------------------------------------------------------------------
Call ==
  \/ \E l \in Listeners : CallAddListener(l) \/ CallRemoveListener(l)
  \/ \E p \in Providers : AddProvider(p)
  \/ \E s \in Called : CallByOwner(s)
  \/ \E b \in Bridges : AddBridge(b)
  \/ \E o \in Owners : CreateModule(o) \/ svc_add_module(o)
  \/ \E o \in Owners : svc_reconfigure_module(o) \/ svc_remove_module(o)
  \/ ReadConfig \/ NextPhase \/ ConfigFails \/ Shutdown

DeviceStep ==
  \/ AddDevice \/ RemoveDevice \/ EraseDevice \/ RemoveDevices
  \/ Notify \/ NotifyProvider \/ NewHandler \/ DeleteHandler \/ EndOfTry
  \/ RemoveListener \/ EraseListener

ServiceStep ==
  \/ AddService \/ Offer \/ Refuse \/ RemoveService \/ Withdraw \/ Delete
  \/ RemoveServices \/ RemoveOwn \/ RemoveBridges

ModuleStep ==
  \/ Configured \/ ConfigureFails \/ Loaded \/ Reconfigured \/ Unload \/ Unloaded

Next == Call \/ DeviceStep \/ ServiceStep \/ ModuleStep

Spec == Init /\ [][Next]_vars

-----------------------------------------------------------------------------
(* Properties. *)

(* A bridge never holds on to a service that has been deleted, also in the *)
(* middle of a removal; and between calls it offers every service, whichever *)
(* of them came first, unless a bridge has refused it or it has been called  *)
(* by owner and name.                                                      *)
BridgesMatchServices ==
  /\ \A b \in Bridges : \A s \in offered[b] : services[s] # 0
  /\ Idle => \A b \in bridge_map, s \in Services :
               services[s] # 0 => s \in offered[b] \cup refused \cup hidden

(* Whatever is registered under the name of a module is of its present     *)
(* object and handle, and nothing is when there is no such module, unless  *)
(* a failure has left something, until a module of that name is removed.   *)
(* When the program has ended, whatever failed in kernel::config, nothing  *)
(* is left at all, but devices of a failure.                               *)
OnlyOfPresentModule ==
  Idle => /\ \A o \in Owners \ left :
               /\ services[<<o, "own">>] = object[o]
               /\ \A p \in Providers : {services[<<o, p>>], handlers[p][o]} \subseteq {0, mod_handle[o]}
               /\ \A d \in Devices : d[1] = o => device_map[d] \in {0, mod_handle[o]}
          /\ phase = "stopped" =>
               /\ services = None(Services) /\ svc_module_list = {}
               /\ bridge_map = {} /\ dl_map \cap Providers = {}
               /\ \A p \in Providers : handlers[p] = None(Owners)
               /\ \A d \in svc_list_devices : d[1] \in left
               /\ DoNotUnload \/ loaded = {}

(* Whichever came first, a listener has heard of every device, and a        *)
(* service provider serves the interfaces that are registered, and these   *)
(* only, unless a bridge has refused the service of the handler.           *)
ListenersMatchDevices ==
  Idle => /\ \A l \in Listeners \cap dl_map, d \in Devices :
               device_map[d] # 0 => <<d, device_map[d]>> \in told[l]
          /\ \A p \in Providers, o \in Owners :
               \/ handlers[p][o] = IF p \in dl_map THEN device_map[<<o, "interface">>] ELSE 0
               \/ <<o, p>> \in refused

(* A client finds its way from device to device: the clock that the kernel *)
(* names for a process data is a registered trigger, and the one this very *)
(* process data triggers, if it has generated it; and if it was made with  *)
(* that of another module, as long as that module is not configured again, *)
(* removed, or has failed.  No trigger outlives the process data that has  *)
(* generated it.                                                           *)
ClockIsFound ==
  Idle => /\ \A d \in svc_list_devices : \A i \in svc_process_data_info(d) :
               LET c == i.clk_device
               IN IF c[1] = i.owner
                  THEN /\ svc_device_info(c, "trigger") = {i.owner}
                       /\ get_device(c, "trigger") = get_device(d, "pd")
                  ELSE c[1] \notin left /\ mod_handle[c[1]] \in 1 .. get_device(d, "pd")
                         => get_device(c, "trigger") = mod_handle[c[1]]
          /\ \A d \in svc_list_devices : svc_device_info(d, "trigger") # {} =>
               \E e \in svc_list_devices : \E i \in svc_process_data_info(e) :
                 i.clk_device = d /\ i.owner = d[1]

(* While anything of a module is registered, or a handler holds on to its  *)
(* interface, its shared object is open, also in the middle of a call:     *)
(* code that could still be called is never unloaded.                      *)
CodeIsLoaded ==
  \A o \in Owners \ (loaded \cup left) :
    /\ o \notin svc_module_list /\ services[<<o, "own">>] = 0
    /\ \A d \in Devices : d[1] = o => device_map[d] = 0
    /\ \A p \in Providers : handlers[p][o] = 0

(* When a listener hears of a process data, the trigger that this has       *)
(* generated is registered, and can be got.                                *)
TriggerComesFirst ==
  [][\A l \in Listeners : \A d \in told'[l] \ told[l] :
       Generates(d[1]) => device_map[Clock(d[1][1])] = d[2]]_vars
=============================================================================
