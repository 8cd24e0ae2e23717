------------------------ MODULE RegistryModuleProofs ------------------------
(***************************************************************************)
(* Registry while modules come and go: the code of a module stays until    *)
(* nothing refers to it, listeners and service providers keep up with the  *)
(* devices, and what is registered is of the module that is there.  All of *)
(* it rests on the order of calls and on the invariants of RegistryProofs. *)
(***************************************************************************)
EXTENDS RegistryProofs

-----------------------------------------------------------------------------
(* The code of modules. *)

(* Entries that register something, or keep a module. *)
Brings == {"add_device", "notify_add", "add_service", "new_handler", "configure",
           "loaded", "reconfigured"}

(* They are about a module whose code is there, and never come together    *)
(* with the end of a module.                                               *)
BringInv ==
  /\ \A e \in Pending : e[1] \in Brings => OwnerOf(e) \in loaded \cup left \cup {Kernel}
  /\ \A e, f \in Pending : e[1] \in Brings => f[1] \notin {"unload", "unloaded"}

(* Nothing that could be called is of o. *)
Absent(o) ==
  /\ object[o] = 0 /\ services[<<o, "own">>] = 0
  /\ \A d \in Devices : d[1] = o => device_map[d] = 0
  /\ \A p \in Providers : handlers[p][o] = 0
LoadedInv == \A o \in Owners \ (loaded \cup left) : Absent(o)

(* What is left of a module at its end is removed before its code. *)
ServicesGo(o) ==
  \A s \in Services : s[1] = o =>
    \/ services[s] = 0
    \/ <<"remove_services", o>> \in Pending \/ <<"remove_own", o>> \in Pending
    \/ <<"delete", s>> \in Pending
    \/ Before(todo, <<"remove_service", s>>, <<"unloaded", o>>)
HandlersGo(o) ==
  \A p \in Providers : handlers[p][o] # 0 =>
    <<"remove_services", o>> \in Pending \/ <<"delete_handler", p, o>> \in Pending
DevicesGo(o) ==
  \/ <<"remove_devices", o>> \in Pending
  \/ \A d \in Devices : d[1] = o => device_map[d] = 0
LeavingInv ==
  \A o \in Owners : <<"unloaded", o>> \in Pending =>
    object[o] = 0 /\ ServicesGo(o) /\ HandlersGo(o) /\ DevicesGo(o)

CodeInv == BringInv /\ LoadedInv /\ LeavingInv

LEMMA BringsDoes ==
  ASSUME BringInv, NEW C, Does(C), loaded \cup left \subseteq loaded' \cup left',
         \A e \in C : e[1] \in Brings => Head(todo)[1] \in Brings /\ OwnerOf(e) = OwnerOf(Head(todo)),
         \A e \in C : e[1] \in {"unload", "unloaded"} => Head(todo)[1] = "unload"
  PROVE  BringInv'
<1>1. Pending = {Head(todo)} \cup Rest /\ Pending' = C \cup Rest
  BY DEF Does
<1>2. \A e \in Pending' : e[1] \in Brings => OwnerOf(e) \in loaded' \cup left' \cup {Kernel}
  BY <1>1 DEF BringInv
<1>3. ASSUME NEW e \in Pending', NEW f \in Pending', e[1] \in Brings, f[1] \in {"unload", "unloaded"}
      PROVE  FALSE
  <2>1. PICK x \in Pending : x[1] \in Brings
    BY <1>1, <1>3
  <2>2. \A y \in Pending : y[1] \notin {"unload", "unloaded"}
    BY <2>1 DEF BringInv
  <2>3. Head(todo)[1] # "unload" /\ f \notin Rest
    BY <1>1, <1>3, <2>2
  <2> QED BY <1>1, <1>3, <2>3
<1>4. \A e \in Pending' : e[1] \in Brings => OwnerOf(e) \in (loaded \cup left \cup {Kernel})'
  BY <1>2
<1> QED BY <1>3, <1>4 DEF BringInv, OwnerOf

LEMMA BringsStarts ==
  ASSUME NEW C, Starts(C),
         \A e \in C : /\ e[1] \in Brings => OwnerOf(e) \in loaded' \cup left' \cup {Kernel}
                      /\ e[1] \notin {"unload", "unloaded"}
  PROVE  BringInv'
<1>1. Pending' = C
  BY DEF Starts
<1> QED BY <1>1 DEF BringInv, OwnerOf

LEMMA NothingBrought ==
  ASSUME \A e \in Pending' : e[1] \notin Brings
  PROVE  BringInv'
  BY DEF BringInv, OwnerOf

LEMMA ServicesStay ==
  ASSUME NEW o \in Owners, NEW C, Does(C), <<"unloaded", o>> \notin C, ServicesGo(o),
         UNCHANGED services,
         Head(todo)[1] \notin {"remove_services", "remove_own", "remove_service", "delete"}
  PROVE  ServicesGo(o)'
<1> SUFFICES ASSUME NEW s \in Services, s[1] = o
             PROVE  \/ services'[s] = 0
                    \/ <<"remove_services", o>> \in Pending' \/ <<"remove_own", o>> \in Pending'
                    \/ <<"delete", s>> \in Pending'
                    \/ Before(todo', <<"remove_service", s>>, <<"unloaded", o>>)
  BY DEF ServicesGo, Before
<1>1. Pending = {Head(todo)} \cup Rest /\ Pending' = C \cup Rest /\ KeepsBefore(C)
  BY DEF Does
<1>2. /\ <<"remove_services", o>> \in Pending => <<"remove_services", o>> \in Pending'
      /\ <<"remove_own", o>> \in Pending => <<"remove_own", o>> \in Pending'
      /\ <<"delete", s>> \in Pending => <<"delete", s>> \in Pending'
  BY <1>1
<1>3. Before(todo, <<"remove_service", s>>, <<"unloaded", o>>) =>
        Before(todo', <<"remove_service", s>>, <<"unloaded", o>>)
  <2>1. <<"remove_service", s>> \in Entries /\ <<"unloaded", o>> \in Entries
    BY Made
  <2>2. <<"remove_service", s>> # Head(todo)
    OBVIOUS
  <2> QED BY <1>1, <2>1, <2>2 DEF KeepsBefore
<1> QED BY <1>2, <1>3 DEF ServicesGo, Before

LEMMA HandlersStay ==
  ASSUME NEW o \in Owners, NEW C, Does(C), HandlersGo(o),
         \A p \in Providers : handlers'[p][o] \in {0, handlers[p][o]},
         Head(todo)[1] \notin {"remove_services", "delete_handler"}
  PROVE  HandlersGo(o)'
<1>1. Pending = {Head(todo)} \cup Rest /\ Pending' = C \cup Rest
  BY DEF Does
<1>2. /\ <<"remove_services", o>> \in Pending => <<"remove_services", o>> \in Pending'
      /\ \A p : <<"delete_handler", p, o>> \in Pending => <<"delete_handler", p, o>> \in Pending'
  BY <1>1
<1> QED BY <1>2 DEF HandlersGo

LEMMA DevicesStay ==
  ASSUME NEW o \in Owners, NEW C, Does(C), DevicesGo(o),
         \A d \in Devices : device_map'[d] \in {0, device_map[d]},
         Head(todo)[1] # "remove_devices"
  PROVE  DevicesGo(o)'
<1>1. Pending = {Head(todo)} \cup Rest /\ Pending' = C \cup Rest
  BY DEF Does
<1>2. <<"remove_devices", o>> \in Pending => <<"remove_devices", o>> \in Pending'
  BY <1>1
<1> QED BY <1>2 DEF DevicesGo

(* Before the end of a module stands what is about this module only. *)
LEMMA LeavingDoes ==
  ASSUME LeavingInv, NEW C, Does(C), UNCHANGED object, \A e \in C : e[1] # "unloaded",
         \A o \in Owners :
           /\ OwnerOf(Head(todo)) = o /\ Head(todo)[1] \in Unloads
           /\ ServicesGo(o) /\ HandlersGo(o) /\ DevicesGo(o)
           => ServicesGo(o)' /\ HandlersGo(o)' /\ DevicesGo(o)'
  PROVE  LeavingInv'
<1>1. /\ Pending = {Head(todo)} \cup Rest /\ Pending' = C \cup Rest
      /\ \A f \in Rest : MayPrecede(Head(todo), f)
  BY DEF Does
<1>2. ASSUME NEW o \in Owners, <<"unloaded", o>> \in Pending'
      PROVE  object'[o] = 0 /\ ServicesGo(o)' /\ HandlersGo(o)' /\ DevicesGo(o)'
  <2>1. <<"unloaded", o>> \in Rest
    BY <1>1, <1>2
  <2>2. OwnerOf(Head(todo)) = o /\ Head(todo)[1] \in Unloads
    BY <1>1, <2>1 DEF MayPrecede
  <2>3. object[o] = 0 /\ ServicesGo(o) /\ HandlersGo(o) /\ DevicesGo(o)
    BY <1>1, <2>1 DEF LeavingInv
  <2> QED BY <2>2, <2>3
<1> QED BY <1>2 DEF LeavingInv

LEMMA NobodyLeaves ==
  ASSUME \A e \in Pending' : e[1] # "unloaded"
  PROVE  LeavingInv'
  BY DEF LeavingInv

LEMMA LeavingBrings ==
  ASSUME BringInv, NEW C, Does(C), Head(todo)[1] \in Brings, \A e \in C : e[1] # "unloaded"
  PROVE  LeavingInv'
<1>1. Pending = {Head(todo)} \cup Rest /\ Pending' = C \cup Rest
  BY DEF Does
<1>2. \A e \in Rest : e[1] # "unloaded"
  BY <1>1 DEF BringInv
<1> QED BY <1>1, <1>2, NobodyLeaves

LEMMA StaysLoaded ==
  ASSUME LoadedInv, loaded \cup left \subseteq loaded' \cup left',
         \A o \in Owners \ (loaded' \cup left') : Absent(o) => Absent(o)'
  PROVE  LoadedInv'
  BY DEF LoadedInv, Absent

(* A step that adds nothing. *)
LEMMA CodeDoes ==
  ASSUME CodeInv, NEW C, Does(C),
         Head(todo)[1] \notin {"remove_services", "remove_own", "remove_service", "delete",
                               "delete_handler", "remove_devices"},
         UNCHANGED <<object, services, handlers, loaded, left>>,
         \A d \in Devices : device_map'[d] \in {0, device_map[d]},
         \A e \in C : e[1] \notin Brings /\ e[1] \notin {"unload", "unloaded"}
  PROVE  CodeInv'
<1>1. BringInv'
  BY BringsDoes DEF CodeInv
<1>2. LoadedInv'
  <2>1. \A o \in Owners : Absent(o) => Absent(o)'
    BY DEF Absent
  <2> QED BY <2>1, StaysLoaded DEF CodeInv
<1>3. LeavingInv'
  <2>1. \A o \in Owners : ServicesGo(o) => ServicesGo(o)'
    BY ServicesStay
  <2>2. \A o \in Owners : HandlersGo(o) => HandlersGo(o)'
    BY HandlersStay
  <2>3. \A o \in Owners : DevicesGo(o) => DevicesGo(o)'
    BY DevicesStay
  <2> QED BY <2>1, <2>2, <2>3, LeavingDoes DEF CodeInv
<1> QED BY <1>1, <1>2, <1>3 DEF CodeInv

(* A step that adds something of a module whose code is there. *)
LEMMA CodeBrings ==
  ASSUME CodeInv, NEW C, Does(C), Head(todo)[1] \in Brings, UNCHANGED <<loaded, left>>,
         \A e \in C : /\ e[1] \in Brings => OwnerOf(e) = OwnerOf(Head(todo))
                      /\ e[1] \notin {"unload", "unloaded"},
         \A o \in Owners : o # OwnerOf(Head(todo)) /\ Absent(o) => Absent(o)'
  PROVE  CodeInv'
<1>1. BringInv'
  BY BringsDoes DEF CodeInv
<1>2. LeavingInv'
  BY LeavingBrings DEF CodeInv
<1>3. OwnerOf(Head(todo)) \in loaded \cup left \cup {Kernel}
  BY DEF CodeInv, BringInv, Does
<1>4. LoadedInv'
  <2>1. \A o \in Owners \ (loaded' \cup left') : o # OwnerOf(Head(todo))
    BY <1>3, RegistryAssumption
  <2> QED BY <2>1, StaysLoaded DEF CodeInv
<1> QED BY <1>1, <1>2, <1>4 DEF CodeInv

LEMMA CodeStarts ==
  ASSUME CodeInv, NEW C, Starts(C),
         UNCHANGED <<object, services, device_map, handlers, loaded, left>>,
         \A e \in C : e[1] \notin Brings /\ e[1] # "unloaded"
  PROVE  CodeInv'
<1>1. BringInv' /\ LeavingInv'
  BY NothingBrought, NobodyLeaves DEF Starts
<1>2. LoadedInv'
  BY DEF CodeInv, LoadedInv, Absent
<1> QED BY <1>1, <1>2 DEF CodeInv

(* The modules whose code an exception closes have left something. *)
LEMMA CodeThrows ==
  ASSUME TypeOK, Sorted(todo), CodeInv, Throws, UNCHANGED <<object, services, device_map, handlers>>,
         \A e \in Pending : e[1] # "unloaded",
         \A n \in 0 .. Len(todo) : Lost(n) \subseteq left', left \subseteq left'
  PROVE  CodeInv'
<1>1. \/ Pending' = Exit
      \/ Pending' \subseteq Pending
  BY AfterThrow
<1>2. \A e \in Exit : e[1] \notin Brings /\ e[1] # "unloaded"
  BY DEF Exit, Brings
<1>3. loaded \subseteq loaded' \cup left'
  <2>1. Len(todo) \in Nat
    BY LenProperties DEF TypeOK
  <2>2. PICK n \in 0 .. Len(todo) : Close(Lost(n))
    BY <2>1 DEF Throws, Catches, GivesUp
  <2> QED BY <2>2 DEF Close
<1>4. loaded \cup left \subseteq loaded' \cup left'
  BY <1>3
<1>5. BringInv'
  <2>1. CASE Pending' = Exit
    BY <1>2, <2>1, NothingBrought
  <2>2. CASE Pending' \subseteq Pending
    <3>1. \A e \in Pending' : e[1] \in Brings => OwnerOf(e) \in loaded' \cup left' \cup {Kernel}
      BY <1>4, <2>2 DEF CodeInv, BringInv
    <3> QED BY <2>2, <3>1 DEF CodeInv, BringInv, OwnerOf
  <2> QED BY <1>1, <2>1, <2>2
<1>6. LeavingInv'
  BY <1>1, <1>2, NobodyLeaves
<1>7. LoadedInv'
  BY <1>4, StaysLoaded DEF CodeInv, Absent
<1> QED BY <1>5, <1>6, <1>7 DEF CodeInv

LEMMA AddDeviceKeepsCode ==
  ASSUME TypeOK, Sorted(todo), CodeInv, AddDevice
  PROVE  CodeInv'
<1>1. PICK d, g : d = Head(todo)[2] /\ g = Head(todo)[3]
  OBVIOUS
<1> DEFINE C == IF device_map[d] # 0 THEN {}
                ELSE TriggerToo("add_device", d, g) \cup ToldTo("notify_add", d, g)
<1>2. /\ Head(todo) = <<"add_device", d, g>> /\ d \in Devices /\ Does(C)
      /\ UNCHANGED <<object, services, handlers, loaded, left>>
  BY <1>1, AddDeviceDoes DEF AddDevice, modulevars, servicevars
<1>3. \A e \in C : OwnerOf(e) = d[1] /\ e[1] \in {"add_device", "notify_add"}
  BY DEF TriggerToo, ToldTo, OwnerOf, Device
<1>4. OwnerOf(Head(todo)) = d[1] /\ Head(todo)[1] \in Brings
  BY <1>2 DEF OwnerOf, Brings
<1> HIDE DEF C
<1>5. \A e \in Devices : e # d => device_map'[e] = device_map[e]
  BY <1>1 DEF AddDevice, TypeOK
<1>6. \A o \in Owners : o # OwnerOf(Head(todo)) /\ Absent(o) => Absent(o)'
  BY <1>2, <1>4, <1>5 DEF Absent
<1> QED BY <1>2, <1>3, <1>4, <1>6, CodeBrings

LEMMA RemoveDevicesKeepsCode ==
  ASSUME TypeOK, Sorted(todo), CodeInv, RemoveDevices
  PROVE  CodeInv'
<1>1. PICK o : o = Head(todo)[2]
  OBVIOUS
<1>2. /\ Head(todo) = <<"remove_devices", o>> /\ o \in Owners /\ Does({})
      /\ UNCHANGED <<object, services, handlers, loaded, left>>
      /\ device_map' = [d \in Devices |-> IF d[1] = o THEN 0 ELSE device_map[d]]
  BY <1>1, RemoveDevicesDoes DEF RemoveDevices, modulevars, servicevars
<1>3. BringInv'
  BY <1>2, BringsDoes DEF CodeInv
<1>4. LoadedInv'
  <2>1. \A q \in Owners : Absent(q) => Absent(q)'
    BY <1>2 DEF Absent
  <2> QED BY <1>2, <2>1, StaysLoaded DEF CodeInv
<1>5. LeavingInv'
  <2>1. OwnerOf(Head(todo)) = o
    BY <1>2 DEF OwnerOf
  <2>2. ServicesGo(o) => ServicesGo(o)'
    <3>1. /\ Head(todo)[1] \notin {"remove_services", "remove_own", "remove_service", "delete"}
          /\ UNCHANGED services
      BY <1>2
    <3> QED BY <1>2, <3>1, ServicesStay
  <2>3. HandlersGo(o) => HandlersGo(o)'
    BY <1>2, HandlersStay
  <2>4. DevicesGo(o)'
    BY <1>2 DEF DevicesGo
  <2> QED BY <1>2, <2>1, <2>2, <2>3, <2>4, LeavingDoes DEF CodeInv
<1> QED BY <1>3, <1>4, <1>5 DEF CodeInv

LEMMA NotifyKeepsCode ==
  ASSUME TypeOK, Sorted(todo), CodeInv, Notify
  PROVE  CodeInv'
<1>1. PICK l, d, g : l = Head(todo)[2] /\ d = Head(todo)[3] /\ g = Head(todo)[4]
  OBVIOUS
<1>2. /\ Does({}) /\ UNCHANGED <<object, services, device_map, handlers, loaded, left>>
      /\ \/ Head(todo) = <<"notify_add", l, d, g>>
         \/ Head(todo) = <<"notify_remove", l, d, g>>
  BY <1>1, NotifyDoes DEF Notify, modulevars, servicevars
<1>3. CASE Head(todo) = <<"notify_add", l, d, g>>
  <2>1. Head(todo)[1] \in Brings
    BY <1>3 DEF Brings
  <2>2. \A o \in Owners : Absent(o) => Absent(o)'
    BY <1>2 DEF Absent
  <2> QED BY <1>2, <2>1, <2>2, CodeBrings
<1>4. CASE Head(todo) = <<"notify_remove", l, d, g>>
  BY <1>2, <1>4, CodeDoes
<1> QED BY <1>2, <1>3, <1>4

LEMMA NotifyProviderKeepsCode ==
  ASSUME TypeOK, Sorted(todo), CodeInv, NotifyProvider
  PROVE  CodeInv'
<1>1. PICK p, d, g : p = Head(todo)[2] /\ d = Head(todo)[3] /\ g = Head(todo)[4]
  OBVIOUS
<1>2. /\ UNCHANGED <<object, services, device_map, handlers, loaded, left>>
      /\ \/ /\ Head(todo) = <<"notify_add", p, d, g>>
            /\ Does(IF d[2] # "interface" THEN {} ELSE Handled(p, d[1], g))
         \/ /\ Head(todo) = <<"notify_remove", p, d, g>>
            /\ Does(IF d[2] # "interface" THEN {} ELSE {<<"delete_handler", p, d[1]>>})
  BY <1>1, NotifyProviderDoes DEF NotifyProvider, modulevars, servicevars, devicevars
<1>3. CASE Head(todo) = <<"notify_add", p, d, g>>
  <2> DEFINE C == IF d[2] # "interface" THEN {} ELSE Handled(p, d[1], g)
  <2>1. Head(todo)[1] \in Brings /\ OwnerOf(Head(todo)) = d[1] /\ Does(C)
    BY <1>2, <1>3 DEF Brings, OwnerOf
  <2>2. \A e \in C : /\ e[1] \in Brings => OwnerOf(e) = d[1]
                     /\ e[1] \notin {"unload", "unloaded"}
    BY DEF Handled, OwnerOf, Brings
  <2> HIDE DEF C
  <2>3. \A o \in Owners : Absent(o) => Absent(o)'
    BY <1>2 DEF Absent
  <2> QED BY <1>2, <2>1, <2>2, <2>3, CodeBrings
<1>4. CASE Head(todo) = <<"notify_remove", p, d, g>>
  <2> DEFINE C == IF d[2] # "interface" THEN {} ELSE {<<"delete_handler", p, d[1]>>}
  <2>1. \A e \in C : e[1] \notin Brings /\ e[1] \notin {"unload", "unloaded"}
    BY DEF Brings
  <2>2. Does(C)
    BY <1>2, <1>4
  <2> HIDE DEF C
  <2> QED BY <1>2, <1>4, <2>1, <2>2, CodeDoes
<1> QED BY <1>2, <1>3, <1>4

LEMMA NewHandlerKeepsCode ==
  ASSUME TypeOK, Sorted(todo), CodeInv, NewHandler
  PROVE  CodeInv'
<1>1. PICK p, o, g : p = Head(todo)[2] /\ o = Head(todo)[3] /\ g = Head(todo)[4]
  OBVIOUS
<1>2. /\ Head(todo) = <<"new_handler", p, o, g>> /\ Does({})
      /\ UNCHANGED <<object, services, device_map, loaded, left>>
      /\ handlers' = [handlers EXCEPT ![p][o] = g]
  BY <1>1, NewHandlerDoes DEF NewHandler, modulevars, servicevars
<1>3. Head(todo)[1] \in Brings /\ OwnerOf(Head(todo)) = o
  BY <1>2 DEF Brings, OwnerOf
<1>4. \A q \in Owners : q # o /\ Absent(q) => Absent(q)'
  BY <1>2 DEF Absent, TypeOK
<1> QED BY <1>2, <1>3, <1>4, CodeBrings

LEMMA DeleteHandlerKeepsCode ==
  ASSUME TypeOK, Sorted(todo), CodeInv, DeleteHandler
  PROVE  CodeInv'
<1>1. PICK p, o : p = Head(todo)[2] /\ o = Head(todo)[3]
  OBVIOUS
<1> DEFINE C == IF handlers[p][o] = 0 THEN {} ELSE {<<"remove_service", <<o, p>> >>}
<1>2. /\ Head(todo) = <<"delete_handler", p, o>> /\ p \in Providers /\ o \in Owners /\ Does(C)
      /\ UNCHANGED <<object, services, device_map, loaded, left>>
      /\ handlers' = [handlers EXCEPT ![p][o] = 0]
  BY <1>1, DeleteHandlerDoes DEF DeleteHandler, modulevars, servicevars
<1>3. \A e \in C : e[1] = "remove_service"
  OBVIOUS
<1> HIDE DEF C
<1>4. \A q \in Providers, r \in Owners :
        handlers'[q][r] = IF q = p /\ r = o THEN 0 ELSE handlers[q][r]
  BY <1>2 DEF TypeOK
<1>5. BringInv'
  BY <1>2, <1>3, BringsDoes DEF CodeInv, Brings
<1>6. LoadedInv'
  <2>1. \A q \in Owners : Absent(q) => Absent(q)'
    BY <1>2, <1>4 DEF Absent
  <2> QED BY <1>2, <2>1, StaysLoaded DEF CodeInv
<1>7. LeavingInv'
  <2>1. OwnerOf(Head(todo)) = o
    BY <1>2 DEF OwnerOf
  <2>2. ServicesGo(o) => ServicesGo(o)'
    <3>1. /\ Head(todo)[1] \notin {"remove_services", "remove_own", "remove_service", "delete"}
          /\ UNCHANGED services
          /\ <<"unloaded", o>> \notin C
      BY <1>2, <1>3
    <3> QED BY <1>2, <3>1, ServicesStay
  <2>3. HandlersGo(o) => HandlersGo(o)'
    <3> SUFFICES ASSUME HandlersGo(o), NEW q \in Providers, handlers'[q][o] # 0
                 PROVE  \/ <<"remove_services", o>> \in Pending'
                        \/ <<"delete_handler", q, o>> \in Pending'
      BY DEF HandlersGo
    <3>1. q # p /\ handlers[q][o] # 0
      BY <1>2, <1>4
    <3>2. Pending = {Head(todo)} \cup Rest /\ Pending' = C \cup Rest
      BY <1>2 DEF Does
    <3> QED BY <1>2, <3>1, <3>2 DEF HandlersGo
  <2>4. DevicesGo(o) => DevicesGo(o)'
    BY <1>2, DevicesStay
  <2> QED BY <1>2, <1>3, <2>1, <2>2, <2>3, <2>4, LeavingDoes DEF CodeInv
<1> QED BY <1>5, <1>6, <1>7 DEF CodeInv

LEMMA DeviceStepKeepsCode ==
  ASSUME TypeOK, Sorted(todo), CodeInv, DeviceStep
  PROVE  CodeInv'
<1>1. CASE RemoveDevice
  <2>1. PICK d, g : d = Head(todo)[2] /\ g = Head(todo)[3]
    OBVIOUS
  <2> DEFINE C == TriggerToo("remove_device", d, g) \cup ToldTo("notify_remove", d, g)
                  \cup {<<"erase", d>>}
  <2>2. /\ Head(todo) = <<"remove_device", d, g>> /\ Does(C)
        /\ UNCHANGED <<object, services, device_map, handlers, loaded, left>>
    BY <1>1, <2>1, RemoveDeviceDoes DEF RemoveDevice, modulevars, servicevars, devicevars
  <2>3. \A e \in C : e[1] \notin Brings /\ e[1] \notin {"unload", "unloaded"}
    BY DEF TriggerToo, ToldTo, Brings
  <2> HIDE DEF C
  <2> QED BY <2>2, <2>3, CodeDoes
<1>2. CASE EraseDevice
  <2>1. PICK d : d = Head(todo)[2]
    OBVIOUS
  <2>2. /\ Head(todo) = <<"erase", d>> /\ Does({})
        /\ UNCHANGED <<object, services, handlers, loaded, left>>
        /\ device_map' = [device_map EXCEPT ![d] = 0]
    BY <1>2, <2>1, EraseDeviceDoes DEF EraseDevice, modulevars, servicevars
  <2>3. \A e \in Devices : device_map'[e] \in {0, device_map[e]}
    BY <2>2 DEF TypeOK
  <2> QED BY <2>2, <2>3, CodeDoes
<1>3. CASE EndOfTry
  <2>1. /\ Head(todo) = <<"catch">> /\ Does({})
        /\ UNCHANGED <<object, services, device_map, handlers, loaded, left>>
    BY <1>3, EndOfTryDoes DEF EndOfTry, modulevars, servicevars, devicevars
  <2> QED BY <2>1, CodeDoes
<1>4. CASE RemoveListener
  <2>1. PICK l : l = Head(todo)[2]
    OBVIOUS
  <2> DEFINE C == {<<"notify_remove", l, d, device_map[d]>> : d \in Registered}
                  \cup {<<"erase_listener", l>>}
  <2>2. /\ Head(todo) = <<"remove_listener", l>> /\ Does(C)
        /\ UNCHANGED <<object, services, device_map, handlers, loaded, left>>
    BY <1>4, <2>1, RemoveListenerDoes DEF RemoveListener, modulevars, servicevars, devicevars
  <2>3. \A e \in C : e[1] \notin Brings /\ e[1] \notin {"unload", "unloaded"}
    BY DEF Brings
  <2> HIDE DEF C
  <2> QED BY <2>2, <2>3, CodeDoes
<1>5. CASE EraseListener
  <2>1. PICK l : l = Head(todo)[2]
    OBVIOUS
  <2>2. /\ Head(todo) = <<"erase_listener", l>> /\ Does({})
        /\ UNCHANGED <<object, services, device_map, handlers, loaded, left>>
    BY <1>5, <2>1, EraseListenerDoes DEF EraseListener, modulevars, servicevars
  <2> QED BY <2>2, CodeDoes
<1> QED BY <1>1, <1>2, <1>3, <1>4, <1>5, AddDeviceKeepsCode, RemoveDevicesKeepsCode,
        NotifyKeepsCode, NotifyProviderKeepsCode, NewHandlerKeepsCode, DeleteHandlerKeepsCode
        DEF DeviceStep

LEMMA AddServiceKeepsCode ==
  ASSUME TypeOK, Sorted(todo), CodeInv, AddService
  PROVE  CodeInv'
<1>1. PICK s, g : s = Head(todo)[2] /\ g = Head(todo)[3]
  OBVIOUS
<1> DEFINE C == IF services[s] # 0 THEN {} ELSE {<<"offer", b, s>> : b \in bridge_map}
<1>2. /\ Head(todo) = <<"add_service", s, g>> /\ s \in Services /\ Does(C)
      /\ UNCHANGED <<object, device_map, handlers, loaded, left>>
  <2>1. Head(todo) = <<"add_service", s, g>> /\ s \in Services /\ Does(C)
    BY <1>1, AddServiceDoes
  <2>2. UNCHANGED <<object, device_map, handlers, loaded, left>>
    BY DEF AddService, modulevars, devicevars
  <2> QED BY <2>1, <2>2
<1>3. Head(todo)[1] \in Brings /\ OwnerOf(Head(todo)) = s[1]
  BY <1>2 DEF Brings, OwnerOf
<1>4. \A e \in C : e[1] = "offer"
  OBVIOUS
<1> HIDE DEF C
<1>5. \A t \in Services : t # s => services'[t] = services[t]
  BY <1>1 DEF AddService, TypeOK
<1>6. \A o \in Owners : o # s[1] /\ Absent(o) => Absent(o)'
  <2>1. \A o \in Owners : o # s[1] => services'[<<o, "own">>] = services[<<o, "own">>]
    BY <1>5, Named
  <2> QED BY <1>2, <2>1 DEF Absent
<1>7. \A e \in C : e[1] \notin Brings /\ e[1] \notin {"unload", "unloaded"}
  BY <1>4 DEF Brings
<1> QED BY <1>2, <1>3, <1>6, <1>7, CodeBrings

LEMMA RefuseKeepsCode ==
  ASSUME TypeOK, Sorted(todo), CodeInv, Refuse
  PROVE  CodeInv'
<1>1. PICK b, s : b = Head(todo)[2] /\ s = Head(todo)[3]
  OBVIOUS
<1>2. /\ Throws /\ todo # <<>> /\ Head(todo) = <<"offer", b, s>>
      /\ UNCHANGED <<object, services, device_map, handlers>> /\ left' = left \cup {s[1]}
  BY <1>1, RefuseThrows DEF Refuse, devicevars
<1>3. OwnerOf(Head(todo)) = s[1]
  BY <1>2 DEF OwnerOf
<1>4. Pending = {Head(todo)} \cup Rest /\ \A f \in Rest : MayPrecede(Head(todo), f)
  BY <1>2, Heads
<1>5. \A e \in Pending : e[1] # "unloaded" /\ (e[1] = "loaded" => e[2] = s[1])
  BY <1>2, <1>3, <1>4 DEF MayPrecede, Unloads, Removals, Dismissals, Releases
<1>6. \A n \in 0 .. Len(todo) : Lost(n) \subseteq left'
  <2>1. \A i \in 1 .. Len(todo) : todo[i] \in Pending
    BY ElementsOf DEF Pending, TypeOK
  <2>2. Len(todo) \in Nat
    BY LenProperties DEF TypeOK
  <2> QED BY <1>2, <1>5, <2>1, <2>2 DEF Lost
<1> QED BY <1>2, <1>5, <1>6, CodeThrows

LEMMA RemoveServiceKeepsCode ==
  ASSUME TypeOK, Sorted(todo), CodeInv, RemoveService
  PROVE  CodeInv'
<1>1. PICK s : s = Head(todo)[2]
  OBVIOUS
<1> DEFINE C == IF services[s] = 0 THEN {}
                ELSE {<<"withdraw", b, s>> : b \in bridge_map} \cup {<<"delete", s>>}
<1>2. /\ Head(todo) = <<"remove_service", s>> /\ s \in Services /\ Does(C)
      /\ UNCHANGED <<object, services, device_map, handlers, loaded, left>>
  BY <1>1, RemoveServiceDoes DEF RemoveService, modulevars, servicevars, devicevars
<1>3. \A e \in C : e[1] \in {"withdraw", "delete"}
  OBVIOUS
<1>4. services[s] = 0 \/ <<"delete", s>> \in C
  OBVIOUS
<1> HIDE DEF C
<1>5. BringInv'
  BY <1>2, <1>3, BringsDoes DEF CodeInv, Brings
<1>6. LoadedInv'
  BY <1>2 DEF CodeInv, LoadedInv, Absent
<1>7. LeavingInv'
  <2> SUFFICES ASSUME NEW o \in Owners
               PROVE  ServicesGo(o) /\ HandlersGo(o) /\ DevicesGo(o)
                      => ServicesGo(o)' /\ HandlersGo(o)' /\ DevicesGo(o)'
    BY <1>2, <1>3, LeavingDoes DEF CodeInv
  <2>1. /\ Pending = {Head(todo)} \cup Rest /\ Pending' = C \cup Rest
        /\ KeepsBefore(C) /\ <<"unloaded", o>> \notin C
    BY <1>2, <1>3 DEF Does
  <2>2. ServicesGo(o) => ServicesGo(o)'
    <3> SUFFICES ASSUME ServicesGo(o), NEW t \in Services, t[1] = o
                 PROVE  \/ services'[t] = 0
                        \/ <<"remove_services", o>> \in Pending' \/ <<"remove_own", o>> \in Pending'
                        \/ <<"delete", t>> \in Pending'
                        \/ Before(todo', <<"remove_service", t>>, <<"unloaded", o>>)
      BY DEF ServicesGo, Before
    <3>1. CASE s = t
      BY <1>2, <1>4, <2>1, <3>1
    <3>2. CASE s # t
      <4>1. /\ <<"remove_services", o>> \in Pending => <<"remove_services", o>> \in Pending'
            /\ <<"remove_own", o>> \in Pending => <<"remove_own", o>> \in Pending'
            /\ <<"delete", t>> \in Pending => <<"delete", t>> \in Pending'
        BY <1>2, <2>1
      <4>2. <<"remove_service", t>> # Head(todo)
        BY <1>2, <3>2
      <4>3. <<"remove_service", t>> \in Entries /\ <<"unloaded", o>> \in Entries
        BY Made
      <4>4. Before(todo, <<"remove_service", t>>, <<"unloaded", o>>) =>
              Before(todo', <<"remove_service", t>>, <<"unloaded", o>>)
        BY <2>1, <4>2, <4>3 DEF KeepsBefore
      <4> QED BY <1>2, <4>1, <4>4 DEF ServicesGo
    <3> QED BY <3>1, <3>2
  <2>3. HandlersGo(o) => HandlersGo(o)'
    BY <1>2, HandlersStay
  <2>4. DevicesGo(o) => DevicesGo(o)'
    BY <1>2, DevicesStay
  <2> QED BY <2>2, <2>3, <2>4
<1> QED BY <1>5, <1>6, <1>7 DEF CodeInv

LEMMA DeleteKeepsCode ==
  ASSUME TypeOK, Sorted(todo), CodeInv, Delete
  PROVE  CodeInv'
<1>1. PICK s : s = Head(todo)[2]
  OBVIOUS
<1>2. /\ Head(todo) = <<"delete", s>> /\ s \in Services /\ Does({})
      /\ UNCHANGED <<object, device_map, handlers, loaded, left>>
      /\ services' = [services EXCEPT ![s] = 0]
  BY <1>1, DeleteDoes DEF Delete, modulevars, devicevars
<1>3. \A t \in Services : services'[t] = IF t = s THEN 0 ELSE services[t]
  BY <1>2 DEF TypeOK
<1>4. BringInv'
  BY <1>2, BringsDoes DEF CodeInv
<1>5. LoadedInv'
  <2>1. \A o \in Owners : Absent(o) => Absent(o)'
    BY <1>2, <1>3, Named DEF Absent
  <2> QED BY <1>2, <2>1, StaysLoaded DEF CodeInv
<1>6. LeavingInv'
  <2> SUFFICES ASSUME NEW o \in Owners
               PROVE  ServicesGo(o) /\ HandlersGo(o) /\ DevicesGo(o)
                      => ServicesGo(o)' /\ HandlersGo(o)' /\ DevicesGo(o)'
    BY <1>2, LeavingDoes DEF CodeInv
  <2>1. /\ Pending = {Head(todo)} \cup Rest /\ Pending' = Rest /\ KeepsBefore({})
    BY <1>2 DEF Does
  <2>2. ServicesGo(o) => ServicesGo(o)'
    <3> SUFFICES ASSUME ServicesGo(o), NEW t \in Services, t[1] = o
                 PROVE  \/ services'[t] = 0
                        \/ <<"remove_services", o>> \in Pending' \/ <<"remove_own", o>> \in Pending'
                        \/ <<"delete", t>> \in Pending'
                        \/ Before(todo', <<"remove_service", t>>, <<"unloaded", o>>)
      BY DEF ServicesGo, Before
    <3>1. CASE s = t
      BY <1>3, <3>1
    <3>2. CASE s # t
      <4>1. /\ <<"remove_services", o>> \in Pending => <<"remove_services", o>> \in Pending'
            /\ <<"remove_own", o>> \in Pending => <<"remove_own", o>> \in Pending'
            /\ <<"delete", t>> \in Pending => <<"delete", t>> \in Pending'
        BY <1>2, <2>1, <3>2
      <4>2. <<"remove_service", t>> # Head(todo)
        BY <1>2
      <4>3. <<"remove_service", t>> \in Entries /\ <<"unloaded", o>> \in Entries
        BY Made
      <4>4. Before(todo, <<"remove_service", t>>, <<"unloaded", o>>) =>
              Before(todo', <<"remove_service", t>>, <<"unloaded", o>>)
        BY <2>1, <4>2, <4>3 DEF KeepsBefore
      <4>5. services'[t] = services[t]
        BY <1>3, <3>2
      <4> QED BY <4>1, <4>4, <4>5 DEF ServicesGo
    <3> QED BY <3>1, <3>2
  <2>3. HandlersGo(o) => HandlersGo(o)'
    BY <1>2, HandlersStay
  <2>4. DevicesGo(o) => DevicesGo(o)'
    BY <1>2, DevicesStay
  <2> QED BY <2>2, <2>3, <2>4
<1> QED BY <1>4, <1>5, <1>6 DEF CodeInv

LEMMA RemoveServicesKeepsCode ==
  ASSUME TypeOK, Sorted(todo), HandlerInv, CodeInv, RemoveServices
  PROVE  CodeInv'
<1>1. PICK q : q = Head(todo)[2]
  OBVIOUS
<1> DEFINE C == {<<"delete_handler", p, q>> : p \in dl_map \cap Providers}
                \cup {<<"remove_own", q>>}
<1>2. /\ Head(todo) = <<"remove_services", q>> /\ q \in Owners /\ Does(C)
      /\ UNCHANGED <<object, services, device_map, handlers, loaded, left>>
  BY <1>1, RemoveServicesDoes DEF RemoveServices, modulevars, servicevars, devicevars
<1>3. /\ \A e \in C : e[1] \in {"delete_handler", "remove_own"}
      /\ \A p \in dl_map \cap Providers : <<"delete_handler", p, q>> \in C
      /\ <<"remove_own", q>> \in C
  OBVIOUS
<1> HIDE DEF C
<1>4. BringInv'
  BY <1>2, <1>3, BringsDoes DEF CodeInv, Brings
<1>5. LoadedInv'
  BY <1>2 DEF CodeInv, LoadedInv, Absent
<1>6. LeavingInv'
  <2>1. OwnerOf(Head(todo)) = q
    BY <1>2 DEF OwnerOf
  <2>2. Pending' = C \cup Rest
    BY <1>2 DEF Does
  <2>3. ServicesGo(q)'
    BY <1>3, <2>2 DEF ServicesGo
  <2>4. HandlersGo(q)'
    BY <1>2, <1>3, <2>2 DEF HandlersGo, HandlerInv
  <2>5. DevicesGo(q) => DevicesGo(q)'
    BY <1>2, DevicesStay
  <2> QED BY <1>2, <1>3, <2>1, <2>3, <2>4, <2>5, LeavingDoes DEF CodeInv
<1> QED BY <1>4, <1>5, <1>6 DEF CodeInv

LEMMA RemoveOwnKeepsCode ==
  ASSUME TypeOK, Sorted(todo), CodeInv, RemoveOwn
  PROVE  CodeInv'
<1>1. PICK q : q = Head(todo)[2]
  OBVIOUS
<1> DEFINE C == {<<"remove_service", s>> : s \in {x \in Services : x[1] = q}}
<1>2. /\ Head(todo) = <<"remove_own", q>> /\ q \in Owners /\ Does(C)
      /\ UNCHANGED <<object, services, device_map, handlers, loaded, left>>
  BY <1>1, RemoveOwnDoes DEF RemoveOwn, modulevars, servicevars, devicevars
<1>3. \A e \in C : e[1] = "remove_service"
  OBVIOUS
<1>4. \A s \in Services : s[1] = q => <<"remove_service", s>> \in C
  OBVIOUS
<1> HIDE DEF C
<1>5. BringInv'
  BY <1>2, <1>3, BringsDoes DEF CodeInv, Brings
<1>6. LoadedInv'
  BY <1>2 DEF CodeInv, LoadedInv, Absent
<1>7. LeavingInv'
  <2>1. OwnerOf(Head(todo)) = q
    BY <1>2 DEF OwnerOf
  <2>2. KeepsBefore(C)
    BY <1>2 DEF Does
  <2>3. ServicesGo(q)'
    <3>1. /\ \A s \in Services : <<"remove_service", s>> \in Entries
          /\ <<"unloaded", q>> \in Entries
      BY <1>2, Made
    <3>2. <<"unloaded", q>> \notin C
      BY <1>3
    <3>3. \A s \in Services : s[1] = q => Before(todo', <<"remove_service", s>>, <<"unloaded", q>>)
      BY <1>4, <2>2, <3>1, <3>2 DEF KeepsBefore
    <3> QED BY <3>3 DEF ServicesGo, Before
  <2>4. HandlersGo(q) => HandlersGo(q)'
    BY <1>2, HandlersStay
  <2>5. DevicesGo(q) => DevicesGo(q)'
    BY <1>2, DevicesStay
  <2> QED BY <1>2, <1>3, <2>1, <2>3, <2>4, <2>5, LeavingDoes DEF CodeInv
<1> QED BY <1>5, <1>6, <1>7 DEF CodeInv

LEMMA ServiceStepKeepsCode ==
  ASSUME TypeOK, Sorted(todo), HandlerInv, CodeInv, ServiceStep
  PROVE  CodeInv'
<1>1. CASE Offer
  <2>1. /\ Does({}) /\ Head(todo)[1] = "offer"
        /\ UNCHANGED <<object, services, device_map, handlers, loaded, left>>
    BY <1>1, OfferDoes DEF Offer, modulevars, devicevars
  <2> QED BY <2>1, CodeDoes
<1>2. CASE Withdraw
  <2>1. /\ Does({}) /\ Head(todo)[1] = "withdraw"
        /\ UNCHANGED <<object, services, device_map, handlers, loaded, left>>
    BY <1>2, WithdrawDoes DEF Withdraw, modulevars, devicevars
  <2> QED BY <2>1, CodeDoes
<1>3. CASE RemoveBridges
  <2>1. /\ Does({}) /\ Head(todo)[1] = "remove_bridges"
        /\ UNCHANGED <<object, services, device_map, handlers, loaded, left>>
    BY <1>3, RemoveBridgesDoes DEF RemoveBridges, modulevars, devicevars
  <2> QED BY <2>1, CodeDoes
<1> QED BY <1>1, <1>2, <1>3, AddServiceKeepsCode, RefuseKeepsCode, RemoveServiceKeepsCode,
        DeleteKeepsCode, RemoveServicesKeepsCode, RemoveOwnKeepsCode DEF ServiceStep

LEMMA LoadedKeepsCode ==
  ASSUME TypeOK, Sorted(todo), CodeInv, Loaded
  PROVE  CodeInv'
<1>1. PICK o, g : o = Head(todo)[2] /\ g = Head(todo)[3]
  OBVIOUS
<1>2. /\ Head(todo) = <<"loaded", o, g>> /\ Does({})
      /\ UNCHANGED <<services, device_map, handlers, loaded, left>>
      /\ object' = [object EXCEPT ![o] = g]
  BY <1>1, LoadedDoes DEF Loaded, servicevars, devicevars
<1>3. Head(todo)[1] \in Brings /\ OwnerOf(Head(todo)) = o
  BY <1>2 DEF Brings, OwnerOf
<1>4. \A q \in Owners : q # o /\ Absent(q) => Absent(q)'
  BY <1>2 DEF Absent, TypeOK
<1> QED BY <1>2, <1>3, <1>4, CodeBrings

LEMMA ConfigureFailsKeepsCode ==
  ASSUME TypeOK, Sorted(todo), CodeInv, ConfigureFails
  PROVE  CodeInv'
<1>1. PICK o : o = OwnerOf(Head(todo))
  OBVIOUS
<1>2. /\ Throws /\ todo # <<>> /\ Head(todo)[1] \in {"configure", "add_device"}
      /\ UNCHANGED <<object, services, device_map, handlers>> /\ left' = left \cup {o}
  BY <1>1, ConfigureFailsThrows DEF ConfigureFails, servicevars, devicevars
<1>3. Pending = {Head(todo)} \cup Rest /\ \A f \in Rest : MayPrecede(Head(todo), f)
  BY <1>2, Heads
<1>4. \A e \in Pending : e[1] # "unloaded" /\ (e[1] = "loaded" => e[2] = o)
  BY <1>1, <1>2, <1>3 DEF MayPrecede, Unloads, Removals, Dismissals, Releases
<1>5. \A n \in 0 .. Len(todo) : Lost(n) \subseteq left'
  <2>1. \A i \in 1 .. Len(todo) : todo[i] \in Pending
    BY ElementsOf DEF Pending, TypeOK
  <2>2. Len(todo) \in Nat
    BY LenProperties DEF TypeOK
  <2> QED BY <1>2, <1>4, <2>1, <2>2 DEF Lost
<1> QED BY <1>2, <1>4, <1>5, CodeThrows

LEMMA UnloadKeepsCode ==
  ASSUME TypeOK, Sorted(todo), CodeInv, Unload
  PROVE  CodeInv'
<1>1. PICK o : o = Head(todo)[2]
  OBVIOUS
<1> DEFINE C == Taken(o) \cup {<<"remove_devices", o>>, <<"remove_services", o>>, <<"unloaded", o>>}
<1>2. /\ Head(todo) = <<"unload", o>> /\ o \in Owners /\ Does(C)
      /\ UNCHANGED <<services, device_map, handlers, loaded, left>>
      /\ object' = [object EXCEPT ![o] = 0]
  BY <1>1, UnloadDoes DEF Unload, servicevars, devicevars
<1>3. \A q \in Owners : object'[q] = IF q = o THEN 0 ELSE object[q]
  BY <1>2 DEF TypeOK
<1>4. /\ \A e \in C : e[1] \notin Brings /\ (e[1] = "unloaded" => e = <<"unloaded", o>>)
      /\ <<"remove_devices", o>> \in C /\ <<"remove_services", o>> \in C
  BY DEF Taken, Brings
<1> HIDE DEF C
<1>5. BringInv'
  <2>1. Head(todo)[1] = "unload"
    BY <1>2
  <2> QED BY <1>2, <1>4, <2>1, BringsDoes DEF CodeInv
<1>6. LoadedInv'
  <2>1. \A q \in Owners : Absent(q) => Absent(q)'
    BY <1>2, <1>3 DEF Absent
  <2> QED BY <1>2, <2>1, StaysLoaded DEF CodeInv
<1>7. LeavingInv'
  <2> SUFFICES ASSUME NEW q \in Owners, <<"unloaded", q>> \in Pending'
               PROVE  object'[q] = 0 /\ ServicesGo(q)' /\ HandlersGo(q)' /\ DevicesGo(q)'
    BY DEF LeavingInv
  <2>1. Pending' = C \cup Rest /\ \A f \in Rest : MayPrecede(Head(todo), f)
    BY <1>2 DEF Does
  <2>2. \A f \in Rest : f[1] # "unloaded"
    BY <1>2, <2>1 DEF MayPrecede, Unloads, Removals, Dismissals, Releases
  <2>3. q = o
    BY <1>4, <2>1, <2>2
  <2> QED BY <1>3, <1>4, <2>1, <2>3 DEF ServicesGo, HandlersGo, DevicesGo
<1> QED BY <1>5, <1>6, <1>7 DEF CodeInv

(* When the code of a module is closed, nothing of it is left. *)
LEMMA NothingLeft ==
  ASSUME TypeOK, Sorted(todo), LeavingInv, NEW o \in Owners, todo # <<>>,
         Head(todo) = <<"unloaded", o>>
  PROVE  Absent(o) /\ \A s \in Services : s[1] = o => services[s] = 0
<1>1. Pending = {Head(todo)} \cup Rest /\ \A f \in Rest : MayPrecede(Head(todo), f)
  BY Heads
<1>2. object[o] = 0 /\ ServicesGo(o) /\ HandlersGo(o) /\ DevicesGo(o)
  BY <1>1 DEF LeavingInv
<1>3. \A f \in Pending : f[1] \notin {"remove_services", "remove_own", "delete",
                                      "delete_handler", "remove_devices"}
  BY <1>1 DEF MayPrecede, Removals, Dismissals, Releases
<1>4. \A s : ~ Before(todo, <<"remove_service", s>>, <<"unloaded", o>>)
  <2>1. todo \in Seq(Entries)
    BY DEF TypeOK
  <2>2. 1 \in 1 .. Len(todo) /\ todo[1] = <<"unloaded", o>>
    BY <2>1
  <2> QED BY <2>2 DEF Before
<1>5. /\ <<"remove_services", o>> \notin Pending /\ <<"remove_own", o>> \notin Pending
      /\ \A s : <<"delete", s>> \notin Pending
      /\ <<"remove_devices", o>> \notin Pending
      /\ \A p \in Providers : <<"delete_handler", p, o>> \notin Pending
  BY <1>3
<1>6. \A s \in Services : s[1] = o => services[s] = 0
  BY <1>2, <1>4, <1>5 DEF ServicesGo
<1>7. services[<<o, "own">>] = 0
  BY <1>6, Named
<1> QED BY <1>2, <1>5, <1>6, <1>7 DEF HandlersGo, DevicesGo, Absent

LEMMA UnloadedKeepsCode ==
  ASSUME TypeOK, Sorted(todo), CodeInv, Unloaded
  PROVE  CodeInv'
<1>1. PICK o : o = Head(todo)[2]
  OBVIOUS
<1>2. /\ Head(todo) = <<"unloaded", o>> /\ o \in Owners /\ Does({})
      /\ UNCHANGED <<object, services, device_map, handlers>>
      /\ Close({o}) /\ left' = left \ {o}
  BY <1>1, UnloadedDoes DEF Unloaded, servicevars, devicevars
<1>3. /\ Pending = {Head(todo)} \cup Rest /\ Pending' = Rest
      /\ \A f \in Rest : MayPrecede(Head(todo), f)
  BY <1>2 DEF Does
<1>4. BringInv' /\ LeavingInv'
  <2>1. \A e \in Pending : e[1] \notin Brings
    BY <1>2, <1>3 DEF CodeInv, BringInv
  <2>2. \A e \in Rest : e[1] # "unloaded"
    BY <1>2, <1>3 DEF MayPrecede, Unloads, Removals, Dismissals, Releases
  <2> QED BY <1>3, <2>1, <2>2, NothingBrought, NobodyLeaves
<1>5. Absent(o)
  BY <1>2, NothingLeft DEF CodeInv, Does
<1>6. LoadedInv'
  <2>1. \A q \in Owners \ (loaded' \cup left') : Absent(q)
    <3>1. \A q \in Owners : q \in loaded \cup left /\ q # o => q \in loaded' \cup left'
      BY <1>2 DEF Close
    <3> QED BY <1>5, <3>1 DEF CodeInv, LoadedInv
  <2> QED BY <1>2, <2>1 DEF LoadedInv, Absent
<1> QED BY <1>4, <1>6 DEF CodeInv

LEMMA ModuleStepKeepsCode ==
  ASSUME TypeOK, Sorted(todo), CodeInv, ModuleStep
  PROVE  CodeInv'
<1>1. CASE Configured \/ Reconfigured
  <2>1. /\ Does({}) /\ Head(todo)[1] \in {"configure", "reconfigured"}
        /\ UNCHANGED <<object, services, device_map, handlers, loaded, left>>
    BY <1>1, ConfiguredDoes, ReconfiguredDoes
       DEF Configured, Reconfigured, modulevars, servicevars, devicevars
  <2>2. Head(todo)[1] \in Brings
    BY <2>1 DEF Brings
  <2>3. \A o \in Owners : Absent(o) => Absent(o)'
    BY <2>1 DEF Absent
  <2> QED BY <2>1, <2>2, <2>3, CodeBrings
<1> QED BY <1>1, LoadedKeepsCode, ConfigureFailsKeepsCode, UnloadKeepsCode, UnloadedKeepsCode
        DEF ModuleStep

LEMMA CallKeepsCode ==
  ASSUME TypeOK, Sorted(todo), CodeInv, Call
  PROVE  CodeInv'
<1>1. ASSUME NEW l \in Hearers, AddListener(l)
      PROVE  CodeInv'
  <2> DEFINE C == {<<"notify_add", l, d, device_map[d]>> : d \in Registered}
  <2>1. Starts(C) /\ UNCHANGED <<object, services, device_map, handlers, loaded, left>>
    BY <1>1, AddListenerStarts DEF AddListener, modulevars, servicevars
  <2>2. \A d \in Registered : d[1] \in loaded \cup left
    BY Named DEF Registered, CodeInv, LoadedInv, Absent
  <2>3. \A e \in C : OwnerOf(e) \in loaded \cup left /\ e[1] = "notify_add"
    BY <2>2 DEF OwnerOf
  <2> HIDE DEF C
  <2>4. BringInv' /\ LeavingInv'
    BY <2>1, <2>3, BringsStarts, NobodyLeaves DEF Starts
  <2>5. LoadedInv'
    BY <2>1 DEF CodeInv, LoadedInv, Absent
  <2> QED BY <2>4, <2>5 DEF CodeInv
<1>2. ASSUME NEW l \in Listeners, CallRemoveListener(l)
      PROVE  CodeInv'
  <2>1. /\ Starts({<<"remove_listener", l>>})
        /\ UNCHANGED <<object, services, device_map, handlers, loaded, left>>
    BY <1>2, CallRemoveListenerStarts DEF CallRemoveListener, modulevars, servicevars, devicevars
  <2> QED BY <2>1, CodeStarts DEF Brings
<1>3. ASSUME NEW s \in Services, CallByOwner(s)
      PROVE  CodeInv'
  <2> DEFINE C == {<<"withdraw", b, s>> : b \in bridge_map}
  <2>1. Starts(C) /\ UNCHANGED <<object, services, device_map, handlers, loaded, left>>
    BY <1>3, CallByOwnerStarts DEF CallByOwner, modulevars, devicevars
  <2>2. \A e \in C : e[1] \notin Brings /\ e[1] # "unloaded"
    BY DEF Brings
  <2> HIDE DEF C
  <2> QED BY <2>1, <2>2, CodeStarts
<1>4. ASSUME NEW b \in Bridges, AddBridge(b)
      PROVE  CodeInv'
  <2> DEFINE C == {<<"offer", b, s>> : s \in {x \in Services : services[x] # 0}}
  <2>1. Starts(C) /\ UNCHANGED <<object, services, device_map, handlers, loaded, left>>
    BY <1>4, AddBridgeStarts DEF AddBridge, modulevars, devicevars
  <2>2. \A e \in C : e[1] \notin Brings /\ e[1] # "unloaded"
    BY DEF Brings
  <2> HIDE DEF C
  <2> QED BY <2>1, <2>2, CodeStarts
<1>5. ASSUME NEW o \in Owners, NEW end \in {<<>>, << <<"catch">> >>}, load_module(o, end)
      PROVE  CodeInv'
  <2> DEFINE C == Given(o, objects')
                  \cup {<<"configure", o>>, <<"add_service", <<o, "own">>, objects'>>,
                        <<"loaded", o, objects'>>} \cup ToSet(end)
  <2>1. /\ Starts(C) /\ UNCHANGED <<object, services, device_map, handlers, left>>
        /\ loaded' = loaded \cup {o}
    BY <1>5, LoadStarts DEF load_module, Open, servicevars, devicevars
  <2>2. ToSet(end) \subseteq {<<"catch">>}
    BY Nothing, Single, Made
  <2>3. \A e \in C : /\ e[1] \in Brings => OwnerOf(e) = o
                     /\ e[1] \notin {"unload", "unloaded"}
    BY <2>2 DEF Given, Device, OwnerOf, Brings
  <2> HIDE DEF C
  <2>4. BringInv' /\ LeavingInv'
    BY <2>1, <2>3, BringsStarts, NobodyLeaves DEF Starts
  <2>5. LoadedInv'
    BY <2>1 DEF CodeInv, LoadedInv, Absent
  <2> QED BY <2>4, <2>5 DEF CodeInv
<1>6. ASSUME NEW o \in Owners, svc_reconfigure_module(o)
      PROVE  CodeInv'
  <2> DEFINE C == Taken(o) \cup Given(o, objects')
                  \cup {<<"configure", o>>, <<"reconfigured", o, objects'>>, <<"catch">>}
  <2>1. /\ Starts(C) /\ UNCHANGED <<object, services, device_map, handlers, loaded>>
        /\ left \subseteq left' /\ object[o] # 0
    BY <1>6, ReconfigureStarts DEF svc_reconfigure_module, servicevars, devicevars
  <2>2. \A e \in C : /\ e[1] \in Brings => OwnerOf(e) = o
                     /\ e[1] \notin {"unload", "unloaded"}
    BY DEF Given, Taken, Device, OwnerOf, Brings
  <2> HIDE DEF C
  <2>3. o \in loaded \cup left
    BY <2>1 DEF CodeInv, LoadedInv, Absent
  <2>4. BringInv' /\ LeavingInv'
    BY <2>1, <2>2, <2>3, BringsStarts, NobodyLeaves DEF Starts
  <2>5. LoadedInv'
    BY <2>1 DEF CodeInv, LoadedInv, Absent
  <2> QED BY <2>4, <2>5 DEF CodeInv
<1>7. ASSUME NEW o \in Owners, svc_remove_module(o)
      PROVE  CodeInv'
  <2>1. /\ Starts({<<"unload", o>>})
        /\ UNCHANGED <<object, services, device_map, handlers, loaded, left>>
    BY <1>7, RemoveModuleStarts DEF svc_remove_module, modulevars, servicevars, devicevars
  <2> QED BY <2>1, CodeStarts DEF Brings
<1>8. CASE ReadConfig
  <2>1. Starts({}) /\ UNCHANGED <<object, services, device_map, handlers, loaded, left>>
    BY <1>8, ReadConfigStarts DEF ReadConfig, servicevars, devicevars
  <2> QED BY <2>1, CodeStarts
<1>9. CASE NextPhase
  <2> DEFINE C == IF phase = "providers" THEN {<<"add_service", <<Kernel, "own">>, 1>>} ELSE {}
  <2>1. Starts(C) /\ UNCHANGED <<object, services, device_map, handlers, loaded, left>>
    BY <1>9, NextPhaseStarts DEF NextPhase, servicevars, devicevars
  <2>2. \A e \in C : OwnerOf(e) = Kernel /\ e[1] = "add_service"
    BY DEF OwnerOf
  <2> HIDE DEF C
  <2>3. BringInv' /\ LeavingInv'
    BY <2>1, <2>2, BringsStarts, NobodyLeaves DEF Starts
  <2>4. LoadedInv'
    BY <2>1 DEF CodeInv, LoadedInv, Absent
  <2> QED BY <2>3, <2>4 DEF CodeInv
<1>10. CASE ConfigFails
  <2>1. /\ Throws /\ todo = <<>>
        /\ UNCHANGED <<object, services, device_map, handlers, left>>
    BY <1>10, ConfigFailsThrows DEF ConfigFails, servicevars, devicevars
  <2>2. Pending = {} /\ Len(todo) = 0
    BY <2>1, Nothing DEF Pending
  <2>3. \A n \in 0 .. Len(todo) : Lost(n) \subseteq left'
    BY <2>2 DEF Lost
  <2> QED BY <2>1, <2>2, <2>3, CodeThrows
<1>11. CASE Shutdown
  <2>1. Starts(Exit) /\ UNCHANGED <<object, services, device_map, handlers, loaded, left>>
    BY <1>11, ShutdownStarts DEF Shutdown, servicevars, devicevars
  <2>2. \A e \in Exit : e[1] \notin Brings /\ e[1] # "unloaded"
    BY DEF Exit, Brings
  <2> QED BY <2>1, <2>2, CodeStarts
<1> QED BY <1>1, <1>2, <1>3, <1>4, <1>5, <1>6, <1>7, <1>8, <1>9, <1>10, <1>11, CalledAssumption
        DEF Call, CallAddListener, AddProvider, CreateModule, svc_add_module, Hearers

LEMMA OrderAndCode == Spec => [](Ordered /\ HandlerInv /\ CodeInv)
<1>1. Init => CodeInv
  <2> SUFFICES ASSUME Init PROVE CodeInv
    OBVIOUS
  <2>1. Pending = {} /\ \A p \in Providers, o \in Owners : handlers[p][o] = 0
    BY InitOrdered DEF Init, None
  <2>2. /\ \A o \in Owners : object[o] = 0 /\ services[<<o, "own">>] = 0
        /\ \A d \in Devices : device_map[d] = 0
    BY Named DEF Init, None
  <2> QED BY <2>1, <2>2 DEF CodeInv, BringInv, LoadedInv, LeavingInv, Absent
<1>2. Ordered /\ HandlerInv /\ CodeInv /\ [Next]_vars => CodeInv'
  <2> SUFFICES ASSUME Ordered, HandlerInv, CodeInv, [Next]_vars PROVE CodeInv'
    OBVIOUS
  <2>1. TypeOK /\ Sorted(todo)
    BY DEF Ordered
  <2>2. CASE Next
    BY <2>1, <2>2, CallKeepsCode, DeviceStepKeepsCode, ServiceStepKeepsCode,
       ModuleStepKeepsCode DEF Next
  <2>3. CASE UNCHANGED vars
    <3>1. /\ UNCHANGED <<object, services, device_map, handlers, loaded, left, todo>>
          /\ Pending' = Pending
      BY <2>3 DEF Pending, vars, modulevars, servicevars, devicevars
    <3>2. \A o \in Owners : /\ ServicesGo(o) <=> ServicesGo(o)'
                            /\ HandlersGo(o) <=> HandlersGo(o)'
                            /\ DevicesGo(o) <=> DevicesGo(o)'
      BY <3>1 DEF ServicesGo, HandlersGo, DevicesGo, Before
    <3>3. BringInv' /\ LoadedInv'
      BY <3>1 DEF CodeInv, BringInv, OwnerOf, LoadedInv, Absent
    <3>4. LeavingInv'
      BY <3>1, <3>2 DEF CodeInv, LeavingInv
    <3> QED BY <3>3, <3>4 DEF CodeInv
  <2> QED BY <2>2, <2>3
<1> QED BY <1>1, <1>2, OrderAndHandlers, PTL DEF Spec

(* While anything of a module is registered - the module itself, its       *)
(* services, its devices, the handlers made for its interface - its shared *)
(* object is open, unless a failure has left something of it (kernel.cpp,  *)
(* module.cpp, so_file.cpp), for any modules, bridges, listeners and       *)
(* service providers, and at every step of every call.                     *)
THEOREM CodeIsLoadedAlways == Spec => []CodeIsLoaded
<1>1. CodeInv => CodeIsLoaded
  BY DEF CodeInv, LoadedInv, Absent, CodeIsLoaded, svc_module_list
<1> QED BY <1>1, OrderAndCode, PTL

-----------------------------------------------------------------------------
(* What listeners have heard, and what service providers serve. *)

(* What is called to make a handler: a throw must not take along more. *)
Handles(e) ==
  \/ e[1] = "new_handler"
  \/ e[1] \in {"add_service", "offer"} /\ ServiceOf(e)[2] \in Providers
GuardInv ==
  \A e, f \in Pending : Handles(e) /\ f[1] = "notify_add" => Before(todo, <<"catch">>, f)

(* A listener has heard of a device or is about to, unless one of them is  *)
(* on its way out; nobody hears that a device goes that stays.             *)
HearInv ==
  /\ \A l \in Listeners \cap dl_map, d \in Devices : device_map[d] # 0 =>
       \/ <<d, device_map[d]>> \in told[l]
       \/ <<"notify_add", l, d, device_map[d]>> \in Pending
       \/ <<"erase", d>> \in Pending \/ <<"erase_listener", l>> \in Pending
  /\ \A l \in Hearers, d \in Devices, g \in Objects : <<"notify_remove", l, d, g>> \in Pending =>
       <<"erase", d>> \in Pending \/ <<"erase_listener", l>> \in Pending

(* p serves the interface of o as it should, or is about to. *)
Settled(p, o) == handlers[p][o] = IF p \in dl_map THEN device_map[Face(o)] ELSE 0
InHand(p, o) ==
  \/ <<"erase", Face(o)>> \in Pending \/ <<"erase_listener", p>> \in Pending
  \/ <<"remove_listener", p>> \in Pending
  \/ <<"delete_handler", p, o>> \in Pending \/ <<"remove_services", o>> \in Pending
  \/ /\ p \in dl_map /\ handlers[p][o] = 0
     /\ \/ <<"notify_add", p, Face(o), device_map[Face(o)]>> \in Pending
        \/ <<"new_handler", p, o, device_map[Face(o)]>> \in Pending
Firm(p, o) == Settled(p, o) \/ InHand(p, o)

(* Every provider does, or a bridge has refused the service of its         *)
(* handler; that service is not removed before things are as they should be. *)
ServeInv ==
  /\ \A p \in Providers, o \in Owners :
       Firm(p, o) \/ (handlers[p][o] = 0 /\ <<o, p>> \in refused)
  /\ \A p \in Providers, o \in Owners :
       \/ <<"remove_service", <<o, p>> >> \in Pending \/ <<"delete", <<o, p>> >> \in Pending
       \/ <<"remove_own", o>> \in Pending
       => Firm(p, o)
  /\ \A p \in Providers, o \in Owners : <<"delete_handler", p, o>> \in Pending =>
       \/ <<"erase", Face(o)>> \in Pending \/ <<"erase_listener", p>> \in Pending
       \/ <<"remove_own", o>> \in Pending
  /\ \A o \in Owners : <<"remove_own", o>> \in Pending => device_map[Face(o)] = 0
  /\ \A o \in Owners : <<"remove_services", o>> \in Pending =>
       <<"remove_devices", o>> \in Pending \/ device_map[Face(o)] = 0

ListenInv == GuardInv /\ HearInv /\ ServeInv

(* What begins the making of a handler is at the head of todo. *)
LEMMA HandlesBehind ==
  ASSUME NEW e, NEW f, MayPrecede(e, f), Handles(f)
  PROVE  e[1] \in {"add_service", "offer"}
  BY DEF MayPrecede, Handles, ServiceOf

LEMMA GuardDoes ==
  ASSUME GuardInv, NEW C, Does(C),
         \A e \in C : Handles(e) =>
           Head(todo)[1] # "add_device" /\ (<<"catch">> \in C \/ Handles(Head(todo))),
         \A f \in C : f[1] = "notify_add" => Head(todo)[1] = "add_device"
  PROVE  GuardInv'
<1>1. /\ Pending = {Head(todo)} \cup Rest /\ Pending' = C \cup Rest /\ KeepsBefore(C)
      /\ \A f \in Rest : f \in Entries /\ MayPrecede(Head(todo), f)
  BY DEF Does
<1>2. ASSUME NEW e \in Pending', NEW f \in Pending', Handles(e), f[1] = "notify_add"
      PROVE  Before(todo', <<"catch">>, f)
  <2>1. e \in Rest => Head(todo)[1] \in {"add_service", "offer"}
    BY <1>1, <1>2, HandlesBehind
  <2>2. f \notin C
    BY <1>1, <1>2, <2>1
  <2>3. f \in Rest /\ f \in Entries /\ <<"catch">> \in Entries
    BY <1>1, <1>2, <2>2, Made
  <2>4. <<"catch">> \in C \/ (Before(todo, <<"catch">>, f) /\ <<"catch">> # Head(todo))
    <3>1. CASE e \in Rest
      <4>1. Before(todo, <<"catch">>, f)
        BY <1>1, <1>2, <2>3, <3>1 DEF GuardInv
      <4> QED BY <2>1, <3>1, <4>1
    <3>2. CASE e \in C /\ Handles(Head(todo))
      <4>1. Before(todo, <<"catch">>, f)
        BY <1>1, <1>2, <2>3, <3>2 DEF GuardInv
      <4>2. <<"catch">> # Head(todo)
        BY <3>2 DEF Handles
      <4> QED BY <4>1, <4>2
    <3> QED BY <1>1, <1>2, <3>1, <3>2
  <2> QED BY <1>1, <2>2, <2>3, <2>4 DEF KeepsBefore
<1>3. \A e \in Pending', f \in Pending' : Handles(e)' /\ f[1] = "notify_add" => Before(todo', <<"catch">>, f)
  BY <1>2 DEF Handles, ServiceOf
<1> QED BY <1>3 DEF GuardInv, Before

LEMMA Unguarded ==
  ASSUME \/ \A e \in Pending' : ~Handles(e)
         \/ \A e \in Pending' : e[1] # "notify_add"
  PROVE  GuardInv'
  BY DEF GuardInv, Handles, ServiceOf, Before

LEMMA HearDoes ==
  ASSUME HearInv, NEW C, Does(C), UNCHANGED <<dl_map, told>>,
         \A d \in Devices : device_map'[d] \in {0, device_map[d]},
         Head(todo)[1] \notin {"erase", "erase_listener"},
         Head(todo)[1] = "notify_add" => Head(todo)[2] \notin Listeners,
         \A l, d, g : <<"notify_remove", l, d, g>> \in C =>
           <<"erase", d>> \in C \/ <<"erase_listener", l>> \in C \/ <<"erase", d>> \in Rest
  PROVE  HearInv'
<1>1. Pending = {Head(todo)} \cup Rest /\ Pending' = C \cup Rest
  BY DEF Does
<1>2. /\ \A d : <<"erase", d>> \in Pending => <<"erase", d>> \in Pending'
      /\ \A l : <<"erase_listener", l>> \in Pending => <<"erase_listener", l>> \in Pending'
      /\ \A l \in Listeners : \A d, g : <<"notify_add", l, d, g>> \in Pending => <<"notify_add", l, d, g>> \in Pending'
  BY <1>1
<1>3. \A l, d, g : <<"notify_remove", l, d, g>> \in Pending' =>
        \/ <<"notify_remove", l, d, g>> \in Pending
        \/ <<"erase", d>> \in Pending' \/ <<"erase_listener", l>> \in Pending'
  BY <1>1
<1> QED BY <1>2, <1>3 DEF HearInv

LEMMA HearStarts ==
  ASSUME HearInv, NEW C, Starts(C), UNCHANGED <<device_map, dl_map, told>>,
         \A e \in C : e[1] # "notify_remove"
  PROVE  HearInv'
<1>1. Pending = {} /\ Pending' = C
  BY DEF Starts
<1>2. \A l, d, g : <<"notify_remove", l, d, g>> \notin Pending'
  BY <1>1
<1> QED BY <1>1, <1>2 DEF HearInv

LEMMA FirmStays ==
  ASSUME NEW p \in Providers, NEW o \in Owners, NEW C, Does(C), Firm(p, o),
         device_map'[Face(o)] = device_map[Face(o)], p \in dl_map <=> p \in dl_map',
         handlers'[p][o] = handlers[p][o],
         Head(todo) \notin {<<"erase", Face(o)>>, <<"erase_listener", p>>, <<"remove_listener", p>>,
                            <<"delete_handler", p, o>>, <<"remove_services", o>>,
                            <<"notify_add", p, Face(o), device_map[Face(o)]>>,
                            <<"new_handler", p, o, device_map[Face(o)]>>}
  PROVE  Firm(p, o)'
<1>1. Pending = {Head(todo)} \cup Rest /\ Pending' = C \cup Rest
  BY DEF Does
<1>2. CASE Settled(p, o)
  BY <1>2 DEF Settled, Firm, Face
<1>3. CASE InHand(p, o)
  <2>1. InHand(p, o)'
    BY <1>1, <1>3 DEF InHand, Face, Device
  <2> QED BY <2>1 DEF Firm
<1> QED BY <1>2, <1>3 DEF Firm

LEMMA ServeDoes ==
  ASSUME ServeInv, NEW C, Does(C),
         \A p \in Providers, o \in Owners : Firm(p, o) => Firm(p, o)',
         \A p \in Providers, o \in Owners : Firm(p, o)' \/
           (handlers'[p][o] = handlers[p][o] /\ (<<o, p>> \in refused => <<o, p>> \in refused')),
         \A o \in Owners : \/ device_map'[Face(o)] \in {0, device_map[Face(o)]}
                           \/ Head(todo)[1] = "add_device",
         \A o \in Owners : Head(todo) = <<"remove_devices", o>> => device_map'[Face(o)] = 0,
         \A p \in Providers, o \in Owners :
           \/ <<"remove_service", <<o, p>> >> \in C \/ <<"delete", <<o, p>> >> \in C
           \/ <<"remove_own", o>> \in C
           => Firm(p, o)',
         \A p \in Providers, o \in Owners : <<"delete_handler", p, o>> \in C =>
           \/ <<"erase", Face(o)>> \in Pending' \/ <<"erase_listener", p>> \in Pending'
           \/ <<"remove_own", o>> \in Pending',
         \A o \in Owners : <<"remove_own", o>> \in C => device_map'[Face(o)] = 0,
         \A o \in Owners : <<"remove_services", o>> \in C => <<"remove_devices", o>> \in C
  PROVE  ServeInv'
<1>1. /\ Pending = {Head(todo)} \cup Rest /\ Pending' = C \cup Rest
      /\ \A f \in Rest : MayPrecede(Head(todo), f)
  BY DEF Does
<1>2. \A p \in Providers, o \in Owners :
        Firm(p, o)' \/ (handlers'[p][o] = 0 /\ <<o, p>> \in refused')
  BY DEF ServeInv
<1>3. \A p \in Providers, o \in Owners :
        \/ <<"remove_service", <<o, p>> >> \in Pending' \/ <<"delete", <<o, p>> >> \in Pending'
        \/ <<"remove_own", o>> \in Pending'
        => Firm(p, o)'
  <2>1. \A p \in Providers, o \in Owners :
          \/ <<"remove_service", <<o, p>> >> \in Rest \/ <<"delete", <<o, p>> >> \in Rest
          \/ <<"remove_own", o>> \in Rest
          => Firm(p, o)'
    BY <1>1 DEF ServeInv
  <2> QED BY <1>1, <2>1
<1>4. \A p \in Providers, o \in Owners : <<"delete_handler", p, o>> \in Pending' =>
        \/ <<"erase", Face(o)>> \in Pending' \/ <<"erase_listener", p>> \in Pending'
        \/ <<"remove_own", o>> \in Pending'
  <2> SUFFICES ASSUME NEW p \in Providers, NEW o \in Owners, <<"delete_handler", p, o>> \in Rest
               PROVE  \/ <<"erase", Face(o)>> \in Pending' \/ <<"erase_listener", p>> \in Pending'
                      \/ <<"remove_own", o>> \in Pending'
    BY <1>1
  <2>1. Head(todo)[1] \in Releases
    BY <1>1 DEF MayPrecede
  <2>2. Head(todo)[1] \notin {"erase", "erase_listener", "remove_own"}
    BY <2>1 DEF Releases
  <2>3. \/ <<"erase", Face(o)>> \in Pending \/ <<"erase_listener", p>> \in Pending
        \/ <<"remove_own", o>> \in Pending
    BY <1>1 DEF ServeInv
  <2> QED BY <1>1, <2>2, <2>3
<1>5. \A o \in Owners : <<"remove_own", o>> \in Pending' => device_map'[Face(o)] = 0
  <2> SUFFICES ASSUME NEW o \in Owners, <<"remove_own", o>> \in Rest
               PROVE  device_map'[Face(o)] = 0
    BY <1>1
  <2>1. Head(todo)[1] # "add_device"
    BY <1>1 DEF MayPrecede, Releases
  <2>2. device_map[Face(o)] = 0
    BY <1>1 DEF ServeInv
  <2> QED BY <2>1, <2>2
<1>6. \A o \in Owners : <<"remove_services", o>> \in Pending' =>
        <<"remove_devices", o>> \in Pending' \/ device_map'[Face(o)] = 0
  <2> SUFFICES ASSUME NEW o \in Owners, <<"remove_services", o>> \in Rest
               PROVE  <<"remove_devices", o>> \in Pending' \/ device_map'[Face(o)] = 0
    BY <1>1
  <2>1. Head(todo)[1] # "add_device"
    BY <1>1 DEF MayPrecede, Removals, Dismissals, Releases
  <2>2. <<"remove_devices", o>> \in Pending \/ device_map[Face(o)] = 0
    BY <1>1 DEF ServeInv
  <2> QED BY <1>1, <2>1, <2>2
<1> QED BY <1>2, <1>3, <1>4, <1>5, <1>6 DEF ServeInv, Face, Device

(* Nothing is in hand when a call starts. *)
LEMMA FirmStarts ==
  ASSUME NEW p \in Providers, NEW o \in Owners, Pending = {}, Firm(p, o),
         UNCHANGED <<device_map, dl_map, handlers>>
  PROVE  Firm(p, o)'
<1>1. Settled(p, o)
  BY DEF Firm, InHand
<1>2. Settled(p, o)'
  BY <1>1 DEF Settled, Face
<1> QED BY <1>2 DEF Firm

LEMMA ServeStarts ==
  ASSUME ServeInv, NEW C, Starts(C), UNCHANGED <<device_map, dl_map, handlers, refused>>,
         \A e \in C : e[1] \notin {"delete", "remove_own", "delete_handler", "remove_services"},
         \A p \in Providers, o \in Owners :
           <<"remove_service", <<o, p>> >> \in C => Firm(p, o)'
  PROVE  ServeInv'
<1>1. Pending = {} /\ Pending' = C
  BY DEF Starts
<1>2. \A p \in Providers, o \in Owners : Firm(p, o) => Firm(p, o)'
  BY <1>1, FirmStarts
<1>3. /\ \A o : <<"remove_own", o>> \notin Pending' /\ <<"remove_services", o>> \notin Pending'
      /\ \A p, o : <<"delete_handler", p, o>> \notin Pending'
      /\ \A s : <<"delete", s>> \notin Pending'
  BY <1>1
<1>4. /\ \A p \in Providers, o \in Owners :
           Firm(p, o)' \/ (handlers'[p][o] = 0 /\ <<o, p>> \in refused')
      /\ \A p \in Providers, o \in Owners : <<"remove_service", <<o, p>> >> \in Pending' => Firm(p, o)'
  BY <1>1, <1>2 DEF ServeInv
<1> QED BY <1>3, <1>4 DEF ServeInv, Face

(* At the end of the program every provider that listens is told to go. *)
LEMMA FirmAtExit ==
  ASSUME HandlerInv, Pending' = Exit, UNCHANGED <<dl_map, handlers>>,
         NEW p \in Providers, NEW o \in Owners
  PROVE  Firm(p, o)'
<1>1. CASE p \in dl_map
  <2>1. <<"remove_listener", p>> \in Pending'
    BY <1>1 DEF Exit
  <2> QED BY <2>1 DEF Firm, InHand
<1>2. CASE p \notin dl_map
  <2>1. handlers'[p][o] = 0 /\ p \notin dl_map'
    BY <1>2 DEF HandlerInv
  <2> QED BY <2>1 DEF Firm, Settled
<1> QED BY <1>1, <1>2

(* A step that leaves devices, listeners and handlers alone. *)
Quiets == {"notify_add", "notify_remove", "delete_handler", "remove_services",
           "remove_service", "delete", "remove_own"}

LEMMA ListenDoes ==
  ASSUME ListenInv, NEW C, Does(C), UNCHANGED <<device_map, dl_map, handlers, told>>,
         refused \subseteq refused',
         Head(todo)[1] \notin {"erase", "erase_listener", "remove_listener", "delete_handler",
                               "remove_devices", "remove_services", "notify_add", "new_handler"},
         \A e \in C : e[1] \notin Quiets /\ (Handles(e) => Handles(Head(todo)))
  PROVE  ListenInv'
<1>1. Pending = {Head(todo)} \cup Rest /\ Pending' = C \cup Rest
  BY DEF Does
<1>2. GuardInv'
  <2>1. \A e \in C : Handles(e) => Head(todo)[1] # "add_device" /\ Handles(Head(todo))
    BY DEF Handles
  <2> QED BY <2>1, GuardDoes DEF Quiets, ListenInv
<1>3. HearInv'
  <2>1. \A l, d, g : <<"notify_remove", l, d, g>> \notin C
    BY DEF Quiets
  <2> QED BY <2>1, HearDoes DEF ListenInv
<1>4. ServeInv'
  <2>1. \A p \in Providers, o \in Owners : Firm(p, o) => Firm(p, o)'
    BY FirmStays
  <2>2. /\ \A s : <<"remove_service", s>> \notin C /\ <<"delete", s>> \notin C
        /\ \A o : <<"remove_own", o>> \notin C /\ <<"remove_services", o>> \notin C
        /\ \A p, o : <<"delete_handler", p, o>> \notin C
    BY DEF Quiets
  <2>3. \A o : Head(todo) # <<"remove_devices", o>>
    OBVIOUS
  <2> QED BY <2>1, <2>2, <2>3, ServeDoes DEF ListenInv
<1> QED BY <1>2, <1>3, <1>4 DEF ListenInv

LEMMA AddDeviceKeepsListening ==
  ASSUME TypeOK, Sorted(todo), ListenInv, AddDevice
  PROVE  ListenInv'
<1>1. PICK d, g : d = Head(todo)[2] /\ g = Head(todo)[3]
  OBVIOUS
<1> DEFINE C == IF device_map[d] # 0 THEN {}
                ELSE TriggerToo("add_device", d, g) \cup ToldTo("notify_add", d, g)
<1>2. /\ Head(todo) = <<"add_device", d, g>> /\ d \in Devices /\ g \in Objects /\ Does(C)
      /\ UNCHANGED <<dl_map, handlers, told, refused>>
  BY <1>1, AddDeviceDoes DEF AddDevice, servicevars
<1>3. CASE device_map[d] # 0
  <2>1. Does({}) /\ UNCHANGED device_map
    BY <1>1, <1>2, <1>3 DEF AddDevice
  <2> QED BY <1>2, <2>1, ListenDoes
<1>4. CASE device_map[d] = 0
  <2>1. /\ Pending = {Head(todo)} \cup Rest /\ \A f \in Rest : MayPrecede(Head(todo), f)
        /\ Pending' = C \cup Rest
    BY <1>2 DEF Does
  <2>2. \A e \in C : e[1] = "add_device" \/ \E l \in dl_map : e = <<"notify_add", l, d, g>>
    BY DEF TriggerToo, ToldTo
  <2>3. \A l \in dl_map : <<"notify_add", l, d, g>> \in Pending'
    BY <1>4, <2>1 DEF ToldTo
  <2> HIDE DEF C
  <2>4. device_map' = [device_map EXCEPT ![d] = g]
    BY <1>1, <1>4 DEF AddDevice
  <2>5. \A e \in Devices : device_map'[e] = IF e = d THEN g ELSE device_map[e]
    BY <1>2, <2>4 DEF TypeOK
  <2>6. \A f \in Rest : f[1] \notin {"erase", "erase_listener", "remove_listener", "delete_handler",
                                     "remove_services", "notify_remove"}
    BY <1>2, <2>1 DEF MayPrecede, Removals, Dismissals, Releases, Unloads
  <2>7. GuardInv'
    BY <1>2, <2>2, GuardDoes DEF ListenInv, Handles
  <2>8. HearInv'
    <3>1. \A x : <<"erase", x>> \notin Pending /\ <<"erase_listener", x>> \notin Pending
      BY <1>2, <2>1, <2>6
    <3>2. \A l, x, y : <<"notify_remove", l, x, y>> \notin Pending'
      BY <2>1, <2>2, <2>6
    <3>3. \A l, x, y : <<"notify_add", l, x, y>> \in Pending => <<"notify_add", l, x, y>> \in Pending'
      BY <1>2, <2>1
    <3> QED BY <1>2, <2>3, <2>5, <3>1, <3>2, <3>3 DEF ListenInv, HearInv
  <2>9. ASSUME NEW p \in Providers, NEW o \in Owners, d = Face(o)
        PROVE  Firm(p, o)'
    <3>1. Settled(p, o) => handlers[p][o] = 0
      BY <1>4, <2>9 DEF Settled
    <3>2. InHand(p, o) => handlers[p][o] = 0
      BY <1>2, <2>1, <2>6 DEF InHand
    <3>3. handlers'[p][o] = 0
      BY <1>2, <3>1, <3>2 DEF ListenInv, ServeInv, Firm
    <3>4. device_map'[Face(o)] = g
      BY <1>2, <2>5, <2>9
    <3>5. CASE p \in dl_map
      <4>1. <<"notify_add", p, Face(o), g>> \in Pending' /\ p \in dl_map'
        BY <1>2, <2>3, <2>9, <3>5
      <4>2. InHand(p, o)'
        BY <3>3, <3>4, <4>1 DEF InHand, Face, Device
      <4> QED BY <4>2 DEF Firm
    <3>6. CASE p \notin dl_map
      <4>1. Settled(p, o)'
        BY <1>2, <3>3, <3>6 DEF Settled
      <4> QED BY <4>1 DEF Firm
    <3> QED BY <3>5, <3>6
  <2>10. ASSUME NEW p \in Providers, NEW o \in Owners, d # Face(o), Firm(p, o)
         PROVE  Firm(p, o)'
    <3>1. device_map'[Face(o)] = device_map[Face(o)]
      BY <2>5, <2>10, Faces
    <3> QED BY <1>2, <2>10, <3>1, FirmStays
  <2>11. ServeInv'
    <3>1. \A p \in Providers, o \in Owners : Firm(p, o) => Firm(p, o)'
      BY <2>9, <2>10
    <3>2. /\ \A s : <<"remove_service", s>> \notin C /\ <<"delete", s>> \notin C
          /\ \A o : <<"remove_own", o>> \notin C /\ <<"remove_services", o>> \notin C
          /\ \A p, o : <<"delete_handler", p, o>> \notin C
      BY <2>2
    <3>3. Head(todo)[1] = "add_device" /\ \A o : Head(todo) # <<"remove_devices", o>>
      BY <1>2
    <3>4. ServeInv /\ Does(C) /\ UNCHANGED <<handlers, refused>>
      BY <1>2 DEF ListenInv
    <3> QED BY <3>1, <3>2, <3>3, <3>4, ServeDoes
  <2> QED BY <2>7, <2>8, <2>11 DEF ListenInv
<1>5. device_map[d] \in Nat
  BY <1>2 DEF TypeOK
<1> QED BY <1>3, <1>4

LEMMA RemoveDeviceKeepsListening ==
  ASSUME TypeOK, Sorted(todo), ListenInv, RemoveDevice
  PROVE  ListenInv'
<1>1. PICK d, g : d = Head(todo)[2] /\ g = Head(todo)[3]
  OBVIOUS
<1> DEFINE C == TriggerToo("remove_device", d, g) \cup ToldTo("notify_remove", d, g)
                \cup {<<"erase", d>>}
<1>2. /\ Head(todo) = <<"remove_device", d, g>> /\ Does(C)
      /\ UNCHANGED <<device_map, dl_map, handlers, told, refused>>
  BY <1>1, RemoveDeviceDoes DEF RemoveDevice, devicevars, servicevars
<1>3. /\ <<"erase", d>> \in C
      /\ \A e \in C : \/ e[1] = "remove_device" \/ e = <<"erase", d>>
                      \/ \E l \in dl_map : e = <<"notify_remove", l, d, g>>
  BY DEF TriggerToo, ToldTo
<1> HIDE DEF C
<1>4. GuardInv'
  BY <1>2, <1>3, GuardDoes DEF ListenInv, Handles
<1>5. HearInv'
  <2>1. \A l, x, y : <<"notify_remove", l, x, y>> \in C => <<"erase", x>> \in C
    BY <1>3
  <2> QED BY <1>2, <2>1, HearDoes DEF ListenInv
<1>6. ServeInv'
  <2>1. \A p \in Providers, o \in Owners : Firm(p, o) => Firm(p, o)'
    BY <1>2, FirmStays
  <2>2. /\ \A s : <<"remove_service", s>> \notin C /\ <<"delete", s>> \notin C
        /\ \A o : <<"remove_own", o>> \notin C /\ <<"remove_services", o>> \notin C
        /\ \A p, o : <<"delete_handler", p, o>> \notin C
    BY <1>3
  <2>3. \A o : Head(todo) # <<"remove_devices", o>>
    BY <1>2
  <2> QED BY <1>2, <2>1, <2>2, <2>3, ServeDoes DEF ListenInv
<1> QED BY <1>4, <1>5, <1>6 DEF ListenInv

LEMMA EraseDeviceKeepsListening ==
  ASSUME TypeOK, Sorted(todo), HandlerInv, ListenInv, EraseDevice
  PROVE  ListenInv'
<1>1. PICK d : d = Head(todo)[2]
  OBVIOUS
<1>2. /\ Head(todo) = <<"erase", d>> /\ d \in Devices /\ Does({})
      /\ UNCHANGED <<dl_map, handlers, told, refused>> /\ device_map' = [device_map EXCEPT ![d] = 0]
  BY <1>1, EraseDeviceDoes DEF EraseDevice, servicevars
<1>3. /\ Pending = {Head(todo)} \cup Rest /\ \A f \in Rest : MayPrecede(Head(todo), f)
      /\ Pending' = Rest
  BY <1>2 DEF Does
<1>4. \A e \in Devices : device_map'[e] = IF e = d THEN 0 ELSE device_map[e]
  BY <1>2 DEF TypeOK
<1>5. \A f \in Rest : f[1] = "notify_remove" => d[2] = "trigger" /\ f[3][2] = "pd"
  BY <1>2, <1>3 DEF MayPrecede
<1>6. \A f \in Rest : f[1] # "delete_handler"
  BY <1>2, <1>3 DEF MayPrecede, Releases
<1>7. GuardInv'
  BY <1>2, GuardDoes DEF ListenInv
<1>8. HearInv'
  <2>1. /\ \A x : <<"erase", x>> \in Pending => <<"erase", x>> \in Pending' \/ x = d
        /\ \A x : <<"erase_listener", x>> \in Pending => <<"erase_listener", x>> \in Pending'
    BY <1>2, <1>3
  <2>2. \A l, x, y : /\ <<"notify_add", l, x, y>> \in Pending => <<"notify_add", l, x, y>> \in Pending'
                     /\ <<"notify_remove", l, x, y>> \in Pending' => <<"notify_remove", l, x, y>> \in Pending
    BY <1>2, <1>3
  <2>3. \A l, x, y : <<"notify_remove", l, x, y>> \in Pending' => x # d
    BY <1>3, <1>5
  <2> QED BY <1>2, <1>4, <2>1, <2>2, <2>3 DEF ListenInv, HearInv
<1>9. ASSUME NEW p \in Providers, NEW o \in Owners, Firm(p, o)
      PROVE  Firm(p, o)'
  <2>1. CASE d = Face(o)
    <3>1. d[2] # "trigger"
      BY <2>1, Faces
    <3>2. \A f \in Pending : f[1] \notin {"delete_handler", "notify_remove"}
      BY <1>2, <1>3, <1>5, <1>6, <3>1
    <3>3. ~Going(p, o)
      BY <3>2 DEF Going
    <3>4. handlers[p][o] = 0
      BY <1>2, <1>3, <2>1, <3>3 DEF HandlerInv
    <3>5. device_map'[Face(o)] = 0
      BY <1>2, <1>4, <2>1
    <3>6. Settled(p, o)'
      BY <1>2, <3>4, <3>5 DEF Settled, Face, Device
    <3> QED BY <3>6 DEF Firm
  <2>2. CASE d # Face(o)
    <3>1. device_map'[Face(o)] = device_map[Face(o)]
      BY <1>4, <2>2, Faces
    <3>2. Head(todo) # <<"erase", Face(o)>>
      BY <1>2, <2>2
    <3> QED BY <1>2, <1>9, <3>1, <3>2, FirmStays
  <2> QED BY <2>1, <2>2
<1>10. ServeInv'
  <2>1. \A o \in Owners : device_map'[Face(o)] \in {0, device_map[Face(o)]}
    BY <1>4, Faces
  <2>2. \A o : Head(todo) # <<"remove_devices", o>>
    BY <1>2
  <2> QED BY <1>2, <1>9, <2>1, <2>2, ServeDoes DEF ListenInv
<1> QED BY <1>7, <1>8, <1>10 DEF ListenInv

LEMMA RemoveDevicesKeepsListening ==
  ASSUME TypeOK, Sorted(todo), HandlerInv, ListenInv, RemoveDevices
  PROVE  ListenInv'
<1>1. PICK o : o = Head(todo)[2]
  OBVIOUS
<1>2. /\ Head(todo) = <<"remove_devices", o>> /\ o \in Owners /\ Does({})
      /\ UNCHANGED <<dl_map, handlers, told, refused>>
      /\ device_map' = [d \in Devices |-> IF d[1] = o THEN 0 ELSE device_map[d]]
  BY <1>1, RemoveDevicesDoes DEF RemoveDevices, servicevars
<1>3. Pending = {Head(todo)} \cup Rest /\ Pending' = Rest
  BY <1>2 DEF Does
<1>4. <<"remove_services", o>> \in Pending'
  <2>1. <<"remove_services", o>> \in Pending
    BY <1>2, <1>3 DEF HandlerInv
  <2> QED BY <1>2, <1>3, <2>1
<1>5. GuardInv'
  BY <1>2, GuardDoes DEF ListenInv
<1>6. \A d \in Devices : device_map'[d] \in {0, device_map[d]}
  BY <1>2
<1>7. HearInv'
  BY <1>2, <1>6, HearDoes DEF ListenInv
<1>8. ASSUME NEW p \in Providers, NEW q \in Owners, Firm(p, q)
      PROVE  Firm(p, q)'
  <2>1. CASE q = o
    <3>1. InHand(p, q)'
      BY <1>4, <2>1 DEF InHand
    <3> QED BY <3>1 DEF Firm
  <2>2. CASE q # o
    <3>1. device_map'[Face(q)] = device_map[Face(q)]
      BY <1>2, <2>2, Faces
    <3> QED BY <1>2, <1>8, <3>1, FirmStays
  <2> QED BY <2>1, <2>2
<1>9. ServeInv'
  <2>1. \A q \in Owners : /\ device_map'[Face(q)] \in {0, device_map[Face(q)]}
                          /\ Head(todo) = <<"remove_devices", q>> => device_map'[Face(q)] = 0
    BY <1>2, Faces
  <2> QED BY <1>2, <1>8, <2>1, ServeDoes DEF ListenInv
<1> QED BY <1>5, <1>7, <1>9 DEF ListenInv

LEMMA NotifyKeepsListening ==
  ASSUME TypeOK, Sorted(todo), ListenInv, Notify
  PROVE  ListenInv'
<1>1. PICK l, d, g : l = Head(todo)[2] /\ d = Head(todo)[3] /\ g = Head(todo)[4]
  OBVIOUS
<1>2. /\ l \in Listeners /\ d \in Devices /\ g \in Objects /\ Does({})
      /\ UNCHANGED <<device_map, dl_map, handlers, refused>>
      /\ \/ Head(todo) = <<"notify_add", l, d, g>>
         \/ Head(todo) = <<"notify_remove", l, d, g>>
  BY <1>1, NotifyDoes DEF Notify, servicevars
<1>3. Pending = {Head(todo)} \cup Rest /\ Pending' = Rest /\ l \notin Providers
  BY <1>2, RegistryAssumption DEF Does
<1>4. told' = [told EXCEPT ![l] = IF Head(todo)[1] = "notify_add" THEN @ \cup {<<d, g>>} ELSE @ \ {<<d, g>>}]
  BY <1>1 DEF Notify, Doing, Idle
<1>5. GuardInv'
  BY <1>2, GuardDoes DEF ListenInv
<1>6. /\ \A x : <<"erase", x>> \in Pending <=> <<"erase", x>> \in Pending'
      /\ \A x : <<"erase_listener", x>> \in Pending <=> <<"erase_listener", x>> \in Pending'
      /\ \A x, y, z : <<"notify_remove", x, y, z>> \in Pending' => <<"notify_remove", x, y, z>> \in Pending
  BY <1>2, <1>3
<1>7. HearInv'
  <2>1. ASSUME NEW m \in Listeners \cap dl_map, NEW e \in Devices, device_map[e] # 0
        PROVE  \/ <<e, device_map[e]>> \in told'[m]
               \/ <<"notify_add", m, e, device_map[e]>> \in Pending'
               \/ <<"erase", e>> \in Pending' \/ <<"erase_listener", m>> \in Pending'
    <3>1. \/ <<e, device_map[e]>> \in told[m]
          \/ <<"notify_add", m, e, device_map[e]>> \in Pending
          \/ <<"erase", e>> \in Pending \/ <<"erase_listener", m>> \in Pending
      BY <2>1 DEF ListenInv, HearInv
    <3>2. CASE Head(todo) = <<"notify_add", l, d, g>>
      <4>1. /\ <<e, device_map[e]>> \in told[m] => <<e, device_map[e]>> \in told'[m]
            /\ m = l /\ e = d /\ device_map[e] = g => <<e, device_map[e]>> \in told'[m]
        BY <1>2, <1>4, <3>2 DEF TypeOK
      <4>2. <<"notify_add", m, e, device_map[e]>> \in Pending =>
              \/ <<"notify_add", m, e, device_map[e]>> \in Pending'
              \/ m = l /\ e = d /\ device_map[e] = g
        BY <1>3, <3>2
      <4> QED BY <1>6, <3>1, <4>1, <4>2
    <3>3. CASE Head(todo) = <<"notify_remove", l, d, g>>
      <4>1. <<"erase", d>> \in Pending \/ <<"erase_listener", l>> \in Pending
        BY <1>2, <1>3, <3>3 DEF ListenInv, HearInv, Hearers
      <4>2. (m = l /\ e = d) \/ (<<e, device_map[e]>> \in told[m] => <<e, device_map[e]>> \in told'[m])
        BY <1>2, <1>4, <3>3 DEF TypeOK
      <4>3. <<"notify_add", m, e, device_map[e]>> \in Pending => <<"notify_add", m, e, device_map[e]>> \in Pending'
        BY <1>3, <3>3
      <4> QED BY <1>6, <3>1, <4>1, <4>2, <4>3
    <3> QED BY <1>2, <3>2, <3>3
  <2> QED BY <1>2, <1>6, <2>1 DEF ListenInv, HearInv
<1>8. ServeInv'
  <2>1. \A p \in Providers, o \in Owners : Firm(p, o) => Firm(p, o)'
    <3> SUFFICES ASSUME NEW p \in Providers, NEW o \in Owners, Firm(p, o)
                 PROVE  Firm(p, o)'
      OBVIOUS
    <3>1. Head(todo) # <<"notify_add", p, Face(o), device_map[Face(o)]>>
      BY <1>2, <1>3
    <3>2. /\ Head(todo)[1] \in {"notify_add", "notify_remove"} /\ Does({})
          /\ UNCHANGED <<device_map, dl_map, handlers>>
      BY <1>2
    <3> QED BY <3>1, <3>2, FirmStays
  <2>2. \A o : Head(todo) # <<"remove_devices", o>>
    BY <1>2
  <2> QED BY <1>2, <2>1, <2>2, ServeDoes DEF ListenInv
<1> QED BY <1>5, <1>7, <1>8 DEF ListenInv

LEMMA NotifyProviderKeepsListening ==
  ASSUME TypeOK, Sorted(todo), ClockInv, HandlerInv, ListenInv, NotifyProvider
  PROVE  ListenInv'
<1>1. PICK p, d, g : p = Head(todo)[2] /\ d = Head(todo)[3] /\ g = Head(todo)[4]
  OBVIOUS
<1>2. /\ p \in Providers /\ d \in Devices /\ g \in Objects /\ p \notin Listeners
      /\ UNCHANGED <<device_map, dl_map, handlers, told, refused>>
      /\ \/ /\ Head(todo) = <<"notify_add", p, d, g>>
            /\ Does(IF d[2] # "interface" THEN {} ELSE Handled(p, d[1], g))
         \/ /\ Head(todo) = <<"notify_remove", p, d, g>>
            /\ Does(IF d[2] # "interface" THEN {} ELSE {<<"delete_handler", p, d[1]>>})
  BY <1>1, NotifyProviderDoes, RegistryAssumption DEF NotifyProvider, devicevars, servicevars
<1>3. d[1] \in Owners /\ (d[2] = "interface" => d = Face(d[1]))
  BY <1>2, Named, Faces
<1>4. ASSUME NEW C, Does(C), Head(todo)[1] \in {"notify_add", "notify_remove"},
             \A e \in C : /\ e[1] \in {"delete_handler", "add_service", "new_handler", "catch"}
                          /\ Handles(e) => <<"catch">> \in C
                          /\ e[1] = "delete_handler" => /\ e = <<"delete_handler", p, d[1]>>
                                                        /\ d = Face(d[1])
                                                        /\ Head(todo) = <<"notify_remove", p, d, g>>,
             \A q \in Providers, o \in Owners : Firm(q, o) => Firm(q, o)'
      PROVE  ListenInv'
  <2>1. GuardInv'
    BY <1>4, GuardDoes DEF ListenInv
  <2>2. HearInv'
    <3>1. \A l, x, y : <<"notify_remove", l, x, y>> \notin C
      BY <1>4
    <3>2. Head(todo)[2] \notin Listeners
      BY <1>1, <1>2
    <3> QED BY <1>2, <1>4, <3>1, <3>2, HearDoes DEF ListenInv
  <2>3. ServeInv'
    <3>1. /\ \A s : <<"remove_service", s>> \notin C /\ <<"delete", s>> \notin C
          /\ \A o : <<"remove_own", o>> \notin C /\ <<"remove_services", o>> \notin C
          /\ \A o : Head(todo) # <<"remove_devices", o>>
      BY <1>4
    <3>2. ASSUME NEW q \in Providers, NEW o \in Owners, <<"delete_handler", q, o>> \in C
          PROVE  <<"erase", Face(o)>> \in Pending' \/ <<"erase_listener", q>> \in Pending'
      <4>1. q = p /\ o = d[1] /\ d = Face(o) /\ Head(todo) = <<"notify_remove", p, d, g>>
        BY <1>4, <3>2
      <4>2. Pending = {Head(todo)} \cup Rest /\ Pending' = C \cup Rest
        BY <1>4 DEF Does
      <4>3. <<"erase", d>> \in Pending \/ <<"erase_listener", p>> \in Pending
        BY <1>2, <4>1, <4>2 DEF ListenInv, HearInv, Hearers
      <4> QED BY <4>1, <4>2, <4>3
    <3> QED BY <1>2, <1>4, <3>1, <3>2, ServeDoes DEF ListenInv
  <2> QED BY <2>1, <2>2, <2>3 DEF ListenInv
<1>5. ASSUME NEW C, Does(C), NEW q \in Providers, NEW o \in Owners, Firm(q, o),
             Head(todo)[1] \in {"notify_add", "notify_remove"},
             Head(todo) = <<"notify_add", p, d, g>> => q # p \/ Face(o) # d
      PROVE  Firm(q, o)'
  <2>1. Head(todo) # <<"notify_add", q, Face(o), device_map[Face(o)]>>
    BY <1>2, <1>5
  <2> QED BY <1>2, <1>5, <2>1, FirmStays
<1>6. CASE d[2] # "interface"
  <2>1. Does({}) /\ Head(todo)[1] \in {"notify_add", "notify_remove"}
    BY <1>2, <1>6
  <2>2. \A o \in Owners : Face(o) # d
    BY <1>6, Faces
  <2>3. \A q \in Providers, o \in Owners : Firm(q, o) => Firm(q, o)'
    BY <1>5, <2>1, <2>2
  <2> QED BY <1>4, <2>1, <2>3
<1>7. CASE d[2] = "interface" /\ Head(todo) = <<"notify_remove", p, d, g>>
  <2> DEFINE C == {<<"delete_handler", p, d[1]>>}
  <2>1. Does(C) /\ Head(todo)[1] = "notify_remove"
    BY <1>2, <1>7
  <2>2. \A q \in Providers, o \in Owners : Firm(q, o) => Firm(q, o)'
    <3> HIDE DEF C
    <3> QED BY <1>5, <1>7, <2>1
  <2>3. \A e \in C : e = <<"delete_handler", p, d[1]>> /\ e[1] = "delete_handler"
    OBVIOUS
  <2>4. \A e \in C : ~Handles(e)
    BY DEF Handles
  <2> HIDE DEF C
  <2> QED BY <1>3, <1>4, <1>7, <2>1, <2>2, <2>3, <2>4
<1>8. CASE d[2] = "interface" /\ Head(todo) = <<"notify_add", p, d, g>>
  <2> DEFINE C == Handled(p, d[1], g)
  <2>1. Does(C) /\ Head(todo)[1] = "notify_add"
    BY <1>2, <1>8
  <2>2. /\ \A e \in C : e[1] \in {"add_service", "new_handler", "catch"}
        /\ C = {} \/ (<<"catch">> \in C /\ <<"new_handler", p, d[1], g>> \in C)
        /\ handlers[p][d[1]] = 0 => C # {}
    BY DEF Handled
  <2> HIDE DEF C
  <2>3. Pending = {Head(todo)} \cup Rest /\ Pending' = C \cup Rest
    BY <2>1 DEF Does
  <2>4. p \in dl_map /\ device_map[d] = g
    <3>1. <<"notify_add", p, d, g>> \in Pending /\ p \in Hearers
      BY <1>2, <1>8, <2>3 DEF Hearers
    <3>2. p \in dl_map
      BY <1>2, <3>1 DEF HandlerInv
    <3>3. device_map[d] = g
      BY <1>2, <3>1 DEF ClockInv
    <3> QED BY <3>2, <3>3
  <2>5. ASSUME NEW q \in Providers, NEW o \in Owners, Firm(q, o)
        PROVE  Firm(q, o)'
    <3>1. CASE q # p \/ Face(o) # d
      BY <1>5, <2>1, <2>5, <3>1
    <3>2. CASE q = p /\ Face(o) = d /\ handlers[p][o] = 0
      <4>1. o = d[1]
        BY <3>2, Faces
      <4>2. <<"new_handler", p, o, g>> \in Pending'
        BY <2>2, <2>3, <3>2, <4>1
      <4>3. /\ p \in dl_map' /\ handlers'[p][o] = 0
            /\ device_map'[Face(o)] = g
        BY <1>2, <2>4, <3>2
      <4>4. InHand(p, o)'
        BY <4>2, <4>3 DEF InHand, Face, Device
      <4> QED BY <3>2, <4>4 DEF Firm
    <3>3. CASE q = p /\ Face(o) = d /\ handlers[p][o] # 0
      <4>1. CASE Settled(q, o)
        <5>1. Settled(q, o)'
          BY <1>2, <4>1 DEF Settled, Face
        <5> QED BY <5>1 DEF Firm
      <4>2. CASE InHand(q, o)
        <5>1. \A e : e \in Pending /\ e[1] # "notify_add" => e \in Pending'
          BY <2>1, <2>3
        <5>2. InHand(q, o)'
          BY <3>3, <4>2, <5>1 DEF InHand, Face, Device
        <5> QED BY <5>2 DEF Firm
      <4> QED BY <2>5, <4>1, <4>2 DEF Firm
    <3> QED BY <3>1, <3>2, <3>3
  <2> QED BY <1>4, <2>1, <2>2, <2>5
<1> QED BY <1>2, <1>6, <1>7, <1>8

LEMMA NewHandlerKeepsListening ==
  ASSUME TypeOK, Sorted(todo), HandlerInv, ListenInv, NewHandler
  PROVE  ListenInv'
<1>1. PICK p, o, g : p = Head(todo)[2] /\ o = Head(todo)[3] /\ g = Head(todo)[4]
  OBVIOUS
<1>2. /\ Head(todo) = <<"new_handler", p, o, g>> /\ Does({})
      /\ p \in Providers /\ o \in Owners /\ g \in Objects
      /\ UNCHANGED <<device_map, dl_map, told, refused>>
      /\ handlers' = [handlers EXCEPT ![p][o] = g]
  BY <1>1, NewHandlerDoes DEF NewHandler, servicevars
<1>3. Pending = {Head(todo)} \cup Rest /\ Pending' = Rest
  BY <1>2 DEF Does
<1>4. GuardInv'
  BY <1>2, GuardDoes DEF ListenInv
<1>5. HearInv'
  BY <1>2, HearDoes DEF ListenInv
<1>6. \A q \in Providers, r \in Owners :
        handlers'[q][r] = IF q = p /\ r = o THEN g ELSE handlers[q][r]
  BY <1>2 DEF TypeOK
<1>7. Firm(p, o)'
  <2>1. p \in dl_map /\ device_map[Face(o)] = g
    BY <1>2, <1>3 DEF HandlerInv
  <2>2. Settled(p, o)'
    BY <1>2, <1>6, <2>1 DEF Settled, Face
  <2> QED BY <2>2 DEF Firm
<1>8. ASSUME NEW q \in Providers, NEW r \in Owners, Firm(q, r)
      PROVE  Firm(q, r)'
  <2>1. CASE q = p /\ r = o
    BY <1>7, <2>1
  <2>2. CASE ~(q = p /\ r = o)
    <3>1. Head(todo) # <<"new_handler", q, r, device_map[Face(r)]>> /\ Head(todo)[1] = "new_handler"
      BY <1>2, <2>2
    <3>2. handlers'[q][r] = handlers[q][r]
      BY <1>6, <2>2
    <3> QED BY <1>2, <1>8, <3>1, <3>2, FirmStays
  <2> QED BY <2>1, <2>2
<1>9. ServeInv'
  <2>1. \A q \in Providers, r \in Owners : Firm(q, r)' \/ handlers'[q][r] = handlers[q][r]
    BY <1>6, <1>7
  <2>2. \A r : Head(todo) # <<"remove_devices", r>>
    BY <1>2
  <2> QED BY <1>2, <1>8, <2>1, <2>2, ServeDoes DEF ListenInv
<1> QED BY <1>4, <1>5, <1>9 DEF ListenInv

LEMMA DeleteHandlerKeepsListening ==
  ASSUME TypeOK, Sorted(todo), HandlerInv, ListenInv, DeleteHandler
  PROVE  ListenInv'
<1>1. PICK p, o : p = Head(todo)[2] /\ o = Head(todo)[3]
  OBVIOUS
<1> DEFINE C == IF handlers[p][o] = 0 THEN {} ELSE {<<"remove_service", <<o, p>> >>}
<1>2. /\ Head(todo) = <<"delete_handler", p, o>> /\ Does(C)
      /\ p \in Providers /\ o \in Owners
      /\ UNCHANGED <<device_map, dl_map, told, refused>>
      /\ handlers' = [handlers EXCEPT ![p][o] = 0]
  BY <1>1, DeleteHandlerDoes DEF DeleteHandler, servicevars
<1>3. Pending = {Head(todo)} \cup Rest /\ Pending' = C \cup Rest
  BY <1>2 DEF Does
<1>4. \A e \in C : e = <<"remove_service", <<o, p>> >> /\ e[1] = "remove_service"
  OBVIOUS
<1> HIDE DEF C
<1>5. GuardInv'
  BY <1>2, <1>4, GuardDoes DEF ListenInv, Handles
<1>6. HearInv'
  <2>1. \A l, x, y : <<"notify_remove", l, x, y>> \notin C
    BY <1>4
  <2> QED BY <1>2, <2>1, HearDoes DEF ListenInv
<1>7. \A q \in Providers, r \in Owners :
        handlers'[q][r] = IF q = p /\ r = o THEN 0 ELSE handlers[q][r]
  BY <1>2 DEF TypeOK
<1>8. Firm(p, o)'
  <2>1. \/ <<"erase", Face(o)>> \in Pending \/ <<"erase_listener", p>> \in Pending
        \/ <<"remove_own", o>> \in Pending
    BY <1>2, <1>3 DEF ListenInv, ServeInv
  <2>2. CASE <<"erase", Face(o)>> \in Pending \/ <<"erase_listener", p>> \in Pending
    <3>1. <<"erase", Face(o)>> \in Pending' \/ <<"erase_listener", p>> \in Pending'
      BY <1>2, <1>3, <2>2
    <3>2. InHand(p, o)'
      BY <3>1 DEF InHand, Face, Device
    <3> QED BY <3>2 DEF Firm
  <2>3. CASE <<"remove_own", o>> \in Pending
    <3>1. device_map[Face(o)] = 0
      BY <1>2, <2>3 DEF ListenInv, ServeInv
    <3>2. Settled(p, o)'
      BY <1>2, <1>7, <3>1 DEF Settled, Face
    <3> QED BY <3>2 DEF Firm
  <2> QED BY <2>1, <2>2, <2>3
<1>9. ASSUME NEW q \in Providers, NEW r \in Owners, Firm(q, r)
      PROVE  Firm(q, r)'
  <2>1. CASE q = p /\ r = o
    BY <1>8, <2>1
  <2>2. CASE ~(q = p /\ r = o)
    <3>1. Head(todo) # <<"delete_handler", q, r>> /\ Head(todo)[1] = "delete_handler"
      BY <1>2, <2>2
    <3>2. handlers'[q][r] = handlers[q][r]
      BY <1>7, <2>2
    <3> QED BY <1>2, <1>9, <3>1, <3>2, FirmStays
  <2> QED BY <2>1, <2>2
<1>10. ServeInv'
  <2>1. \A q \in Providers, r \in Owners : Firm(q, r)' \/ handlers'[q][r] = handlers[q][r]
    BY <1>7, <1>8
  <2>2. \A r : Head(todo) # <<"remove_devices", r>>
    BY <1>2
  <2>3. /\ \A s : <<"delete", s>> \notin C
        /\ \A q : <<"remove_own", q>> \notin C /\ <<"remove_services", q>> \notin C
        /\ \A q, r : <<"delete_handler", q, r>> \notin C
        /\ \A q, r : <<"remove_service", <<r, q>> >> \in C => q = p /\ r = o
    BY <1>4
  <2> QED BY <1>2, <1>8, <1>9, <2>1, <2>2, <2>3, ServeDoes DEF ListenInv
<1> QED BY <1>5, <1>6, <1>10 DEF ListenInv

LEMMA RemoveListenerKeepsListening ==
  ASSUME TypeOK, Sorted(todo), ListenInv, RemoveListener
  PROVE  ListenInv'
<1>1. PICK l : l = Head(todo)[2]
  OBVIOUS
<1> DEFINE C == {<<"notify_remove", l, d, device_map[d]>> : d \in Registered} \cup {<<"erase_listener", l>>}
<1>2. /\ Head(todo) = <<"remove_listener", l>> /\ Does(C)
      /\ UNCHANGED <<device_map, dl_map, handlers, told, refused>>
  BY <1>1, RemoveListenerDoes DEF RemoveListener, devicevars, servicevars
<1>3. /\ <<"erase_listener", l>> \in C
      /\ \A e \in C : e[1] = "erase_listener" \/ (e[1] = "notify_remove" /\ e[2] = l)
  OBVIOUS
<1> HIDE DEF C
<1>4. Pending = {Head(todo)} \cup Rest /\ Pending' = C \cup Rest
  BY <1>2 DEF Does
<1>5. GuardInv'
  BY <1>2, <1>3, GuardDoes DEF ListenInv, Handles
<1>6. HearInv'
  <2>1. \A m, x, y : <<"notify_remove", m, x, y>> \in C => <<"erase_listener", m>> \in C
    BY <1>3
  <2> QED BY <1>2, <2>1, HearDoes DEF ListenInv
<1>7. ASSUME NEW p \in Providers, NEW o \in Owners, Firm(p, o)
      PROVE  Firm(p, o)'
  <2>1. CASE p = l
    <3>1. <<"erase_listener", p>> \in Pending'
      BY <1>3, <1>4, <2>1
    <3>2. InHand(p, o)'
      BY <3>1 DEF InHand
    <3> QED BY <3>2 DEF Firm
  <2>2. CASE p # l
    <3>1. Head(todo) # <<"remove_listener", p>> /\ Head(todo)[1] = "remove_listener"
      BY <1>2, <2>2
    <3> QED BY <1>2, <1>7, <3>1, FirmStays
  <2> QED BY <2>1, <2>2
<1>8. ServeInv'
  <2>1. /\ \A s : <<"remove_service", s>> \notin C /\ <<"delete", s>> \notin C
        /\ \A o : <<"remove_own", o>> \notin C /\ <<"remove_services", o>> \notin C
        /\ \A p, o : <<"delete_handler", p, o>> \notin C
        /\ \A o : Head(todo) # <<"remove_devices", o>>
    BY <1>2, <1>3
  <2> QED BY <1>2, <1>7, <2>1, ServeDoes DEF ListenInv
<1> QED BY <1>5, <1>6, <1>8 DEF ListenInv

LEMMA EraseListenerKeepsListening ==
  ASSUME TypeOK, Sorted(todo), HandlerInv, ListenInv, EraseListener
  PROVE  ListenInv'
<1>1. PICK l : l = Head(todo)[2]
  OBVIOUS
<1>2. /\ Head(todo) = <<"erase_listener", l>> /\ Does({})
      /\ UNCHANGED <<device_map, handlers, refused>> /\ dl_map' = dl_map \ {l}
      /\ told' = [m \in Listeners |-> IF m = l THEN {} ELSE told[m]]
  BY <1>1, EraseListenerDoes DEF EraseListener, servicevars
<1>3. /\ Pending = {Head(todo)} \cup Rest /\ \A f \in Rest : MayPrecede(Head(todo), f)
      /\ Pending' = Rest
  BY <1>2 DEF Does
<1>4. \A f \in Rest : f[1] # "notify_remove"
  BY <1>2, <1>3 DEF MayPrecede, Removals, Dismissals, Releases
<1>5. GuardInv'
  BY <1>2, GuardDoes DEF ListenInv
<1>6. HearInv'
  <2>1. /\ \A x : <<"erase", x>> \in Pending => <<"erase", x>> \in Pending'
        /\ \A x : <<"erase_listener", x>> \in Pending => <<"erase_listener", x>> \in Pending' \/ x = l
        /\ \A x, y, z : <<"notify_add", x, y, z>> \in Pending => <<"notify_add", x, y, z>> \in Pending'
        /\ \A x, y, z : <<"notify_remove", x, y, z>> \notin Pending'
    BY <1>2, <1>3, <1>4
  <2>2. \A m \in Listeners \cap dl_map' : m # l /\ m \in dl_map /\ told'[m] = told[m]
    BY <1>2
  <2> QED BY <1>2, <2>1, <2>2 DEF ListenInv, HearInv
<1>7. \A p \in Providers, o \in Owners : p = l => handlers[p][o] = 0
  <2>1. \A p \in Providers, o \in Owners : ~Going(p, o)
    <3>1. \A f \in Rest : f[1] # "delete_handler"
      BY <1>2, <1>3 DEF MayPrecede, Releases
    <3>2. \A f \in Pending : f[1] \notin {"delete_handler", "notify_remove"}
      BY <1>2, <1>3, <1>4, <3>1
    <3> QED BY <3>2 DEF Going
  <2> QED BY <1>2, <1>3, <2>1 DEF HandlerInv
<1>8. ASSUME NEW p \in Providers, NEW o \in Owners, Firm(p, o)
      PROVE  Firm(p, o)'
  <2>1. CASE p = l
    <3>1. Settled(p, o)'
      BY <1>2, <1>7, <2>1 DEF Settled
    <3> QED BY <3>1 DEF Firm
  <2>2. CASE p # l
    <3>1. Head(todo) # <<"erase_listener", p>> /\ Head(todo)[1] = "erase_listener"
      BY <1>2, <2>2
    <3> QED BY <1>2, <1>8, <2>2, <3>1, FirmStays
  <2> QED BY <2>1, <2>2
<1>9. ServeInv'
  <2>1. \A o : Head(todo) # <<"remove_devices", o>>
    BY <1>2
  <2> QED BY <1>2, <1>8, <2>1, ServeDoes DEF ListenInv
<1> QED BY <1>5, <1>6, <1>9 DEF ListenInv

LEMMA AddServiceKeepsListening ==
  ASSUME TypeOK, Sorted(todo), ListenInv, AddService
  PROVE  ListenInv'
<1>1. PICK s, g : s = Head(todo)[2] /\ g = Head(todo)[3]
  OBVIOUS
<1> DEFINE C == IF services[s] # 0 THEN {} ELSE {<<"offer", b, s>> : b \in bridge_map}
<1>2. Head(todo) = <<"add_service", s, g>> /\ Does(C)
  BY <1>1, AddServiceDoes
<1>3. \A e \in C : e[1] = "offer" /\ e[3] = s
  OBVIOUS
<1> HIDE DEF C
<1>4. \A e \in C : e[1] \notin Quiets /\ (Handles(e) => Handles(Head(todo)))
  BY <1>2, <1>3 DEF Quiets, Handles, ServiceOf
<1>5. UNCHANGED <<device_map, dl_map, handlers, told, refused>>
  BY DEF AddService, devicevars
<1> QED BY <1>2, <1>4, <1>5, ListenDoes

LEMMA RemoveServiceKeepsListening ==
  ASSUME TypeOK, Sorted(todo), ListenInv, RemoveService
  PROVE  ListenInv'
<1>1. PICK s : s = Head(todo)[2]
  OBVIOUS
<1> DEFINE C == IF services[s] = 0 THEN {}
                ELSE {<<"withdraw", b, s>> : b \in bridge_map} \cup {<<"delete", s>>}
<1>2. /\ Head(todo) = <<"remove_service", s>> /\ Does(C)
      /\ UNCHANGED <<device_map, dl_map, handlers, told, refused>>
  BY <1>1, RemoveServiceDoes DEF RemoveService, devicevars, servicevars
<1>3. \A e \in C : e[1] = "withdraw" \/ e = <<"delete", s>>
  OBVIOUS
<1> HIDE DEF C
<1>4. GuardInv'
  BY <1>2, <1>3, GuardDoes DEF ListenInv, Handles
<1>5. HearInv'
  <2>1. \A l, x, y : <<"notify_remove", l, x, y>> \notin C
    BY <1>3
  <2> QED BY <1>2, <2>1, HearDoes DEF ListenInv
<1>6. \A p \in Providers, o \in Owners : Firm(p, o) => Firm(p, o)'
  BY <1>2, FirmStays
<1>7. ServeInv'
  <2>1. /\ \A x : <<"remove_service", x>> \notin C /\ (<<"delete", x>> \in C => x = s)
        /\ \A o : <<"remove_own", o>> \notin C /\ <<"remove_services", o>> \notin C
        /\ \A p, o : <<"delete_handler", p, o>> \notin C
        /\ \A o : Head(todo) # <<"remove_devices", o>>
    BY <1>2, <1>3
  <2>2. \A p \in Providers, o \in Owners : <<o, p>> = s => Firm(p, o)'
    <3>1. <<"remove_service", s>> \in Pending
      BY <1>2 DEF Does
    <3> QED BY <1>6, <3>1 DEF ListenInv, ServeInv
  <2> QED BY <1>2, <1>6, <2>1, <2>2, ServeDoes DEF ListenInv
<1> QED BY <1>4, <1>5, <1>7 DEF ListenInv

LEMMA DeleteKeepsListening ==
  ASSUME TypeOK, Sorted(todo), ListenInv, Delete
  PROVE  ListenInv'
<1>1. PICK s : s = Head(todo)[2]
  OBVIOUS
<1>2. /\ Head(todo) = <<"delete", s>> /\ Does({})
      /\ UNCHANGED <<device_map, dl_map, handlers, told>> /\ refused' = refused \ {s}
  BY <1>1, DeleteDoes DEF Delete, devicevars
<1>3. GuardInv'
  BY <1>2, GuardDoes DEF ListenInv
<1>4. HearInv'
  BY <1>2, HearDoes DEF ListenInv
<1>5. \A p \in Providers, o \in Owners : Firm(p, o) => Firm(p, o)'
  BY <1>2, FirmStays
<1>6. ServeInv'
  <2>1. \A p \in Providers, o \in Owners : <<o, p>> = s => Firm(p, o)'
    <3>1. <<"delete", s>> \in Pending
      BY <1>2 DEF Does
    <3> QED BY <1>5, <3>1 DEF ListenInv, ServeInv
  <2>2. \A p \in Providers, o \in Owners : Firm(p, o)' \/ (<<o, p>> \in refused => <<o, p>> \in refused')
    BY <1>2, <2>1
  <2>3. \A o : Head(todo) # <<"remove_devices", o>>
    BY <1>2
  <2> QED BY <1>2, <1>5, <2>2, <2>3, ServeDoes DEF ListenInv
<1> QED BY <1>3, <1>4, <1>6 DEF ListenInv

LEMMA RemoveServicesKeepsListening ==
  ASSUME TypeOK, Sorted(todo), HandlerInv, ListenInv, RemoveServices
  PROVE  ListenInv'
<1>1. PICK o : o = Head(todo)[2]
  OBVIOUS
<1> DEFINE C == {<<"delete_handler", p, o>> : p \in dl_map \cap Providers} \cup {<<"remove_own", o>>}
<1>2. /\ Head(todo) = <<"remove_services", o>> /\ o \in Owners /\ Does(C)
      /\ UNCHANGED <<device_map, dl_map, handlers, told, refused>>
  BY <1>1, RemoveServicesDoes DEF RemoveServices, devicevars, servicevars
<1>3. /\ Pending = {Head(todo)} \cup Rest /\ \A f \in Rest : MayPrecede(Head(todo), f)
      /\ Pending' = C \cup Rest
  BY <1>2 DEF Does
<1>4. /\ \A e \in C : \/ e = <<"remove_own", o>>
                      \/ \E p \in dl_map \cap Providers : e = <<"delete_handler", p, o>>
      /\ <<"remove_own", o>> \in C
      /\ \A p \in dl_map \cap Providers : <<"delete_handler", p, o>> \in C
  OBVIOUS
<1> HIDE DEF C
<1>5. GuardInv'
  BY <1>2, <1>4, GuardDoes DEF ListenInv, Handles
<1>6. HearInv'
  <2>1. \A l, x, y : <<"notify_remove", l, x, y>> \notin C
    BY <1>4
  <2> QED BY <1>2, <2>1, HearDoes DEF ListenInv
<1>7. ASSUME NEW p \in Providers PROVE Firm(p, o)'
  <2>1. CASE p \in dl_map
    <3>1. <<"delete_handler", p, o>> \in Pending'
      BY <1>3, <1>4, <2>1
    <3>2. InHand(p, o)'
      BY <3>1 DEF InHand
    <3> QED BY <3>2 DEF Firm
  <2>2. CASE p \notin dl_map
    <3>1. handlers[p][o] = 0
      BY <1>2, <2>2 DEF HandlerInv
    <3>2. Settled(p, o)'
      BY <1>2, <2>2, <3>1 DEF Settled
    <3> QED BY <3>2 DEF Firm
  <2> QED BY <2>1, <2>2
<1>8. ASSUME NEW p \in Providers, NEW q \in Owners, Firm(p, q)
      PROVE  Firm(p, q)'
  <2>1. CASE q = o
    BY <1>7, <2>1
  <2>2. CASE q # o
    <3>1. Head(todo) # <<"remove_services", q>> /\ Head(todo)[1] = "remove_services"
      BY <1>2, <2>2
    <3> QED BY <1>2, <1>8, <3>1, FirmStays
  <2> QED BY <2>1, <2>2
<1>9. device_map[Face(o)] = 0
  <2>1. <<"remove_devices", o>> \notin Pending
    BY <1>2, <1>3 DEF MayPrecede, Removals, Dismissals, Releases
  <2>2. <<"remove_services", o>> \in Pending
    BY <1>2, <1>3
  <2> QED BY <1>2, <2>1, <2>2 DEF ListenInv, ServeInv
<1>10. ServeInv'
  <2>1. /\ \A x : <<"remove_service", x>> \notin C /\ <<"delete", x>> \notin C
        /\ \A q : <<"remove_services", q>> \notin C /\ (<<"remove_own", q>> \in C => q = o)
        /\ \A p, q : <<"delete_handler", p, q>> \in C => q = o
        /\ \A q : Head(todo) # <<"remove_devices", q>>
        /\ <<"remove_own", o>> \in Pending'
    BY <1>2, <1>3, <1>4
  <2> QED BY <1>2, <1>7, <1>8, <1>9, <2>1, ServeDoes DEF ListenInv
<1> QED BY <1>5, <1>6, <1>10 DEF ListenInv

LEMMA RemoveOwnKeepsListening ==
  ASSUME TypeOK, Sorted(todo), ListenInv, RemoveOwn
  PROVE  ListenInv'
<1>1. PICK o : o = Head(todo)[2]
  OBVIOUS
<1> DEFINE C == {<<"remove_service", s>> : s \in {x \in Services : x[1] = o}}
<1>2. /\ Head(todo) = <<"remove_own", o>> /\ o \in Owners /\ Does(C)
      /\ UNCHANGED <<device_map, dl_map, handlers, told, refused>>
  BY <1>1, RemoveOwnDoes DEF RemoveOwn, devicevars, servicevars
<1>3. \A e \in C : e[1] = "remove_service" /\ e[2][1] = o
  OBVIOUS
<1> HIDE DEF C
<1>4. GuardInv'
  BY <1>2, <1>3, GuardDoes DEF ListenInv, Handles
<1>5. HearInv'
  <2>1. \A l, x, y : <<"notify_remove", l, x, y>> \notin C
    BY <1>3
  <2> QED BY <1>2, <2>1, HearDoes DEF ListenInv
<1>6. \A p \in Providers, q \in Owners : Firm(p, q) => Firm(p, q)'
  BY <1>2, FirmStays
<1>7. ServeInv'
  <2>1. /\ \A p, q : <<"remove_service", <<q, p>> >> \in C => q = o
        /\ \A x : <<"delete", x>> \notin C
        /\ \A q : <<"remove_own", q>> \notin C /\ <<"remove_services", q>> \notin C
        /\ \A p, q : <<"delete_handler", p, q>> \notin C
        /\ \A q : Head(todo) # <<"remove_devices", q>>
    BY <1>2, <1>3
  <2>2. \A p \in Providers : Firm(p, o)'
    <3>1. <<"remove_own", o>> \in Pending
      BY <1>2 DEF Does
    <3> QED BY <1>2, <1>6, <3>1 DEF ListenInv, ServeInv
  <2> QED BY <1>2, <1>6, <2>1, <2>2, ServeDoes DEF ListenInv
<1> QED BY <1>4, <1>5, <1>7 DEF ListenInv

LEMMA UnloadKeepsListening ==
  ASSUME TypeOK, Sorted(todo), ListenInv, Unload
  PROVE  ListenInv'
<1>1. PICK o : o = Head(todo)[2]
  OBVIOUS
<1> DEFINE C == Taken(o) \cup {<<"remove_devices", o>>, <<"remove_services", o>>, <<"unloaded", o>>}
<1>2. /\ Head(todo) = <<"unload", o>> /\ o \in Owners /\ Does(C)
      /\ UNCHANGED <<device_map, dl_map, handlers, told, refused>>
  BY <1>1, UnloadDoes DEF Unload, devicevars, servicevars
<1>3. /\ \A e \in C : \/ e[1] \in {"remove_device", "remove_devices", "unloaded"}
                      \/ e = <<"remove_services", o>>
      /\ <<"remove_devices", o>> \in C
  BY DEF Taken
<1> HIDE DEF C
<1>4. GuardInv'
  BY <1>2, <1>3, GuardDoes DEF ListenInv, Handles
<1>5. HearInv'
  <2>1. \A l, x, y : <<"notify_remove", l, x, y>> \notin C
    BY <1>3
  <2> QED BY <1>2, <2>1, HearDoes DEF ListenInv
<1>6. \A p \in Providers, q \in Owners : Firm(p, q) => Firm(p, q)'
  BY <1>2, FirmStays
<1>7. ServeInv'
  <2>1. /\ \A x : <<"remove_service", x>> \notin C /\ <<"delete", x>> \notin C
        /\ \A q : <<"remove_own", q>> \notin C /\ (<<"remove_services", q>> \in C => q = o)
        /\ \A p, q : <<"delete_handler", p, q>> \notin C
        /\ \A q : Head(todo) # <<"remove_devices", q>>
    BY <1>2, <1>3
  <2> QED BY <1>2, <1>3, <1>6, <2>1, ServeDoes DEF ListenInv
<1> QED BY <1>4, <1>5, <1>7 DEF ListenInv

LEMMA ExitKeepsListening ==
  ASSUME HandlerInv, ListenInv, Pending' = Exit, UNCHANGED <<device_map, dl_map, handlers, told>>,
         \A e \in Pending : e[1] \notin {"notify_add", "erase", "erase_listener"}
  PROVE  ListenInv'
<1>1. \A e \in Pending' : e[1] \in {"unload", "remove_bridges", "remove_listener", "remove_service"}
  BY DEF Exit
<1>2. GuardInv'
  BY <1>1, Unguarded
<1>3. HearInv'
  <2>1. /\ \A l, d, g : <<"notify_add", l, d, g>> \notin Pending
        /\ \A d : <<"erase", d>> \notin Pending
        /\ \A l : <<"erase_listener", l>> \notin Pending
        /\ \A l, d, g : <<"notify_remove", l, d, g>> \notin Pending'
    BY <1>1
  <2> QED BY <2>1 DEF ListenInv, HearInv
<1>4. ServeInv'
  <2>1. \A p \in Providers, o \in Owners : Firm(p, o)'
    BY FirmAtExit
  <2>2. /\ \A o : <<"remove_own", o>> \notin Pending' /\ <<"remove_services", o>> \notin Pending'
        /\ \A p, o : <<"delete_handler", p, o>> \notin Pending'
    BY <1>1
  <2> QED BY <2>1, <2>2 DEF ServeInv
<1> QED BY <1>2, <1>3, <1>4 DEF ListenInv

(* An exception spares what listeners are to hear: it is thrown when a     *)
(* service is offered, or before the call has come to that.                *)
LEMMA SparedByThrow ==
  ASSUME TypeOK, Sorted(todo), GuardInv, todo # <<>>, Throws,
         Head(todo)[1] \in {"offer", "configure", "add_device"},
         Head(todo)[1] = "add_device" => Head(todo)[2][2] # "trigger"
  PROVE  /\ Pending' = Exit => \A f \in Pending : f[1] # "notify_add"
         /\ Pending' # Exit => /\ Pending' \subseteq Pending
                               /\ \A f \in Pending : f[1] = "notify_add" => f \in Pending'
                               /\ \A f \in Pending' : ~Handles(f)
<1>1. todo \in Seq(Entries) /\ Len(todo) \in Nat
  BY DEF TypeOK
<1>2. Pending = {todo[i] : i \in 1 .. Len(todo)}
  BY <1>1, ElementsOf DEF Pending
<1>3. Pending = {Head(todo)} \cup Rest /\ \A f \in Rest : MayPrecede(Head(todo), f)
  BY Heads
<1>4. ASSUME NEW f \in Pending, f[1] = "notify_add"
      PROVE  Before(todo, <<"catch">>, f)
  <2>1. f \in Rest
    BY <1>3, <1>4
  <2>2. Handles(Head(todo))
    <3>1. MayPrecede(Head(todo), f)
      BY <1>3, <2>1
    <3> QED BY <1>4, <3>1 DEF MayPrecede, Additions, Handles
  <2> QED BY <1>3, <1>4, <2>2 DEF GuardInv
<1>5. CASE GivesUp
  <2>1. <<"catch">> \notin Pending /\ Pending' = Exit
    BY <1>5 DEF GivesUp
  <2>2. ASSUME NEW f \in Pending, f[1] = "notify_add" PROVE FALSE
    <3>1. PICK j \in 1 .. Len(todo) : todo[j] = f
      BY <1>2
    <3>2. PICK i \in 1 .. j - 1 : todo[i] = <<"catch">>
      BY <1>4, <2>2, <3>1 DEF Before
    <3>3. i \in 1 .. Len(todo)
      BY <1>1
    <3> QED BY <1>2, <2>1, <3>2, <3>3
  <2> QED BY <2>1, <2>2
<1>6. ASSUME NEW n \in 1 .. Len(todo), Catches(n)
      PROVE  /\ \A f \in Pending : f[1] = "notify_add" => f \in Pending'
             /\ Pending' \subseteq Pending
             /\ \A f \in Pending' : ~Handles(f)
  <2>1. /\ todo[n] = <<"catch">> /\ Pending' = {todo[i] : i \in n + 1 .. Len(todo)}
        /\ \A i \in 1 .. n - 1 : todo[i] # <<"catch">>
    BY <1>6 DEF Catches
  <2>2. \A i \in n + 1 .. Len(todo) : i \in 1 .. Len(todo) /\ n < i
    BY <1>1
  <2>3. ASSUME NEW f \in Pending, f[1] = "notify_add" PROVE f \in Pending'
    <3>1. PICK j \in 1 .. Len(todo) : todo[j] = f
      BY <1>2
    <3>2. PICK i \in 1 .. j - 1 : todo[i] = <<"catch">>
      BY <1>4, <2>3, <3>1 DEF Before
    <3>3. ~(i \in 1 .. n - 1)
      BY <2>1, <3>2
    <3>4. j \in n + 1 .. Len(todo)
      BY <1>1, <3>3
    <3> QED BY <2>1, <3>1, <3>4
  <2>4. ASSUME NEW f \in Pending' PROVE ~Handles(f)
    <3>1. PICK i \in n + 1 .. Len(todo) : todo[i] = f
      BY <2>1
    <3>2. MayPrecede(todo[n], todo[i])
      BY <2>2 DEF Sorted
    <3>3. MayPrecede(<<"catch">>, f)
      BY <2>1, <3>1, <3>2
    <3> QED BY <3>3 DEF MayPrecede, Handles, ServiceOf
  <2> QED BY <1>2, <2>1, <2>2, <2>3, <2>4
<1>7. CASE \E n \in 1 .. Len(todo) : Catches(n)
  <2>1. PICK n \in 1 .. Len(todo) : Catches(n)
    BY <1>7
  <2>2. /\ \A f \in Pending : f[1] = "notify_add" => f \in Pending'
        /\ Pending' \subseteq Pending
        /\ \A f \in Pending' : ~Handles(f)
    BY <1>6, <2>1
  <2>3. Pending' = Exit => \A f \in Pending' : f[1] # "notify_add"
    BY DEF Exit
  <2> QED BY <2>2, <2>3
<1> QED BY <1>5, <1>7 DEF Throws

LEMMA ThrowKeepsListening ==
  ASSUME TypeOK, Sorted(todo), HandlerInv, ListenInv, todo # <<>>, Throws,
         UNCHANGED <<device_map, dl_map, handlers, told>>, refused \subseteq refused',
         \/ Head(todo)[1] = "offer" /\ Head(todo)[3] \in refused'
         \/ Head(todo)[1] = "configure"
         \/ Head(todo)[1] = "add_device" /\ Head(todo)[2][2] # "trigger"
  PROVE  ListenInv'
<1>1. Pending = {Head(todo)} \cup Rest /\ \A f \in Rest : MayPrecede(Head(todo), f)
  BY Heads
<1>2. \A f \in Pending : f[1] \notin {"erase", "erase_listener", "remove_listener", "delete_handler",
                                      "remove_services", "notify_remove", "remove_service", "delete",
                                      "remove_own"}
  BY <1>1 DEF MayPrecede, Removals, Dismissals, Releases, Unloads
<1>3. /\ Pending' = Exit => \A f \in Pending : f[1] # "notify_add"
      /\ Pending' # Exit => /\ Pending' \subseteq Pending
                            /\ \A f \in Pending : f[1] = "notify_add" => f \in Pending'
                            /\ \A f \in Pending' : ~Handles(f)
  BY SparedByThrow DEF ListenInv
<1>4. CASE Pending' = Exit
  BY <1>2, <1>3, <1>4, ExitKeepsListening
<1>5. CASE Pending' # Exit
  <2>1. GuardInv'
    <3>1. \A f \in Pending' : Handles(f)' <=> Handles(f)
      BY DEF Handles, ServiceOf
    <3>2. \A f \in Pending' : ~Handles(f)
      BY <1>3, <1>5
    <3> QED BY <3>2, Unguarded
  <2>2. HearInv'
    <3>1. /\ \A d : <<"erase", d>> \notin Pending
          /\ \A l : <<"erase_listener", l>> \notin Pending
          /\ \A l, d, g : <<"notify_remove", l, d, g>> \notin Pending'
          /\ \A l, d, g : <<"notify_add", l, d, g>> \in Pending => <<"notify_add", l, d, g>> \in Pending'
      BY <1>2, <1>3, <1>5
    <3> QED BY <3>1 DEF ListenInv, HearInv
  <2>3. ServeInv'
    <3>1. \A f \in Pending' : f[1] \notin {"remove_service", "delete", "remove_own", "delete_handler",
                                           "remove_services"}
      BY <1>2, <1>3, <1>5
    <3>2. ASSUME NEW p \in Providers, NEW o \in Owners, Firm(p, o)
          PROVE  Firm(p, o)' \/ (handlers'[p][o] = 0 /\ <<o, p>> \in refused')
      <4>1. CASE Settled(p, o)
        <5>1. Settled(p, o)'
          BY <4>1 DEF Settled, Face
        <5> QED BY <5>1 DEF Firm
      <4>2. CASE InHand(p, o)
        <5>1. /\ p \in dl_map /\ handlers[p][o] = 0
              /\ \/ <<"notify_add", p, Face(o), device_map[Face(o)]>> \in Pending
                 \/ <<"new_handler", p, o, device_map[Face(o)]>> \in Pending
          BY <1>2, <4>2 DEF InHand
        <5>2. CASE <<"notify_add", p, Face(o), device_map[Face(o)]>> \in Pending
          <6>1. <<"notify_add", p, Face(o), device_map[Face(o)]>> \in Pending'
            BY <1>3, <1>5, <5>2
          <6>2. InHand(p, o)'
            BY <5>1, <6>1 DEF InHand, Face, Device
          <6> QED BY <6>2 DEF Firm
        <5>3. CASE <<"new_handler", p, o, device_map[Face(o)]>> \in Pending
          <6>1. <<"new_handler", p, o, device_map[Face(o)]>> \in Rest
            BY <1>1, <5>3
          <6>2. MayPrecede(Head(todo), <<"new_handler", p, o, device_map[Face(o)]>>)
            BY <1>1, <6>1
          <6>3. Head(todo)[1] = "offer" /\ Head(todo)[3] = <<o, p>>
            BY <6>2 DEF MayPrecede, ServiceOf
          <6> QED BY <5>1, <6>3
        <5> QED BY <5>1, <5>2, <5>3
      <4> QED BY <3>2, <4>1, <4>2 DEF Firm
    <3>3. \A p \in Providers, o \in Owners :
            Firm(p, o)' \/ (handlers'[p][o] = 0 /\ <<o, p>> \in refused')
      BY <3>2 DEF ListenInv, ServeInv
    <3>4. /\ \A s : <<"remove_service", s>> \notin Pending' /\ <<"delete", s>> \notin Pending'
          /\ \A o : <<"remove_own", o>> \notin Pending' /\ <<"remove_services", o>> \notin Pending'
          /\ \A p, o : <<"delete_handler", p, o>> \notin Pending'
      BY <3>1
    <3> QED BY <3>3, <3>4 DEF ServeInv
  <2> QED BY <2>1, <2>2, <2>3 DEF ListenInv
<1> QED BY <1>4, <1>5

LEMMA ListenStarts ==
  ASSUME ListenInv, NEW C, Starts(C), UNCHANGED <<device_map, dl_map, handlers, told, refused>>,
         \A e \in C : e[1] \notin Quiets
  PROVE  ListenInv'
<1>1. Pending' = C
  BY DEF Starts
<1>2. GuardInv'
  BY <1>1, Unguarded DEF Quiets
<1>3. HearInv'
  BY HearStarts DEF Quiets, ListenInv
<1>4. ServeInv'
  <2>1. \A s : <<"remove_service", s>> \notin C
    BY DEF Quiets
  <2> QED BY <2>1, ServeStarts DEF Quiets, ListenInv
<1> QED BY <1>2, <1>3, <1>4 DEF ListenInv

LEMMA AddListenerKeepsListening ==
  ASSUME TypeOK, HandlerInv, ListenInv, NEW l \in Hearers, AddListener(l)
  PROVE  ListenInv'
<1> DEFINE C == {<<"notify_add", l, d, device_map[d]>> : d \in Registered}
<1>1. /\ Starts(C) /\ l \notin dl_map /\ dl_map' = dl_map \cup {l}
      /\ UNCHANGED <<device_map, handlers, told, refused>>
  BY AddListenerStarts DEF AddListener, servicevars
<1>2. Pending = {} /\ Pending' = C
  BY <1>1 DEF Starts
<1>3. /\ \A e \in C : e[1] = "notify_add"
      /\ \A d \in Devices : device_map[d] # 0 => <<"notify_add", l, d, device_map[d]>> \in C
  BY DEF Registered
<1> HIDE DEF C
<1>4. GuardInv'
  BY <1>2, <1>3, Unguarded DEF Handles
<1>5. HearInv'
  <2>1. \A x, y, z : <<"notify_remove", x, y, z>> \notin Pending'
    BY <1>2, <1>3
  <2> QED BY <1>1, <1>2, <1>3, <2>1 DEF ListenInv, HearInv
<1>6. ServeInv'
  <2>1. ASSUME NEW p \in Providers, NEW o \in Owners, p # l
        PROVE  Firm(p, o)' \/ (handlers'[p][o] = 0 /\ <<o, p>> \in refused')
    <3>1. CASE Firm(p, o)
      <4>1. Settled(p, o)
        BY <1>2, <3>1 DEF Firm, InHand
      <4>2. Settled(p, o)'
        BY <1>1, <2>1, <4>1 DEF Settled, Face
      <4> QED BY <4>2 DEF Firm
    <3>2. CASE ~Firm(p, o)
      BY <1>1, <3>2 DEF ListenInv, ServeInv
    <3> QED BY <3>1, <3>2
  <2>2. ASSUME NEW o \in Owners, l \in Providers
        PROVE  Firm(l, o)'
    <3>1. handlers'[l][o] = 0 /\ l \in dl_map'
      BY <1>1, <2>2 DEF HandlerInv
    <3>2. CASE device_map[Face(o)] = 0
      <4>1. Settled(l, o)'
        BY <1>1, <3>1, <3>2 DEF Settled, Face
      <4> QED BY <4>1 DEF Firm
    <3>3. CASE device_map[Face(o)] # 0
      <4>1. <<"notify_add", l, Face(o), device_map'[Face(o)]>> \in Pending'
        BY <1>1, <1>2, <1>3, <3>3, Faces
      <4>2. InHand(l, o)'
        BY <3>1, <4>1 DEF InHand, Face, Device
      <4> QED BY <4>2 DEF Firm
    <3> QED BY <3>2, <3>3
  <2>3. /\ \A s : <<"remove_service", s>> \notin Pending' /\ <<"delete", s>> \notin Pending'
        /\ \A o : <<"remove_own", o>> \notin Pending' /\ <<"remove_services", o>> \notin Pending'
        /\ \A p, o : <<"delete_handler", p, o>> \notin Pending'
    BY <1>2, <1>3
  <2>4. \A p \in Providers, o \in Owners :
          Firm(p, o)' \/ (handlers'[p][o] = 0 /\ <<o, p>> \in refused')
    BY <2>1, <2>2
  <2> QED BY <2>3, <2>4 DEF ServeInv
<1> QED BY <1>4, <1>5, <1>6 DEF ListenInv

LEMMA CallKeepsListening ==
  ASSUME TypeOK, Sorted(todo), HandlerInv, ListenInv, Call
  PROVE  ListenInv'
<1> DEFINE Same == UNCHANGED <<device_map, dl_map, handlers, told, refused>>
<1>1. ASSUME NEW l \in Hearers, AddListener(l)
      PROVE  ListenInv'
  BY <1>1, AddListenerKeepsListening
<1>2. ASSUME NEW l \in Listeners, CallRemoveListener(l)
      PROVE  ListenInv'
  <2>1. Starts({<<"remove_listener", l>>}) /\ Same
    BY <1>2, CallRemoveListenerStarts DEF CallRemoveListener, servicevars, devicevars
  <2> QED BY <2>1, ListenStarts DEF Quiets
<1>3. ASSUME NEW s \in Services, CallByOwner(s)
      PROVE  ListenInv'
  <2> DEFINE C == {<<"withdraw", b, s>> : b \in bridge_map}
  <2>1. Starts(C) /\ Same
    BY <1>3, CallByOwnerStarts DEF CallByOwner, devicevars
  <2>2. \A e \in C : e[1] \notin Quiets
    BY DEF Quiets
  <2> HIDE DEF C
  <2> QED BY <2>1, <2>2, ListenStarts
<1>4. ASSUME NEW b \in Bridges, AddBridge(b)
      PROVE  ListenInv'
  <2> DEFINE C == {<<"offer", b, s>> : s \in {x \in Services : services[x] # 0}}
  <2>1. Starts(C) /\ Same
    BY <1>4, AddBridgeStarts DEF AddBridge, devicevars
  <2>2. \A e \in C : e[1] \notin Quiets
    BY DEF Quiets
  <2> HIDE DEF C
  <2> QED BY <2>1, <2>2, ListenStarts
<1>5. ASSUME NEW o \in Owners, NEW end \in {<<>>, << <<"catch">> >>}, load_module(o, end)
      PROVE  ListenInv'
  <2> DEFINE C == Given(o, objects')
                  \cup {<<"configure", o>>, <<"add_service", <<o, "own">>, objects'>>,
                        <<"loaded", o, objects'>>} \cup ToSet(end)
  <2>1. Starts(C) /\ Same
    BY <1>5, LoadStarts DEF load_module, servicevars, devicevars
  <2>2. ToSet(end) \subseteq {<<"catch">>}
    BY Nothing, Single, Made
  <2>3. \A e \in C : e[1] \notin Quiets
    BY <2>2 DEF Given, Quiets
  <2> HIDE DEF C
  <2> QED BY <2>1, <2>3, ListenStarts
<1>6. ASSUME NEW o \in Owners, svc_reconfigure_module(o)
      PROVE  ListenInv'
  <2> DEFINE C == Taken(o) \cup Given(o, objects')
                  \cup {<<"configure", o>>, <<"reconfigured", o, objects'>>, <<"catch">>}
  <2>1. Starts(C) /\ Same
    BY <1>6, ReconfigureStarts DEF svc_reconfigure_module, servicevars, devicevars
  <2>2. \A e \in C : e[1] \notin Quiets
    BY DEF Given, Taken, Quiets
  <2> HIDE DEF C
  <2> QED BY <2>1, <2>2, ListenStarts
<1>7. ASSUME NEW o \in Owners, svc_remove_module(o)
      PROVE  ListenInv'
  <2>1. Starts({<<"unload", o>>}) /\ Same
    BY <1>7, RemoveModuleStarts DEF svc_remove_module, servicevars, devicevars
  <2> QED BY <2>1, ListenStarts DEF Quiets
<1>8. CASE ReadConfig
  <2>1. Starts({}) /\ Same
    BY <1>8, ReadConfigStarts DEF ReadConfig, servicevars, devicevars
  <2> QED BY <2>1, ListenStarts
<1>9. CASE NextPhase
  <2> DEFINE C == IF phase = "providers" THEN {<<"add_service", <<Kernel, "own">>, 1>>} ELSE {}
  <2>1. Starts(C) /\ Same
    BY <1>9, NextPhaseStarts DEF NextPhase, servicevars, devicevars
  <2>2. \A e \in C : e[1] \notin Quiets
    BY DEF Quiets
  <2> HIDE DEF C
  <2> QED BY <2>1, <2>2, ListenStarts
<1>10. CASE ConfigFails
  <2>1. Throws /\ todo = <<>> /\ Same
    BY <1>10, ConfigFailsThrows DEF ConfigFails, servicevars, devicevars
  <2>2. Pending = {} /\ Len(todo) = 0
    BY <2>1, Nothing DEF Pending
  <2>3. Pending' = Exit
    BY <2>1, <2>2, AfterThrow
  <2> QED BY <2>1, <2>2, <2>3, ExitKeepsListening
<1>11. CASE Shutdown
  <2>1. Starts(Exit) /\ Same
    BY <1>11, ShutdownStarts DEF Shutdown, servicevars, devicevars
  <2>2. Pending = {} /\ Pending' = Exit
    BY <2>1 DEF Starts
  <2> QED BY <2>1, <2>2, ExitKeepsListening
<1> QED BY <1>1, <1>2, <1>3, <1>4, <1>5, <1>6, <1>7, <1>8, <1>9, <1>10, <1>11, CalledAssumption
        DEF Call, CallAddListener, AddProvider, CreateModule, svc_add_module, Hearers

LEMMA DeviceStepKeepsListening ==
  ASSUME TypeOK, Sorted(todo), ClockInv, HandlerInv, ListenInv, DeviceStep
  PROVE  ListenInv'
<1>1. CASE EndOfTry
  <2>1. Does({}) /\ Head(todo)[1] = "catch"
    BY <1>1, EndOfTryDoes
  <2>2. UNCHANGED <<device_map, dl_map, handlers, told, refused>>
    BY <1>1 DEF EndOfTry, servicevars, devicevars
  <2> QED BY <2>1, <2>2, ListenDoes
<1> QED BY <1>1, AddDeviceKeepsListening, RemoveDeviceKeepsListening, EraseDeviceKeepsListening,
           RemoveDevicesKeepsListening, NotifyKeepsListening, NotifyProviderKeepsListening,
           NewHandlerKeepsListening, DeleteHandlerKeepsListening, RemoveListenerKeepsListening,
           EraseListenerKeepsListening DEF DeviceStep

LEMMA ServiceStepKeepsListening ==
  ASSUME TypeOK, Sorted(todo), HandlerInv, ListenInv, ServiceStep
  PROVE  ListenInv'
<1>1. CASE Offer
  <2>1. Does({}) /\ Head(todo)[1] = "offer"
    BY <1>1, OfferDoes
  <2>2. UNCHANGED <<device_map, dl_map, handlers, told, refused>>
    BY <1>1 DEF Offer, devicevars
  <2> QED BY <2>1, <2>2, ListenDoes
<1>2. CASE Withdraw
  <2>1. Does({}) /\ Head(todo)[1] = "withdraw"
    BY <1>2, WithdrawDoes
  <2>2. UNCHANGED <<device_map, dl_map, handlers, told, refused>>
    BY <1>2 DEF Withdraw, devicevars
  <2> QED BY <2>1, <2>2, ListenDoes
<1>3. CASE RemoveBridges
  <2>1. Does({}) /\ Head(todo)[1] = "remove_bridges"
    BY <1>3, RemoveBridgesDoes
  <2>2. UNCHANGED <<device_map, dl_map, handlers, told, refused>>
    BY <1>3 DEF RemoveBridges, devicevars
  <2> QED BY <2>1, <2>2, ListenDoes
<1>4. CASE Refuse
  <2>1. Throws /\ todo # <<>> /\ Head(todo)[1] = "offer"
    BY <1>4, RefuseThrows
  <2>2. UNCHANGED <<device_map, dl_map, handlers, told>> /\ refused' = refused \cup {Head(todo)[3]}
    BY <1>4 DEF Refuse, devicevars
  <2> QED BY <2>1, <2>2, ThrowKeepsListening
<1> QED BY <1>1, <1>2, <1>3, <1>4, AddServiceKeepsListening, RemoveServiceKeepsListening,
           DeleteKeepsListening, RemoveServicesKeepsListening, RemoveOwnKeepsListening DEF ServiceStep

LEMMA ModuleStepKeepsListening ==
  ASSUME TypeOK, Sorted(todo), HandlerInv, ListenInv, ModuleStep
  PROVE  ListenInv'
<1>1. UNCHANGED <<device_map, dl_map, handlers, told, refused>>
  BY DEF ModuleStep, Configured, ConfigureFails, Loaded, Reconfigured, Unload, Unloaded,
         servicevars, devicevars
<1>2. CASE Configured
  <2>1. Does({}) /\ Head(todo)[1] = "configure"
    BY <1>2, ConfiguredDoes
  <2> QED BY <1>1, <2>1, ListenDoes
<1>3. CASE ConfigureFails
  <2>1. /\ Throws /\ todo # <<>> /\ Head(todo)[1] \in {"configure", "add_device"}
        /\ Head(todo)[1] = "add_device" => Head(todo)[2][2] # "trigger"
    BY <1>3, ConfigureFailsThrows
  <2> QED BY <1>1, <2>1, ThrowKeepsListening
<1>4. CASE Loaded
  <2>1. Does({}) /\ Head(todo)[1] = "loaded"
    BY <1>4, LoadedDoes
  <2> QED BY <1>1, <2>1, ListenDoes
<1>5. CASE Reconfigured
  <2>1. Does({}) /\ Head(todo)[1] = "reconfigured"
    BY <1>5, ReconfiguredDoes
  <2> QED BY <1>1, <2>1, ListenDoes
<1>6. CASE Unloaded
  <2>1. Does({}) /\ Head(todo)[1] = "unloaded"
    BY <1>6, UnloadedDoes
  <2> QED BY <1>1, <2>1, ListenDoes
<1> QED BY <1>2, <1>3, <1>4, <1>5, <1>6, UnloadKeepsListening DEF ModuleStep

LEMMA OrderAndListening == Spec => [](Ordered /\ ClockInv /\ HandlerInv /\ ListenInv)
<1>1. Init => ListenInv
  <2> SUFFICES ASSUME Init PROVE ListenInv
    OBVIOUS
  <2>1. /\ Pending = {} /\ dl_map = {} /\ \A p \in Providers, o \in Owners : handlers[p][o] = 0
        /\ \A d \in Devices : device_map[d] = 0
    BY InitOrdered DEF Init, None
  <2>2. \A p \in Providers, o \in Owners : Firm(p, o)
    BY <2>1 DEF Firm, Settled
  <2> QED BY <2>1, <2>2 DEF ListenInv, GuardInv, HearInv, ServeInv
<1>2. Ordered /\ ClockInv /\ HandlerInv /\ ListenInv /\ [Next]_vars => ListenInv'
  <2> SUFFICES ASSUME Ordered, ClockInv, HandlerInv, ListenInv, [Next]_vars PROVE ListenInv'
    OBVIOUS
  <2>1. TypeOK /\ Sorted(todo)
    BY DEF Ordered
  <2>2. CASE Next
    BY <2>1, <2>2, CallKeepsListening, DeviceStepKeepsListening, ServiceStepKeepsListening,
       ModuleStepKeepsListening DEF Next
  <2>3. CASE UNCHANGED vars
    <3>1. UNCHANGED <<device_map, dl_map, handlers, told, refused, todo>> /\ Pending' = Pending
      BY <2>3 DEF Pending, vars, modulevars, servicevars, devicevars
    <3>2. \A p \in Providers, o \in Owners : Firm(p, o)' <=> Firm(p, o)
      BY <3>1 DEF Firm, Settled, InHand, Face, Device
    <3>3. GuardInv'
      BY <3>1 DEF ListenInv, GuardInv, Before, Handles, ServiceOf
    <3>4. HearInv'
      BY <3>1 DEF ListenInv, HearInv
    <3>5. ServeInv'
      BY <3>1, <3>2 DEF ListenInv, ServeInv, Face, Device
    <3> QED BY <3>3, <3>4, <3>5 DEF ListenInv
  <2> QED BY <2>2, <2>3
<1> QED BY <1>1, <1>2, OrderAndHandlers, PTL DEF Spec

(* Between calls a listener has heard of every device that is registered,  *)
(* and a service provider has a handler for every interface that is, and   *)
(* for no other, unless a bridge has refused the service of that handler,  *)
(* whichever came first (add_device, remove_device, add_device_listener,   *)
(* notify_add_device of kernel.cpp and service_provider.cpp), for any      *)
(* modules, bridges, listeners and service providers.                      *)
THEOREM ListenersMatchDevicesAlways == Spec => []ListenersMatchDevices
<1>1. ListenInv => ListenersMatchDevices
  <2> SUFFICES ASSUME ListenInv, Idle PROVE ListenersMatchDevices
    BY DEF ListenersMatchDevices
  <2>1. Pending = {}
    BY Nothing DEF Idle, Pending
  <2>2. \A p \in Providers, o \in Owners : Settled(p, o) \/ <<o, p>> \in refused
    BY <2>1 DEF ListenInv, ServeInv, Firm, InHand
  <2>3. \A l \in Listeners \cap dl_map, d \in Devices :
          device_map[d] # 0 => <<d, device_map[d]>> \in told[l]
    BY <2>1 DEF ListenInv, HearInv
  <2> QED BY <2>2, <2>3 DEF ListenersMatchDevices, Settled, Face, Device
<1> QED BY <1>1, OrderAndListening, PTL

-----------------------------------------------------------------------------
(* The steps by the head of todo: what it puts there, and what it changes. *)

Follows(op) ==
  CASE op = "add_device" -> {"add_device", "notify_add"}
    [] op = "remove_device" -> {"remove_device", "notify_remove", "erase"}
    [] op = "notify_add" -> {"add_service", "new_handler", "catch"}
    [] op = "notify_remove" -> {"delete_handler"}
    [] op = "delete_handler" -> {"remove_service"}
    [] op = "remove_listener" -> {"notify_remove", "erase_listener"}
    [] op = "add_service" -> {"offer"}
    [] op = "remove_service" -> {"withdraw", "delete"}
    [] op = "remove_services" -> {"delete_handler", "remove_own"}
    [] op = "remove_own" -> {"remove_service"}
    [] op = "unload" -> {"remove_device", "remove_devices", "remove_services", "unloaded"}
    [] OTHER -> {}

Keeps(op) ==
  /\ op \notin {"add_service", "delete"} => UNCHANGED services
  /\ op \notin {"add_device", "erase", "remove_devices"} => UNCHANGED device_map
  /\ op \notin {"new_handler", "delete_handler"} => UNCHANGED handlers
  /\ op \notin {"loaded", "unload"} => UNCHANGED object
  /\ op \notin {"loaded", "unload", "reconfigured"} => UNCHANGED mod_handle
  /\ op # "unloaded" => UNCHANGED <<loaded, left>>
  /\ op # "remove_bridges" => UNCHANGED bridge_map
  /\ op # "erase_listener" => UNCHANGED dl_map
  /\ UNCHANGED <<phase, objects>>

Runs(C) ==
  /\ Does(C) /\ Keeps(Head(todo)[1])
  /\ \A e \in C : e[1] \in Follows(Head(todo)[1])
  /\ \A e \in C : \/ e[1] = "add_service"
                  \/ e[1] = "remove_service" /\ Head(todo)[1] = "delete_handler"
                  => e[2][2] \in Providers

LEMMA DeviceStepRuns ==
  ASSUME TypeOK, Sorted(todo), DeviceStep
  PROVE  \E C : Runs(C)
<1> DEFINE h == Head(todo)
<1>1. CASE AddDevice
  <2> DEFINE C == IF device_map[h[2]] # 0 THEN {}
                  ELSE TriggerToo("add_device", h[2], h[3]) \cup ToldTo("notify_add", h[2], h[3])
  <2>1. Does(C) /\ h = <<"add_device", h[2], h[3]>>
    BY <1>1, AddDeviceDoes
  <2>2. \A e \in C : e[1] \in {"add_device", "notify_add"}
    BY DEF TriggerToo, ToldTo
  <2> HIDE DEF C
  <2>3. h[1] = "add_device"
    BY <2>1
  <2>4. Keeps("add_device")
    BY <1>1 DEF AddDevice, Keeps, modulevars, servicevars
  <2> QED BY <2>1, <2>2, <2>3, <2>4 DEF Runs, Follows
<1>2. CASE RemoveDevice
  <2> DEFINE C == TriggerToo("remove_device", h[2], h[3]) \cup ToldTo("notify_remove", h[2], h[3])
                  \cup {<<"erase", h[2]>>}
  <2>1. Does(C) /\ h = <<"remove_device", h[2], h[3]>>
    BY <1>2, RemoveDeviceDoes
  <2>2. \A e \in C : e[1] \in {"remove_device", "notify_remove", "erase"}
    BY DEF TriggerToo, ToldTo
  <2> HIDE DEF C
  <2>3. h[1] = "remove_device"
    BY <2>1
  <2>4. Keeps("remove_device")
    BY <1>2 DEF RemoveDevice, Keeps, modulevars, servicevars, devicevars
  <2> QED BY <2>1, <2>2, <2>3, <2>4 DEF Runs, Follows
<1>3. CASE EraseDevice
  <2>1. Does({}) /\ h[1] = "erase"
    BY <1>3, EraseDeviceDoes
  <2>2. Keeps("erase")
    BY <1>3 DEF EraseDevice, Keeps, modulevars, servicevars
  <2> QED BY <2>1, <2>2 DEF Runs
<1>4. CASE RemoveDevices
  <2>1. Does({}) /\ h[1] = "remove_devices"
    BY <1>4, RemoveDevicesDoes
  <2>2. Keeps("remove_devices")
    BY <1>4 DEF RemoveDevices, Keeps, modulevars, servicevars
  <2> QED BY <2>1, <2>2 DEF Runs
<1>5. CASE Notify
  <2>1. Does({}) /\ h[1] \in {"notify_add", "notify_remove"}
    BY <1>5, NotifyDoes
  <2>2. Keeps("notify_add") /\ Keeps("notify_remove")
    BY <1>5 DEF Notify, Keeps, modulevars, servicevars
  <2> QED BY <2>1, <2>2 DEF Runs
<1>6. CASE NotifyProvider
  <2> DEFINE C == IF h[3][2] # "interface" THEN {} ELSE Handled(h[2], h[3][1], h[4])
             D == IF h[3][2] # "interface" THEN {} ELSE {<<"delete_handler", h[2], h[3][1]>>}
  <2>1. /\ h[2] \in Providers
        /\ \/ h = <<"notify_add", h[2], h[3], h[4]>> /\ Does(C)
           \/ h = <<"notify_remove", h[2], h[3], h[4]>> /\ Does(D)
    BY <1>6, NotifyProviderDoes
  <2>2. \A e \in C : /\ e[1] \in {"add_service", "new_handler", "catch"}
                     /\ e[1] = "add_service" => e[2][2] \in Providers
    BY <2>1 DEF Handled
  <2>3. \A e \in D : e[1] = "delete_handler"
    OBVIOUS
  <2> HIDE DEF C, D
  <2>4. Keeps("notify_add") /\ Keeps("notify_remove")
    BY <1>6 DEF NotifyProvider, Keeps, modulevars, servicevars, devicevars
  <2>5. \/ h[1] = "notify_add" /\ Does(C)
        \/ h[1] = "notify_remove" /\ Does(D)
    BY <2>1
  <2>6. CASE h[1] = "notify_add" /\ Does(C)
    <3>1. Runs(C)
      BY <2>2, <2>4, <2>6 DEF Runs, Follows
    <3> QED BY <3>1
  <2>7. CASE h[1] = "notify_remove" /\ Does(D)
    <3>1. Runs(D)
      BY <2>3, <2>4, <2>7 DEF Runs, Follows
    <3> QED BY <3>1
  <2> QED BY <2>5, <2>6, <2>7
<1>7. CASE NewHandler
  <2>1. Does({}) /\ h[1] = "new_handler"
    BY <1>7, NewHandlerDoes
  <2>2. Keeps("new_handler")
    BY <1>7 DEF NewHandler, Keeps, modulevars, servicevars
  <2> QED BY <2>1, <2>2 DEF Runs
<1>8. CASE DeleteHandler
  <2> DEFINE C == IF handlers[h[2]][h[3]] = 0 THEN {} ELSE {<<"remove_service", <<h[3], h[2]>> >>}
  <2>1. Does(C) /\ h = <<"delete_handler", h[2], h[3]>> /\ h[2] \in Providers
    BY <1>8, DeleteHandlerDoes
  <2>2. \A e \in C : e[1] = "remove_service" /\ e[2][2] \in Providers
    BY <2>1
  <2> HIDE DEF C
  <2>3. h[1] = "delete_handler"
    BY <2>1
  <2>4. Keeps("delete_handler")
    BY <1>8 DEF DeleteHandler, Keeps, modulevars, servicevars
  <2> QED BY <2>1, <2>2, <2>3, <2>4 DEF Runs, Follows
<1>9. CASE EndOfTry
  <2>1. Does({}) /\ h[1] = "catch"
    BY <1>9, EndOfTryDoes
  <2>2. Keeps("catch")
    BY <1>9 DEF EndOfTry, Keeps, modulevars, servicevars, devicevars
  <2> QED BY <2>1, <2>2 DEF Runs
<1>10. CASE RemoveListener
  <2> DEFINE C == {<<"notify_remove", h[2], d, device_map[d]>> : d \in Registered}
                  \cup {<<"erase_listener", h[2]>>}
  <2>1. Does(C) /\ h = <<"remove_listener", h[2]>>
    BY <1>10, RemoveListenerDoes
  <2>2. \A e \in C : e[1] \in {"notify_remove", "erase_listener"}
    OBVIOUS
  <2> HIDE DEF C
  <2>3. h[1] = "remove_listener"
    BY <2>1
  <2>4. Keeps("remove_listener")
    BY <1>10 DEF RemoveListener, Keeps, modulevars, servicevars, devicevars
  <2> QED BY <2>1, <2>2, <2>3, <2>4 DEF Runs, Follows
<1>11. CASE EraseListener
  <2>1. Does({}) /\ h[1] = "erase_listener"
    BY <1>11, EraseListenerDoes
  <2>2. Keeps("erase_listener")
    BY <1>11 DEF EraseListener, Keeps, modulevars, servicevars
  <2> QED BY <2>1, <2>2 DEF Runs
<1> QED BY <1>1, <1>2, <1>3, <1>4, <1>5, <1>6, <1>7, <1>8, <1>9, <1>10, <1>11 DEF DeviceStep

LEMMA ServiceStepRuns ==
  ASSUME TypeOK, Sorted(todo), ServiceStep
  PROVE  Refuse \/ \E C : Runs(C)
<1> DEFINE h == Head(todo)
<1>1. CASE AddService
  <2> DEFINE C == IF services[h[2]] # 0 THEN {} ELSE {<<"offer", b, h[2]>> : b \in bridge_map}
  <2>1. Does(C) /\ h = <<"add_service", h[2], h[3]>>
    BY <1>1, AddServiceDoes
  <2>2. \A e \in C : e[1] = "offer"
    OBVIOUS
  <2> HIDE DEF C
  <2>3. h[1] = "add_service"
    BY <2>1
  <2>4. Keeps("add_service")
    BY <1>1 DEF AddService, Keeps, modulevars, devicevars
  <2> QED BY <2>1, <2>2, <2>3, <2>4 DEF Runs, Follows
<1>2. CASE Offer
  <2>1. Does({}) /\ h[1] = "offer"
    BY <1>2, OfferDoes
  <2>2. Keeps("offer")
    BY <1>2 DEF Offer, Keeps, modulevars, devicevars
  <2> QED BY <2>1, <2>2 DEF Runs
<1>3. CASE RemoveService
  <2> DEFINE C == IF services[h[2]] = 0 THEN {}
                  ELSE {<<"withdraw", b, h[2]>> : b \in bridge_map} \cup {<<"delete", h[2]>>}
  <2>1. Does(C) /\ h = <<"remove_service", h[2]>>
    BY <1>3, RemoveServiceDoes
  <2>2. \A e \in C : e[1] \in {"withdraw", "delete"}
    OBVIOUS
  <2> HIDE DEF C
  <2>3. h[1] = "remove_service"
    BY <2>1
  <2>4. Keeps("remove_service")
    BY <1>3 DEF RemoveService, Keeps, modulevars, servicevars, devicevars
  <2> QED BY <2>1, <2>2, <2>3, <2>4 DEF Runs, Follows
<1>4. CASE Withdraw
  <2>1. Does({}) /\ h[1] = "withdraw"
    BY <1>4, WithdrawDoes
  <2>2. Keeps("withdraw")
    BY <1>4 DEF Withdraw, Keeps, modulevars, devicevars
  <2> QED BY <2>1, <2>2 DEF Runs
<1>5. CASE Delete
  <2>1. Does({}) /\ h[1] = "delete"
    BY <1>5, DeleteDoes
  <2>2. Keeps("delete")
    BY <1>5 DEF Delete, Keeps, modulevars, devicevars
  <2> QED BY <2>1, <2>2 DEF Runs
<1>6. CASE RemoveServices
  <2> DEFINE C == {<<"delete_handler", p, h[2]>> : p \in dl_map \cap Providers}
                  \cup {<<"remove_own", h[2]>>}
  <2>1. Does(C) /\ h = <<"remove_services", h[2]>>
    BY <1>6, RemoveServicesDoes
  <2>2. \A e \in C : e[1] \in {"delete_handler", "remove_own"}
    OBVIOUS
  <2> HIDE DEF C
  <2>3. h[1] = "remove_services"
    BY <2>1
  <2>4. Keeps("remove_services")
    BY <1>6 DEF RemoveServices, Keeps, modulevars, servicevars, devicevars
  <2> QED BY <2>1, <2>2, <2>3, <2>4 DEF Runs, Follows
<1>7. CASE RemoveOwn
  <2> DEFINE C == {<<"remove_service", s>> : s \in {x \in Services : x[1] = h[2]}}
  <2>1. Does(C) /\ h = <<"remove_own", h[2]>>
    BY <1>7, RemoveOwnDoes
  <2>2. \A e \in C : e[1] = "remove_service"
    OBVIOUS
  <2> HIDE DEF C
  <2>3. h[1] = "remove_own"
    BY <2>1
  <2>4. Keeps("remove_own")
    BY <1>7 DEF RemoveOwn, Keeps, modulevars, servicevars, devicevars
  <2> QED BY <2>1, <2>2, <2>3, <2>4 DEF Runs, Follows
<1>8. CASE RemoveBridges
  <2>1. Does({}) /\ h[1] = "remove_bridges"
    BY <1>8, RemoveBridgesDoes
  <2>2. Keeps("remove_bridges")
    BY <1>8 DEF RemoveBridges, Keeps, modulevars, devicevars
  <2> QED BY <2>1, <2>2 DEF Runs
<1> QED BY <1>1, <1>2, <1>3, <1>4, <1>5, <1>6, <1>7, <1>8 DEF ServiceStep

LEMMA ModuleStepRuns ==
  ASSUME TypeOK, Sorted(todo), ModuleStep
  PROVE  ConfigureFails \/ \E C : Runs(C)
<1> DEFINE h == Head(todo)
<1>1. CASE Configured
  <2>1. Does({}) /\ h[1] = "configure"
    BY <1>1, ConfiguredDoes
  <2>2. Keeps("configure")
    BY <1>1 DEF Configured, Keeps, modulevars, servicevars, devicevars
  <2> QED BY <2>1, <2>2 DEF Runs
<1>2. CASE Loaded
  <2>1. Does({}) /\ h[1] = "loaded"
    BY <1>2, LoadedDoes
  <2>2. Keeps("loaded")
    BY <1>2 DEF Loaded, Keeps, servicevars, devicevars
  <2> QED BY <2>1, <2>2 DEF Runs
<1>3. CASE Reconfigured
  <2>1. Does({}) /\ h[1] = "reconfigured"
    BY <1>3, ReconfiguredDoes
  <2>2. Keeps("reconfigured")
    BY <1>3 DEF Reconfigured, Keeps, servicevars, devicevars
  <2> QED BY <2>1, <2>2 DEF Runs
<1>4. CASE Unload
  <2> DEFINE C == Taken(h[2]) \cup {<<"remove_devices", h[2]>>, <<"remove_services", h[2]>>,
                                    <<"unloaded", h[2]>>}
  <2>1. Does(C) /\ h = <<"unload", h[2]>>
    BY <1>4, UnloadDoes
  <2>2. \A e \in C : e[1] \in {"remove_device", "remove_devices", "remove_services", "unloaded"}
    BY DEF Taken
  <2> HIDE DEF C
  <2>3. h[1] = "unload"
    BY <2>1
  <2>4. Keeps("unload")
    BY <1>4 DEF Unload, Keeps, servicevars, devicevars
  <2> QED BY <2>1, <2>2, <2>3, <2>4 DEF Runs, Follows
<1>5. CASE Unloaded
  <2>1. Does({}) /\ h[1] = "unloaded"
    BY <1>5, UnloadedDoes
  <2>2. Keeps("unloaded")
    BY <1>5 DEF Unloaded, Keeps, servicevars, devicevars
  <2> QED BY <2>1, <2>2 DEF Runs
<1> QED BY <1>1, <1>2, <1>3, <1>4, <1>5 DEF ModuleStep

(* A step in which no module fails to be configured. *)
GoesOn == (DeviceStep \/ ServiceStep \/ ModuleStep) /\ ~ConfigureFails

(* The head of todo says which action comes. *)
LEMMA HeadSays ==
  ASSUME GoesOn
  PROVE  /\ todo # <<>>
         /\ Head(todo)[1] = "add_device" => AddDevice
         /\ Head(todo)[1] = "remove_device" => RemoveDevice
         /\ Head(todo)[1] = "erase" => EraseDevice
         /\ Head(todo)[1] = "remove_devices" => RemoveDevices
         /\ Head(todo)[1] = "notify_add" => Notify \/ NotifyProvider
         /\ Head(todo)[1] = "new_handler" => NewHandler
         /\ Head(todo)[1] = "delete_handler" => DeleteHandler
         /\ Head(todo)[1] = "remove_listener" => RemoveListener
         /\ Head(todo)[1] = "erase_listener" => EraseListener
         /\ Head(todo)[1] = "add_service" => AddService
         /\ Head(todo)[1] = "remove_service" => RemoveService
         /\ Head(todo)[1] = "delete" => Delete
         /\ Head(todo)[1] = "remove_services" => RemoveServices
         /\ Head(todo)[1] = "remove_own" => RemoveOwn
         /\ Head(todo)[1] = "remove_bridges" => RemoveBridges
         /\ Head(todo)[1] = "loaded" => Loaded
         /\ Head(todo)[1] = "reconfigured" => Reconfigured
         /\ Head(todo)[1] = "unload" => Unload
         /\ Head(todo)[1] = "unloaded" => Unloaded
<1>1. /\ AddDevice => Head(todo)[1] = "add_device" /\ todo # <<>>
      /\ RemoveDevice => Head(todo)[1] = "remove_device" /\ todo # <<>>
      /\ EraseDevice => Head(todo)[1] = "erase" /\ todo # <<>>
      /\ RemoveDevices => Head(todo)[1] = "remove_devices" /\ todo # <<>>
  BY DEF AddDevice, RemoveDevice, EraseDevice, RemoveDevices, Doing, Idle
<1>2. /\ Notify => Head(todo)[1] \in {"notify_add", "notify_remove"} /\ todo # <<>>
      /\ NotifyProvider => Head(todo)[1] \in {"notify_add", "notify_remove"} /\ todo # <<>>
      /\ NewHandler => Head(todo)[1] = "new_handler" /\ todo # <<>>
      /\ DeleteHandler => Head(todo)[1] = "delete_handler" /\ todo # <<>>
      /\ EndOfTry => Head(todo)[1] = "catch" /\ todo # <<>>
      /\ RemoveListener => Head(todo)[1] = "remove_listener" /\ todo # <<>>
      /\ EraseListener => Head(todo)[1] = "erase_listener" /\ todo # <<>>
  BY DEF Notify, NotifyProvider, NewHandler, DeleteHandler, EndOfTry, RemoveListener,
         EraseListener, Doing, Idle
<1>3. /\ AddService => Head(todo)[1] = "add_service" /\ todo # <<>>
      /\ Offer => Head(todo)[1] = "offer" /\ todo # <<>>
      /\ Refuse => Head(todo)[1] = "offer" /\ todo # <<>>
      /\ RemoveService => Head(todo)[1] = "remove_service" /\ todo # <<>>
      /\ Withdraw => Head(todo)[1] = "withdraw" /\ todo # <<>>
      /\ Delete => Head(todo)[1] = "delete" /\ todo # <<>>
      /\ RemoveServices => Head(todo)[1] = "remove_services" /\ todo # <<>>
      /\ RemoveOwn => Head(todo)[1] = "remove_own" /\ todo # <<>>
      /\ RemoveBridges => Head(todo)[1] = "remove_bridges" /\ todo # <<>>
  BY DEF AddService, Offer, Refuse, RemoveService, Withdraw, Delete, RemoveServices,
         RemoveOwn, RemoveBridges, Doing, Idle
<1>4. /\ Configured => Head(todo)[1] = "configure" /\ todo # <<>>
      /\ Loaded => Head(todo)[1] = "loaded" /\ todo # <<>>
      /\ Reconfigured => Head(todo)[1] = "reconfigured" /\ todo # <<>>
      /\ Unload => Head(todo)[1] = "unload" /\ todo # <<>>
      /\ Unloaded => Head(todo)[1] = "unloaded" /\ todo # <<>>
  BY DEF Configured, Loaded, Reconfigured, Unload, Unloaded, Doing, Idle
<1>5. CASE DeviceStep
  BY <1>1, <1>2, <1>5 DEF DeviceStep
<1>6. CASE ServiceStep
  BY <1>3, <1>6 DEF ServiceStep
<1>7. CASE ModuleStep /\ ~ConfigureFails
  BY <1>4, <1>7 DEF ModuleStep
<1> QED BY <1>5, <1>6, <1>7 DEF GoesOn

(* What most calls begin with; they change none of these variables. *)
Begins(C) ==
  /\ Starts(C)
  /\ UNCHANGED <<object, mod_handle, objects, services, device_map, handlers, loaded, left>>
  /\ phase' # "stopped"
  /\ \A e \in C : /\ e[1] \in {"notify_add", "remove_listener", "withdraw", "offer",
                               "unload", "add_service"}
                  /\ e[1] = "add_service" => e[2] = <<Kernel, "own">>

LEMMA CallBegins ==
  ASSUME TypeOK, Sorted(todo), Call
  PROVE  \/ ConfigFails \/ Shutdown
         \/ \E o \in Owners, end \in {<<>>, << <<"catch">> >>} :
              load_module(o, end) /\ phase \in {"modules", "running"}
         \/ \E o \in Owners : svc_reconfigure_module(o)
         \/ \E C : Begins(C)
<1>1. ASSUME NEW l \in Hearers, AddListener(l), phase # "stopped"
      PROVE  \E C : Begins(C)
  <2> DEFINE C == {<<"notify_add", l, d, device_map[d]>> : d \in Registered}
  <2>1. Starts(C)
    BY <1>1, AddListenerStarts
  <2>2. \A e \in C : e[1] = "notify_add"
    OBVIOUS
  <2> HIDE DEF C
  <2>3. Begins(C)
    BY <1>1, <2>1, <2>2 DEF Begins, AddListener, modulevars, servicevars
  <2> QED BY <2>3
<1>2. ASSUME NEW l \in Listeners, CallRemoveListener(l)
      PROVE  \E C : Begins(C)
  <2> DEFINE C == {<<"remove_listener", l>>}
  <2>1. Starts(C)
    BY <1>2, CallRemoveListenerStarts
  <2>2. \A e \in C : e[1] = "remove_listener"
    OBVIOUS
  <2> HIDE DEF C
  <2>3. Begins(C)
    BY <1>2, <2>1, <2>2 DEF Begins, CallRemoveListener, modulevars, servicevars, devicevars
  <2> QED BY <2>3
<1>3. ASSUME NEW s \in Services, CallByOwner(s)
      PROVE  \E C : Begins(C)
  <2> DEFINE C == {<<"withdraw", b, s>> : b \in bridge_map}
  <2>1. Starts(C)
    BY <1>3, CallByOwnerStarts
  <2>2. \A e \in C : e[1] = "withdraw"
    OBVIOUS
  <2> HIDE DEF C
  <2>3. Begins(C)
    BY <1>3, <2>1, <2>2 DEF Begins, CallByOwner, modulevars, devicevars
  <2> QED BY <2>3
<1>4. ASSUME NEW b \in Bridges, AddBridge(b)
      PROVE  \E C : Begins(C)
  <2> DEFINE C == {<<"offer", b, s>> : s \in {x \in Services : services[x] # 0}}
  <2>1. Starts(C)
    BY <1>4, AddBridgeStarts
  <2>2. \A e \in C : e[1] = "offer"
    OBVIOUS
  <2> HIDE DEF C
  <2>3. Begins(C)
    BY <1>4, <2>1, <2>2 DEF Begins, AddBridge, modulevars, devicevars
  <2> QED BY <2>3
<1>5. ASSUME NEW o \in Owners, svc_remove_module(o)
      PROVE  \E C : Begins(C)
  <2> DEFINE C == {<<"unload", o>>}
  <2>1. Starts(C)
    BY <1>5, RemoveModuleStarts
  <2>2. \A e \in C : e[1] = "unload"
    OBVIOUS
  <2> HIDE DEF C
  <2>3. Begins(C)
    BY <1>5, <2>1, <2>2 DEF Begins, svc_remove_module, modulevars, servicevars, devicevars
  <2> QED BY <2>3
<1>6. CASE ReadConfig
  <2>1. Starts({})
    BY <1>6, ReadConfigStarts
  <2>2. Begins({})
    BY <1>6, <2>1 DEF Begins, ReadConfig, servicevars, devicevars
  <2> QED BY <2>2
<1>7. CASE NextPhase
  <2> DEFINE C == IF phase = "providers" THEN {<<"add_service", <<Kernel, "own">>, 1>>} ELSE {}
  <2>1. Starts(C)
    BY <1>7, NextPhaseStarts
  <2>2. \A e \in C : e[1] = "add_service" /\ e[2] = <<Kernel, "own">>
    OBVIOUS
  <2> HIDE DEF C
  <2>3. Begins(C)
    BY <1>7, <2>1, <2>2 DEF Begins, NextPhase, servicevars, devicevars
  <2> QED BY <2>3
<1>8. ASSUME NEW o \in Owners, CreateModule(o) \/ svc_add_module(o)
      PROVE  \E end \in {<<>>, << <<"catch">> >>} :
               load_module(o, end) /\ phase \in {"modules", "running"}
  BY <1>8 DEF CreateModule, svc_add_module
<1>9. ASSUME NEW l \in Listeners, CallAddListener(l)
      PROVE  \E C : Begins(C)
  BY <1>1, <1>9 DEF CallAddListener, Hearers
<1>10. ASSUME NEW p \in Providers, AddProvider(p)
       PROVE  \E C : Begins(C)
  BY <1>1, <1>10 DEF AddProvider, Hearers
<1> QED BY <1>2, <1>3, <1>4, <1>5, <1>6, <1>7, <1>8, <1>9, <1>10, CalledAssumption DEF Call

-----------------------------------------------------------------------------
(* Failures. *)

(* What may be left to do when something fails. *)
Making == {"offer", "configure", "add_device", "notify_add", "add_service", "new_handler",
           "loaded", "reconfigured", "catch", "remove_bridges"}

(* A failure leaves something of the modules that were being made; of      *)
(* those it does not, nothing was going to be made.                        *)
Fails ==
  /\ Throws /\ left \subseteq left'
  /\ UNCHANGED <<object, mod_handle, objects, services, device_map, handlers, bridge_map, dl_map>>
  /\ Pending' = Exit \/ Pending' \subseteq Pending
  /\ \A e \in Pending :
       /\ e \in Entries /\ e[1] \in Making
       /\ e[1] \in {"add_service", "new_handler", "loaded", "reconfigured"} => OwnerOf(e) \in left'
       /\ e[1] = "add_service" => e[2][2] \notin Providers
  /\ phase = "stopped" => \E e \in Pending : e[1] \in {"offer", "configure", "add_device"}

LEMMA FailsIf ==
  ASSUME TypeOK, Sorted(todo), Throws, todo # <<>>, Head(todo)[1] \in {"offer", "configure", "add_device"},
         left' = left \cup {OwnerOf(Head(todo))},
         UNCHANGED <<object, mod_handle, objects, services, device_map, handlers, bridge_map, dl_map>>
  PROVE  Fails
<1>1. /\ Pending = {Head(todo)} \cup Rest /\ Head(todo) \in Entries
      /\ \A f \in Rest : MayPrecede(Head(todo), f)
  BY Heads, HeadOf
<1>2. Pending' = Exit \/ Pending' \subseteq Pending
  BY AfterThrow
<1>3. \A e \in Pending : e \in Entries
  BY ElementsOf DEF Pending, TypeOK
<1>4. ASSUME NEW e \in Rest
      PROVE  /\ e[1] \in Making
             /\ e[1] \in {"add_service", "new_handler", "loaded", "reconfigured"} => OwnerOf(e) \in left'
             /\ e[1] = "add_service" => e[2][2] \notin Providers
  <2>1. MayPrecede(Head(todo), e) /\ e \in Entries
    BY <1>1, <1>3
  <2>2. e[1] \in Making
    BY <2>1 DEF Entries, MayPrecede, Making, Additions, Removals, Dismissals, Releases, Unloads
  <2>3. e[1] \in {"add_service", "loaded", "reconfigured"} =>
          OwnerOf(e) = OwnerOf(Head(todo))
    BY <2>1 DEF MayPrecede, OwnerOf
  <2>4. e[1] = "new_handler" => OwnerOf(e) = OwnerOf(Head(todo))
    BY <2>1 DEF MayPrecede, OwnerOf, ServiceOf
  <2> QED BY <2>1, <2>2, <2>3, <2>4 DEF MayPrecede
<1>5. /\ Head(todo)[1] \in Making
      /\ Head(todo)[1] \notin {"add_service", "new_handler", "loaded", "reconfigured"}
  BY DEF Making
<1> QED BY <1>1, <1>2, <1>3, <1>4, <1>5 DEF Fails

LEMMA Failing ==
  ASSUME TypeOK, Sorted(todo), Refuse \/ ConfigureFails \/ ConfigFails
  PROVE  Fails
<1>1. CASE Refuse
  <2>1. /\ Throws /\ todo # <<>> /\ Head(todo)[1] = "offer"
        /\ OwnerOf(Head(todo)) = Head(todo)[3][1]
    BY <1>1, RefuseThrows DEF OwnerOf
  <2>2. /\ left' = left \cup {Head(todo)[3][1]}
        /\ UNCHANGED <<object, mod_handle, objects, services, device_map, handlers, bridge_map, dl_map>>
    BY <1>1 DEF Refuse, devicevars
  <2> QED BY <2>1, <2>2, FailsIf
<1>2. CASE ConfigureFails
  <2>1. Throws /\ todo # <<>> /\ Head(todo)[1] \in {"configure", "add_device"}
    BY <1>2, ConfigureFailsThrows
  <2>2. /\ left' = left \cup {OwnerOf(Head(todo))}
        /\ UNCHANGED <<object, mod_handle, objects, services, device_map, handlers, bridge_map, dl_map>>
    BY <1>2, ConfigureFailsThrows DEF ConfigureFails, servicevars, devicevars
  <2> QED BY <2>1, <2>2, FailsIf
<1>3. CASE ConfigFails
  <2>1. Throws /\ todo = <<>>
    BY <1>3, ConfigFailsThrows
  <2>2. /\ left' = left /\ phase # "stopped"
        /\ UNCHANGED <<object, mod_handle, objects, services, device_map, handlers, bridge_map, dl_map>>
    BY <1>3 DEF ConfigFails, servicevars, devicevars
  <2>3. Pending = {}
    BY <2>1, Nothing DEF Pending
  <2>4. Pending' = Exit \/ Pending' \subseteq Pending
    BY <2>1, AfterThrow
  <2> QED BY <2>1, <2>2, <2>3, <2>4 DEF Fails
<1> QED BY <1>1, <1>2, <1>3

(* Only one module is made at a time. *)
LEMMA OneIsMade ==
  ASSUME TypeOK, Sorted(todo), NEW e \in Pending, NEW f \in Pending,
         e[1] \in {"loaded", "reconfigured"}, f[1] \in {"loaded", "reconfigured"}
  PROVE  e = f
<1>1. todo \in Seq(Entries) /\ Len(todo) \in Nat
  BY DEF TypeOK
<1>2. Pending = {todo[i] : i \in 1 .. Len(todo)}
  BY <1>1, ElementsOf DEF Pending
<1>3. PICK i \in 1 .. Len(todo), j \in 1 .. Len(todo) : e = todo[i] /\ f = todo[j]
  BY <1>2
<1>4. ~ MayPrecede(e, f) /\ ~ MayPrecede(f, e)
  BY DEF MayPrecede, Additions, Removals, Dismissals, Releases
<1>5. ~ (i < j) /\ ~ (j < i)
  BY <1>3, <1>4 DEF Sorted
<1>6. i = j
  BY <1>5
<1> QED BY <1>3, <1>6

-----------------------------------------------------------------------------
(* The making of modules. *)

(* A module, or a new handle of one, that is not yet in place. *)
Coming(o, g) == <<"loaded", o, g>> \in Pending \/ <<"reconfigured", o, g>> \in Pending

HandleInv == \A o \in Owners : object[o] = 0 => mod_handle[o] = 0
ComingInv ==
  /\ \A o \in Owners, g \in Objects : <<"loaded", o, g>> \in Pending => object[o] = 0
  /\ \A o \in Owners, g \in Objects : <<"reconfigured", o, g>> \in Pending =>
       object[o] # 0 /\ mod_handle[o] = 0
(* What is added is of one that is coming. *)
AddedInv ==
  /\ \A d \in Devices, g \in Objects : <<"add_device", d, g>> \in Pending =>
       /\ d[2] \in Kinds[d[1]] \cup {"trigger"}
       /\ d[1] \in left \/ Coming(d[1], g)
  /\ \A o \in Owners, g \in Objects : <<"add_service", <<o, "own">>, g>> \in Pending =>
       o \in left \/ <<"loaded", o, g>> \in Pending
MakeInv == HandleInv /\ ComingInv /\ AddedInv

LEMMA OwnIsOwn ==
  /\ \A o \in Owners, p \in Providers, q \in Owners \cup {Kernel} : <<o, p>> # <<q, "own">>
  /\ \A o \in Owners : <<o, "own">> # <<Kernel, "own">>
  /\ "own" \notin Providers
  BY RegistryAssumption

LEMMA MakeRuns ==
  ASSUME MakeInv, NEW C, Runs(C),
         Head(todo)[1] \notin {"add_device", "loaded", "reconfigured", "unload", "unloaded"}
  PROVE  MakeInv'
<1>1. /\ Pending = {Head(todo)} \cup Rest /\ Pending' = C \cup Rest
      /\ UNCHANGED <<object, mod_handle, left>>
  BY DEF Runs, Does, Keeps
<1>2. \A e \in C : /\ e[1] \notin {"add_device", "loaded", "reconfigured"}
                   /\ e[1] = "add_service" => e[2][2] \in Providers
  BY DEF Runs, Follows
<1>3. HandleInv' /\ ComingInv'
  BY <1>1, <1>2 DEF MakeInv, HandleInv, ComingInv
<1>4. ASSUME NEW o \in Owners, NEW g \in Objects, Coming(o, g)
      PROVE  Coming(o, g)'
  BY <1>1, <1>4 DEF Coming
<1>5. ASSUME NEW d \in Devices, NEW g \in Objects, <<"add_device", d, g>> \in Pending'
      PROVE  d[2] \in Kinds[d[1]] \cup {"trigger"} /\ (d[1] \in left' \/ Coming(d[1], g)')
  <2>1. <<"add_device", d, g>> \in Pending /\ d[1] \in Owners
    BY <1>1, <1>2, <1>5, Named
  <2> QED BY <1>1, <1>4, <2>1 DEF MakeInv, AddedInv
<1>6. ASSUME NEW o \in Owners, NEW g \in Objects, <<"add_service", <<o, "own">>, g>> \in Pending'
      PROVE  o \in left' \/ <<"loaded", o, g>> \in Pending'
  <2>1. <<"add_service", <<o, "own">>, g>> \notin C
    BY <1>2, OwnIsOwn
  <2> QED BY <1>1, <1>6, <2>1 DEF MakeInv, AddedInv
<1>7. AddedInv'
  BY <1>5, <1>6 DEF AddedInv
<1> QED BY <1>3, <1>7 DEF MakeInv

LEMMA AddDeviceKeepsMaking ==
  ASSUME TypeOK, Sorted(todo), MakeInv, AddDevice
  PROVE  MakeInv'
<1>1. PICK d, g : d = Head(todo)[2] /\ g = Head(todo)[3]
  OBVIOUS
<1> DEFINE C == IF device_map[d] # 0 THEN {}
                ELSE TriggerToo("add_device", d, g) \cup ToldTo("notify_add", d, g)
<1>2. /\ Head(todo) = <<"add_device", d, g>> /\ d \in Devices /\ g \in Objects /\ Does(C)
      /\ UNCHANGED <<object, mod_handle, left>>
  <2>1. Head(todo) = <<"add_device", d, g>> /\ d \in Devices /\ g \in Objects /\ Does(C)
    BY <1>1, AddDeviceDoes
  <2>2. UNCHANGED <<object, mod_handle, left>>
    BY DEF AddDevice, modulevars
  <2> QED BY <2>1, <2>2
<1>3. \A e \in C : \/ e = <<"add_device", Device(d[1], "trigger"), g>>
                   \/ e[1] = "notify_add"
  BY DEF TriggerToo, ToldTo
<1> HIDE DEF C
<1>4. Pending = {Head(todo)} \cup Rest /\ Pending' = C \cup Rest
  BY <1>2 DEF Does
<1>5. HandleInv' /\ ComingInv'
  BY <1>2, <1>3, <1>4 DEF MakeInv, HandleInv, ComingInv
<1>6. ASSUME NEW o \in Owners, NEW h \in Objects, Coming(o, h)
      PROVE  Coming(o, h)'
  BY <1>2, <1>4, <1>6 DEF Coming
<1>7. ASSUME NEW e \in Devices, NEW h \in Objects, <<"add_device", e, h>> \in Pending'
      PROVE  e[2] \in Kinds[e[1]] \cup {"trigger"} /\ (e[1] \in left' \/ Coming(e[1], h)')
  <2>1. \/ <<"add_device", e, h>> \in Pending
        \/ e = Device(d[1], "trigger") /\ h = g
    BY <1>3, <1>4, <1>7
  <2>2. CASE <<"add_device", e, h>> \in Pending
    BY <1>2, <1>6, <2>2, Named DEF MakeInv, AddedInv
  <2>3. CASE e = Device(d[1], "trigger") /\ h = g
    <3>1. <<"add_device", d, g>> \in Pending /\ d[1] \in Owners
      BY <1>2, <1>4, Named
    <3>2. d[1] \in left \/ Coming(d[1], g)
      BY <1>2, <3>1 DEF MakeInv, AddedInv
    <3>3. e[1] = d[1] /\ e[2] = "trigger"
      BY <2>3 DEF Device
    <3> QED BY <1>2, <1>6, <2>3, <3>1, <3>2, <3>3
  <2> QED BY <2>1, <2>2, <2>3
<1>8. ASSUME NEW o \in Owners, NEW h \in Objects, <<"add_service", <<o, "own">>, h>> \in Pending'
      PROVE  o \in left' \/ <<"loaded", o, h>> \in Pending'
  BY <1>2, <1>3, <1>4, <1>8 DEF MakeInv, AddedInv
<1>9. AddedInv'
  BY <1>7, <1>8 DEF AddedInv
<1> QED BY <1>5, <1>9 DEF MakeInv

(* When a module is in place, or goes, nothing is left to add. *)
LEMMA NothingAdded ==
  ASSUME TypeOK, Sorted(todo), NEW C, Does(C),
         Head(todo)[1] \in {"loaded", "reconfigured", "unload", "unloaded"},
         \A e \in C : e[1] \notin {"add_device", "add_service", "loaded", "reconfigured"}
  PROVE  /\ \A e \in Pending' : e[1] \notin {"add_device", "add_service", "loaded", "reconfigured"}
         /\ \A e \in Rest : e[1] \notin {"add_device", "add_service", "loaded", "reconfigured"}
<1>1. /\ Pending' = C \cup Rest
      /\ \A f \in Rest : MayPrecede(Head(todo), f)
  BY DEF Does
<1>2. \A e \in Rest : e[1] \notin {"add_device", "add_service", "loaded", "reconfigured"}
  BY <1>1 DEF MayPrecede, Additions, Removals, Dismissals, Releases
<1> QED BY <1>1, <1>2

LEMMA MakeEnds ==
  ASSUME TypeOK, Sorted(todo), NEW C, Does(C), HandleInv',
         Head(todo)[1] \in {"loaded", "reconfigured", "unload", "unloaded"},
         \A e \in C : e[1] \notin {"add_device", "add_service", "loaded", "reconfigured"}
  PROVE  MakeInv'
<1>1. \A e \in Pending' : e[1] \notin {"add_device", "add_service", "loaded", "reconfigured"}
  BY NothingAdded
<1>2. ComingInv'
  BY <1>1 DEF ComingInv
<1>3. AddedInv'
  BY <1>1 DEF AddedInv
<1> QED BY <1>2, <1>3 DEF MakeInv

LEMMA StepKeepsMaking ==
  ASSUME TypeOK, Sorted(todo), MakeInv, GoesOn,
         NEW C, Runs(C)
  PROVE  MakeInv'
<1> DEFINE op == Head(todo)[1]
<1>1. CASE op = "add_device"
  BY <1>1, HeadSays, AddDeviceKeepsMaking
<1>2. CASE op \in {"loaded", "reconfigured", "unload", "unloaded"}
  <2>1. \A e \in C : e[1] \notin {"add_device", "add_service", "loaded", "reconfigured"}
    BY <1>2 DEF Runs, Follows
  <2>2. HandleInv'
    <3>1. CASE op = "loaded"
      <4>1. Loaded
        BY <3>1, HeadSays
      <4>2. /\ Head(todo)[2] \in Owners /\ Head(todo)[3] \in Objects
            /\ object' = [object EXCEPT ![Head(todo)[2]] = Head(todo)[3]]
            /\ mod_handle' = [mod_handle EXCEPT ![Head(todo)[2]] = Head(todo)[3]]
        BY <4>1, LoadedDoes DEF Loaded
      <4> QED BY <4>2 DEF TypeOK, MakeInv, HandleInv, Objects
    <3>2. CASE op = "reconfigured"
      <4>1. Reconfigured
        BY <3>2, HeadSays
      <4>2. /\ Head(todo) = <<"reconfigured", Head(todo)[2], Head(todo)[3]>>
            /\ Head(todo)[2] \in Owners /\ Head(todo)[3] \in Objects /\ UNCHANGED object
            /\ mod_handle' = [mod_handle EXCEPT ![Head(todo)[2]] = Head(todo)[3]]
        BY <4>1, ReconfiguredDoes DEF Reconfigured
      <4>3. object[Head(todo)[2]] # 0
        BY <4>2 DEF MakeInv, ComingInv, Runs, Does
      <4> QED BY <4>2, <4>3 DEF TypeOK, MakeInv, HandleInv
    <3>3. CASE op = "unload"
      <4>1. Unload
        BY <3>3, HeadSays
      <4>2. /\ Head(todo)[2] \in Owners
            /\ object' = [object EXCEPT ![Head(todo)[2]] = 0]
            /\ mod_handle' = [mod_handle EXCEPT ![Head(todo)[2]] = 0]
        BY <4>1, UnloadDoes DEF Unload
      <4> QED BY <4>2 DEF TypeOK, MakeInv, HandleInv
    <3>4. CASE op = "unloaded"
      BY <3>4 DEF Runs, Keeps, MakeInv, HandleInv
    <3> QED BY <1>2, <3>1, <3>2, <3>3, <3>4
  <2>3. Does(C)
    BY DEF Runs
  <2> QED BY <1>2, <2>1, <2>2, <2>3, MakeEnds
<1> QED BY <1>1, <1>2, MakeRuns

LEMMA FailureKeepsMaking ==
  ASSUME TypeOK, Sorted(todo), MakeInv, Fails
  PROVE  MakeInv'
<1>1. /\ UNCHANGED <<object, mod_handle>> /\ left \subseteq left'
      /\ \A e \in Pending : e[1] \in {"loaded", "reconfigured"} => OwnerOf(e) \in left'
  BY DEF Fails
<1>2. \A e \in Exit : e[1] \notin {"add_device", "add_service", "loaded", "reconfigured"}
  BY DEF Exit
<1>3. \A e \in Pending' : e[1] \in {"add_device", "add_service", "loaded", "reconfigured"} => e \in Pending
  BY <1>2 DEF Fails
<1>4. HandleInv' /\ ComingInv'
  BY <1>1, <1>3 DEF MakeInv, HandleInv, ComingInv
<1>5. \A o \in Owners, g \in Objects :
        /\ <<"loaded", o, g>> \in Pending => o \in left'
        /\ <<"reconfigured", o, g>> \in Pending => o \in left'
  BY <1>1 DEF OwnerOf
<1>6. \A o \in Owners, g \in Objects : Coming(o, g) => o \in left'
  BY <1>5 DEF Coming
<1>7. ASSUME NEW d \in Devices, NEW g \in Objects, <<"add_device", d, g>> \in Pending'
      PROVE  d[2] \in Kinds[d[1]] \cup {"trigger"} /\ (d[1] \in left' \/ Coming(d[1], g)')
  <2>1. <<"add_device", d, g>> \in Pending /\ d[1] \in Owners
    BY <1>3, <1>7, Named
  <2> QED BY <1>1, <1>6, <2>1 DEF MakeInv, AddedInv
<1>8. ASSUME NEW o \in Owners, NEW g \in Objects, <<"add_service", <<o, "own">>, g>> \in Pending'
      PROVE  o \in left' \/ <<"loaded", o, g>> \in Pending'
  <2>1. <<"add_service", <<o, "own">>, g>> \in Pending
    BY <1>3, <1>8
  <2> QED BY <1>1, <1>5, <2>1 DEF MakeInv, AddedInv
<1>9. AddedInv'
  BY <1>7, <1>8 DEF AddedInv
<1> QED BY <1>4, <1>9 DEF MakeInv

LEMMA NothingToMake ==
  ASSUME HandleInv',
         \A e \in Pending' : /\ e[1] \notin {"add_device", "loaded", "reconfigured"}
                             /\ e[1] = "add_service" => e[2] = <<Kernel, "own">>
  PROVE  MakeInv'
<1>1. ComingInv'
  BY DEF ComingInv
<1>2. AddedInv'
  BY OwnIsOwn DEF AddedInv
<1> QED BY <1>1, <1>2 DEF MakeInv

LEMMA CallKeepsMaking ==
  ASSUME TypeOK, Sorted(todo), MakeInv, Call
  PROVE  MakeInv'
<1>1. CASE ConfigFails
  BY <1>1, Failing, FailureKeepsMaking
<1>2. CASE Shutdown
  <2>1. Pending' = Exit /\ UNCHANGED <<object, mod_handle>>
    BY <1>2, ShutdownStarts DEF Shutdown, Starts
  <2>2. HandleInv'
    BY <2>1 DEF MakeInv, HandleInv
  <2> QED BY <2>1, <2>2, NothingToMake DEF Exit
<1>3. ASSUME NEW o \in Owners, NEW end \in {<<>>, << <<"catch">> >>}, load_module(o, end)
      PROVE  MakeInv'
  <2>0. PICK g : g = objects'
    OBVIOUS
  <2> DEFINE C == Given(o, g) \cup {<<"configure", o>>, <<"add_service", <<o, "own">>, g>>,
                                     <<"loaded", o, g>>} \cup ToSet(end)
  <2>1. /\ Pending' = C /\ g \in Objects
        /\ UNCHANGED <<object, mod_handle, left>> /\ object[o] = 0
    BY <1>3, <2>0, LoadStarts DEF load_module, Starts
  <2>2. ToSet(end) \subseteq {<<"catch">>}
    BY Nothing, Single, Made
  <2>3. \A e \in C :
          /\ e[1] = "add_device" => \E k \in Kinds[o] : e = <<"add_device", Device(o, k), g>>
          /\ e[1] = "add_service" => e = <<"add_service", <<o, "own">>, g>>
          /\ e[1] = "loaded" => e = <<"loaded", o, g>>
          /\ e[1] # "reconfigured"
    BY <2>2 DEF Given
  <2>4. <<"loaded", o, g>> \in C
    OBVIOUS
  <2> HIDE DEF C
  <2>5. HandleInv'
    BY <2>1 DEF MakeInv, HandleInv
  <2>6. ComingInv'
    BY <2>1, <2>3 DEF ComingInv
  <2>7. Coming(o, g)'
    BY <2>1, <2>4 DEF Coming
  <2>8. ASSUME NEW d \in Devices, NEW h \in Objects, <<"add_device", d, h>> \in Pending'
        PROVE  d[2] \in Kinds[d[1]] \cup {"trigger"} /\ Coming(d[1], h)'
    <3>1. PICK k \in Kinds[o] : d = Device(o, k) /\ h = g
      BY <2>1, <2>3, <2>8
    <3> QED BY <2>7, <3>1 DEF Device
  <2>9. \A q \in Owners, h \in Objects : <<"add_service", <<q, "own">>, h>> \in Pending' =>
          <<"loaded", q, h>> \in Pending'
    BY <2>1, <2>3, <2>4
  <2>10. AddedInv'
    BY <2>8, <2>9 DEF AddedInv
  <2> QED BY <2>5, <2>6, <2>10 DEF MakeInv
<1>4. ASSUME NEW o \in Owners, svc_reconfigure_module(o)
      PROVE  MakeInv'
  <2>0. PICK g : g = objects'
    OBVIOUS
  <2> DEFINE C == Taken(o) \cup Given(o, g)
                  \cup {<<"configure", o>>, <<"reconfigured", o, g>>, <<"catch">>}
  <2>1. /\ Pending' = C /\ g \in Objects /\ UNCHANGED object /\ object[o] # 0
        /\ mod_handle' = [mod_handle EXCEPT ![o] = 0]
    BY <1>4, <2>0, ReconfigureStarts DEF svc_reconfigure_module, Starts
  <2>2. \A e \in C :
          /\ e[1] = "add_device" => \E k \in Kinds[o] : e = <<"add_device", Device(o, k), g>>
          /\ e[1] = "reconfigured" => e = <<"reconfigured", o, g>>
          /\ e[1] \notin {"add_service", "loaded"}
    BY DEF Given, Taken
  <2>3. <<"reconfigured", o, g>> \in C
    OBVIOUS
  <2> HIDE DEF C
  <2>4. \A q \in Owners : mod_handle'[q] = IF q = o THEN 0 ELSE mod_handle[q]
    BY <2>1 DEF TypeOK
  <2>5. HandleInv'
    BY <2>1, <2>4 DEF MakeInv, HandleInv
  <2>6. ComingInv'
    BY <2>1, <2>2, <2>4 DEF ComingInv
  <2>7. Coming(o, g)'
    BY <2>1, <2>3 DEF Coming
  <2>8. ASSUME NEW d \in Devices, NEW h \in Objects, <<"add_device", d, h>> \in Pending'
        PROVE  d[2] \in Kinds[d[1]] \cup {"trigger"} /\ Coming(d[1], h)'
    <3>1. PICK k \in Kinds[o] : d = Device(o, k) /\ h = g
      BY <2>1, <2>2, <2>8
    <3> QED BY <2>7, <3>1 DEF Device
  <2>9. AddedInv'
    BY <2>1, <2>2, <2>8 DEF AddedInv
  <2> QED BY <2>5, <2>6, <2>9 DEF MakeInv
<1>5. ASSUME NEW C, Begins(C)
      PROVE  MakeInv'
  <2>1. Pending' = C /\ UNCHANGED <<object, mod_handle>>
    BY <1>5 DEF Begins, Starts
  <2>2. \A e \in C : /\ e[1] \notin {"add_device", "loaded", "reconfigured"}
                     /\ e[1] = "add_service" => e[2] = <<Kernel, "own">>
    BY <1>5 DEF Begins
  <2>3. HandleInv'
    BY <2>1 DEF MakeInv, HandleInv
  <2> QED BY <2>1, <2>2, <2>3, NothingToMake
<1> QED BY <1>1, <1>2, <1>3, <1>4, <1>5, CallBegins

-----------------------------------------------------------------------------
(* Whose devices are registered. *)

(* A device is about to go. *)
Leaving(d) ==
  \/ <<"erase", d>> \in Pending \/ <<"remove_devices", d[1]>> \in Pending
  \/ \E g \in Objects : <<"remove_device", d, g>> \in Pending

(* A device is of the present handle of its module, or of one that is      *)
(* coming, or it goes; and a tidy module knows of it.                      *)
InPlace(d) ==
  \/ d[1] \in left \/ device_map[d] = mod_handle[d[1]]
  \/ Coming(d[1], device_map[d]) \/ Leaving(d)
DeviceInv ==
  \A d \in Devices : d[2] # "trigger" /\ device_map[d] # 0 =>
    d[2] \in Kinds[d[1]] /\ InPlace(d)

(* What keeps a device in place. *)
LEMMA StaysInPlace ==
  ASSUME NEW d \in Devices, InPlace(d), d[1] \in left => d[1] \in left',
         UNCHANGED <<device_map[d], mod_handle[d[1]]>>,
         Coming(d[1], device_map[d]) => Coming(d[1], device_map[d])',
         Leaving(d) => Leaving(d)'
  PROVE  InPlace(d)'
  BY DEF InPlace, Coming

(* What is not at the head stays. *)
LEMMA RestStays ==
  ASSUME NEW C, Does(C)
  PROVE  /\ \A o, g : Coming(o, g) /\ Head(todo)[1] \notin {"loaded", "reconfigured"} => Coming(o, g)'
         /\ \A d : Leaving(d) /\ Head(todo)[1] \notin {"erase", "remove_device", "remove_devices"}
                   => Leaving(d)'
         /\ \A e \in Pending : e # Head(todo) => e \in Pending'
<1>1. Pending = {Head(todo)} \cup Rest /\ Pending' = C \cup Rest
  BY DEF Does
<1>2. \A e \in Pending : e # Head(todo) => e \in Pending'
  BY <1>1
<1>3. \A o, g : Coming(o, g) /\ Head(todo)[1] \notin {"loaded", "reconfigured"} => Coming(o, g)'
  BY <1>1 DEF Coming
<1>4. \A d : Leaving(d) /\ Head(todo)[1] \notin {"erase", "remove_device", "remove_devices"}
             => Leaving(d)'
  BY <1>1 DEF Leaving
<1> QED BY <1>2, <1>3, <1>4

LEMMA DevicesRun ==
  ASSUME TypeOK, DeviceInv, NEW C, Runs(C),
         Head(todo)[1] \notin {"add_device", "remove_device", "erase", "remove_devices",
                               "loaded", "reconfigured", "unload", "unloaded"}
  PROVE  DeviceInv'
<1>1. Does(C) /\ UNCHANGED <<device_map, mod_handle, left>>
  BY DEF Runs, Keeps
<1>2. \A d \in Devices : InPlace(d) => InPlace(d)'
  BY <1>1, RestStays, StaysInPlace
<1> QED BY <1>1, <1>2 DEF DeviceInv

LEMMA AddDeviceKeepsDevices ==
  ASSUME TypeOK, Sorted(todo), MakeInv, DeviceInv, AddDevice
  PROVE  DeviceInv'
<1>1. PICK d, g : d = Head(todo)[2] /\ g = Head(todo)[3]
  OBVIOUS
<1>2. PICK C : Does(C)
  BY AddDeviceDoes
<1>3. Head(todo) = <<"add_device", d, g>> /\ d \in Devices /\ g \in Objects
  BY <1>1, AddDeviceDoes
<1>4. /\ UNCHANGED <<mod_handle, left>>
      /\ device_map' = device_map \/ device_map' = [device_map EXCEPT ![d] = g]
  BY <1>1 DEF AddDevice, modulevars
<1>5. /\ \A o, h : Coming(o, h) => Coming(o, h)'
      /\ \A e : Leaving(e) => Leaving(e)'
  <2>1. Head(todo)[1] = "add_device"
    BY <1>3
  <2> QED BY <1>2, <2>1, RestStays
<1>6. ASSUME NEW e \in Devices, e[2] # "trigger", device_map'[e] # 0
      PROVE  e[2] \in Kinds[e[1]] /\ InPlace(e)'
  <2>1. CASE device_map'[e] = device_map[e]
    <3>1. e[2] \in Kinds[e[1]] /\ InPlace(e)
      BY <1>6, <2>1 DEF DeviceInv
    <3>2. InPlace(e)'
      BY <1>4, <1>5, <2>1, <3>1, StaysInPlace
    <3> QED BY <3>1, <3>2
  <2>2. CASE device_map'[e] # device_map[e]
    <3>1. e = d /\ device_map'[e] = g
      BY <1>3, <1>4, <2>2 DEF TypeOK
    <3>2. <<"add_device", d, g>> \in Pending
      BY <1>2, <1>3 DEF Does
    <3>3. d[2] \in Kinds[d[1]] \cup {"trigger"} /\ (d[1] \in left \/ Coming(d[1], g))
      BY <1>3, <3>2 DEF MakeInv, AddedInv
    <3>4. d[1] \in left' \/ Coming(d[1], g)'
      BY <1>4, <1>5, <3>3
    <3>5. d[1] \in left' \/ Coming(d[1], device_map[d])'
      BY <3>1, <3>4 DEF Coming
    <3> QED BY <1>6, <3>1, <3>3, <3>5 DEF InPlace
  <2> QED BY <2>1, <2>2
<1> QED BY <1>6 DEF DeviceInv

LEMMA RemoveDeviceKeepsDevices ==
  ASSUME TypeOK, Sorted(todo), DeviceInv, RemoveDevice
  PROVE  DeviceInv'
<1>1. PICK d, g : d = Head(todo)[2] /\ g = Head(todo)[3]
  OBVIOUS
<1> DEFINE C == TriggerToo("remove_device", d, g) \cup ToldTo("notify_remove", d, g)
                \cup {<<"erase", d>>}
<1>2. Head(todo) = <<"remove_device", d, g>> /\ Does(C)
  BY <1>1, RemoveDeviceDoes
<1>3. <<"erase", d>> \in C
  OBVIOUS
<1> HIDE DEF C
<1>4. UNCHANGED <<device_map, mod_handle, left>>
  BY DEF RemoveDevice, modulevars, devicevars
<1>5. \A o, h : Coming(o, h) => Coming(o, h)'
  <2>1. Head(todo)[1] = "remove_device"
    BY <1>2
  <2> QED BY <1>2, <2>1, RestStays
<1>6. \A e : Leaving(e) => Leaving(e)'
  BY <1>2, <1>3 DEF Leaving, Does
<1>7. \A e \in Devices : InPlace(e) => InPlace(e)'
  BY <1>4, <1>5, <1>6, StaysInPlace
<1> QED BY <1>4, <1>7 DEF DeviceInv

LEMMA EraseDeviceKeepsDevices ==
  ASSUME TypeOK, Sorted(todo), DeviceInv, EraseDevice
  PROVE  DeviceInv'
<1>1. PICK d : d = Head(todo)[2]
  OBVIOUS
<1>2. Head(todo) = <<"erase", d>> /\ d \in Devices /\ Does({})
  BY <1>1, EraseDeviceDoes
<1>3. UNCHANGED <<mod_handle, left>> /\ device_map' = [device_map EXCEPT ![d] = 0]
  BY <1>1 DEF EraseDevice, modulevars
<1>4. \A o, h : Coming(o, h) => Coming(o, h)'
  <2>1. Head(todo)[1] = "erase"
    BY <1>2
  <2> QED BY <1>2, <2>1, RestStays
<1>5. \A e : Leaving(e) /\ e # d => Leaving(e)'
  BY <1>2 DEF Leaving, Does
<1>6. ASSUME NEW e \in Devices, e[2] # "trigger", device_map'[e] # 0
      PROVE  e[2] \in Kinds[e[1]] /\ InPlace(e)'
  <2>1. e # d /\ device_map'[e] = device_map[e]
    BY <1>2, <1>3, <1>6 DEF TypeOK
  <2>2. e[2] \in Kinds[e[1]] /\ InPlace(e)
    BY <1>6, <2>1 DEF DeviceInv
  <2>3. InPlace(e)'
    BY <1>3, <1>4, <1>5, <2>1, <2>2, StaysInPlace
  <2> QED BY <2>2, <2>3
<1> QED BY <1>6 DEF DeviceInv

LEMMA RemoveDevicesKeepsDevices ==
  ASSUME TypeOK, Sorted(todo), DeviceInv, RemoveDevices
  PROVE  DeviceInv'
<1>1. PICK o : o = Head(todo)[2]
  OBVIOUS
<1>2. Head(todo) = <<"remove_devices", o>> /\ o \in Owners /\ Does({})
  BY <1>1, RemoveDevicesDoes
<1>3. /\ UNCHANGED <<mod_handle, left>>
      /\ \A e \in Devices : device_map'[e] = IF e[1] = o THEN 0 ELSE device_map[e]
  BY <1>1 DEF RemoveDevices, modulevars
<1>4. \A q, h : Coming(q, h) => Coming(q, h)'
  <2>1. Head(todo)[1] = "remove_devices"
    BY <1>2
  <2> QED BY <1>2, <2>1, RestStays
<1>5. \A e : Leaving(e) /\ e[1] # o => Leaving(e)'
  <2>1. \A f \in Pending : f # Head(todo) => f \in Pending'
    BY <1>2, RestStays
  <2>2. /\ \A e : <<"erase", e>> # Head(todo)
        /\ \A e : e[1] # o => <<"remove_devices", e[1]>> # Head(todo)
        /\ \A e, g : <<"remove_device", e, g>> # Head(todo)
    BY <1>2
  <2> QED BY <2>1, <2>2 DEF Leaving
<1>6. ASSUME NEW e \in Devices, e[2] # "trigger", device_map'[e] # 0
      PROVE  e[2] \in Kinds[e[1]] /\ InPlace(e)'
  <2>1. e[1] # o /\ device_map'[e] = device_map[e]
    BY <1>3, <1>6
  <2>2. e[2] \in Kinds[e[1]] /\ InPlace(e)
    BY <1>6, <2>1 DEF DeviceInv
  <2>3. InPlace(e)'
    BY <1>3, <1>4, <1>5, <2>1, <2>2, StaysInPlace
  <2> QED BY <2>2, <2>3
<1> QED BY <1>6 DEF DeviceInv

(* A module, or a new handle of it, gets into place. *)
LEMMA MadeKeepsDevices ==
  ASSUME TypeOK, Sorted(todo), DeviceInv, NEW o \in Owners, NEW g \in Objects, NEW C, Does(C),
         Head(todo) \in {<<"loaded", o, g>>, <<"reconfigured", o, g>>}, mod_handle[o] = 0,
         mod_handle' = [mod_handle EXCEPT ![o] = g], UNCHANGED <<device_map, left>>
  PROVE  DeviceInv'
<1>1. \A q \in Owners : mod_handle'[q] = IF q = o THEN g ELSE mod_handle[q]
  BY DEF TypeOK
<1>2. \A q, h : Coming(q, h) => q = o /\ h = g
  <2>1. Head(todo) \in Pending /\ Head(todo)[1] \in {"loaded", "reconfigured"}
    BY DEF Does
  <2>2. \A e \in Pending : e[1] \in {"loaded", "reconfigured"} => e = Head(todo)
    BY <2>1, OneIsMade
  <2> QED BY <2>2 DEF Coming
<1>3. \A d : Leaving(d) => Leaving(d)'
  <2>1. Head(todo)[1] \notin {"erase", "remove_device", "remove_devices"}
    OBVIOUS
  <2> QED BY <2>1, RestStays
<1>4. ASSUME NEW d \in Devices, device_map[d] # 0, InPlace(d)
      PROVE  InPlace(d)'
  <2>0. d[1] \in Owners
    BY Named
  <2>1. CASE d[1] = o
    BY <1>1, <1>2, <1>3, <1>4, <2>1 DEF InPlace
  <2>2. CASE d[1] # o
    BY <1>1, <1>2, <1>3, <1>4, <2>0, <2>2 DEF InPlace
  <2> QED BY <2>1, <2>2
<1> QED BY <1>4 DEF DeviceInv

LEMMA UnloadKeepsDevices ==
  ASSUME TypeOK, Sorted(todo), DeviceInv, Unload
  PROVE  DeviceInv'
<1>1. PICK o : o = Head(todo)[2]
  OBVIOUS
<1> DEFINE C == Taken(o) \cup {<<"remove_devices", o>>, <<"remove_services", o>>, <<"unloaded", o>>}
<1>2. Head(todo) = <<"unload", o>> /\ o \in Owners /\ Does(C)
  BY <1>1, UnloadDoes
<1>3. <<"remove_devices", o>> \in C
  OBVIOUS
<1> HIDE DEF C
<1>4. /\ UNCHANGED <<device_map, left>>
      /\ \A q \in Owners : mod_handle'[q] = IF q = o THEN 0 ELSE mod_handle[q]
  BY <1>1, <1>2 DEF Unload, devicevars, TypeOK
<1>5. /\ \A q, h : Coming(q, h) => Coming(q, h)'
      /\ \A e : Leaving(e) => Leaving(e)'
  <2>1. Head(todo)[1] = "unload"
    BY <1>2
  <2> QED BY <1>2, <2>1, RestStays
<1>6. ASSUME NEW e \in Devices, InPlace(e)
      PROVE  InPlace(e)'
  <2>0. e[1] \in Owners
    BY Named
  <2>1. CASE e[1] = o
    BY <1>2, <1>3, <2>1 DEF InPlace, Leaving, Does
  <2>2. CASE e[1] # o
    BY <1>4, <1>5, <1>6, <2>0, <2>2, StaysInPlace
  <2> QED BY <2>1, <2>2
<1> QED BY <1>4, <1>6 DEF DeviceInv

LEMMA UnloadedKeepsDevices ==
  ASSUME TypeOK, Sorted(todo), LeavingInv, DeviceInv, Unloaded
  PROVE  DeviceInv'
<1>1. PICK o : o = Head(todo)[2]
  OBVIOUS
<1>2. Head(todo) = <<"unloaded", o>> /\ o \in Owners /\ Does({})
  BY <1>1, UnloadedDoes
<1>3. UNCHANGED <<device_map, mod_handle>> /\ left' = left \ {o}
  BY <1>1 DEF Unloaded, devicevars
<1>4. \A d \in Devices : d[1] = o => device_map[d] = 0
  BY <1>2, NothingLeft DEF Does, Absent
<1>5. /\ \A q, h : Coming(q, h) => Coming(q, h)'
      /\ \A e : Leaving(e) => Leaving(e)'
  <2>1. Head(todo)[1] = "unloaded"
    BY <1>2
  <2> QED BY <1>2, <2>1, RestStays
<1>6. ASSUME NEW e \in Devices, InPlace(e), device_map[e] # 0
      PROVE  InPlace(e)'
  <2>1. e[1] # o
    BY <1>4, <1>6
  <2> QED BY <1>3, <1>5, <1>6, <2>1, StaysInPlace
<1> QED BY <1>3, <1>6 DEF DeviceInv

LEMMA StepKeepsDevices ==
  ASSUME TypeOK, Sorted(todo), LeavingInv, MakeInv, DeviceInv,
         GoesOn, NEW C, Runs(C)
  PROVE  DeviceInv'
<1> DEFINE op == Head(todo)[1]
<1>1. CASE op \in {"add_device", "remove_device", "erase", "remove_devices", "unload", "unloaded"}
  BY <1>1, HeadSays, AddDeviceKeepsDevices, RemoveDeviceKeepsDevices, EraseDeviceKeepsDevices,
     RemoveDevicesKeepsDevices, UnloadKeepsDevices, UnloadedKeepsDevices
<1>2. CASE op = "loaded"
  <2>1. Loaded
    BY <1>2, HeadSays
  <2>2. PICK o, g : o = Head(todo)[2] /\ g = Head(todo)[3]
    OBVIOUS
  <2>3. Head(todo) = <<"loaded", o, g>> /\ o \in Owners /\ g \in Objects /\ Does({})
    BY <2>1, <2>2, LoadedDoes
  <2>4. mod_handle' = [mod_handle EXCEPT ![o] = g] /\ UNCHANGED <<device_map, left>>
    BY <2>1, <2>2 DEF Loaded, devicevars
  <2>5. mod_handle[o] = 0
    BY <2>3 DEF Does, MakeInv, ComingInv, HandleInv
  <2> QED BY <2>3, <2>4, <2>5, MadeKeepsDevices
<1>3. CASE op = "reconfigured"
  <2>1. Reconfigured
    BY <1>3, HeadSays
  <2>2. PICK o, g : o = Head(todo)[2] /\ g = Head(todo)[3]
    OBVIOUS
  <2>3. Head(todo) = <<"reconfigured", o, g>> /\ o \in Owners /\ g \in Objects /\ Does({})
    BY <2>1, <2>2, ReconfiguredDoes
  <2>4. mod_handle' = [mod_handle EXCEPT ![o] = g] /\ UNCHANGED <<device_map, left>>
    BY <2>1, <2>2 DEF Reconfigured, devicevars
  <2>5. mod_handle[o] = 0
    BY <2>3 DEF Does, MakeInv, ComingInv
  <2> QED BY <2>3, <2>4, <2>5, MadeKeepsDevices
<1> QED BY <1>1, <1>2, <1>3, DevicesRun

LEMMA FailureKeepsDevices ==
  ASSUME TypeOK, DeviceInv, Fails
  PROVE  DeviceInv'
<1>1. /\ UNCHANGED <<device_map, mod_handle>> /\ left \subseteq left'
      /\ \A e \in Pending : e[1] \in {"loaded", "reconfigured"} => OwnerOf(e) \in left'
      /\ \A e \in Pending : e[1] \notin {"erase", "remove_device", "remove_devices"}
  BY DEF Fails, Making
<1>2. \A o, g :
        /\ <<"loaded", o, g>> \in Pending => o \in left'
        /\ <<"reconfigured", o, g>> \in Pending => o \in left'
  BY <1>1 DEF OwnerOf
<1>3. \A o, g : Coming(o, g) => o \in left'
  BY <1>2 DEF Coming
<1>4. \A d : ~ Leaving(d)
  BY <1>1 DEF Leaving
<1>5. \A d \in Devices : InPlace(d) => InPlace(d)'
  BY <1>1, <1>3, <1>4 DEF InPlace
<1> QED BY <1>1, <1>5 DEF DeviceInv

LEMMA CallKeepsDevices ==
  ASSUME TypeOK, Sorted(todo), DeviceInv, Call
  PROVE  DeviceInv'
<1>1. CASE ConfigFails
  BY <1>1, Failing, FailureKeepsDevices
<1>2. ASSUME todo = <<>>, UNCHANGED <<device_map, mod_handle, left>>
      PROVE  DeviceInv'
  <2>1. Pending = {}
    BY <1>2, Nothing DEF Pending
  <2>2. \A d \in Devices : InPlace(d) => InPlace(d)'
    BY <1>2, <2>1 DEF InPlace, Coming, Leaving
  <2> QED BY <1>2, <2>2 DEF DeviceInv
<1>3. ASSUME NEW o \in Owners, svc_reconfigure_module(o)
      PROVE  DeviceInv'
  <2>0. PICK g : g = objects'
    OBVIOUS
  <2> DEFINE C == Taken(o) \cup Given(o, g)
                  \cup {<<"configure", o>>, <<"reconfigured", o, g>>, <<"catch">>}
  <2>1. Pending = {} /\ Pending' = C
    BY <1>3, <2>0, ReconfigureStarts DEF Starts
  <2>2. /\ UNCHANGED device_map /\ left' = IF o \in Tidy THEN left ELSE left \cup {o}
        /\ \A q \in Owners : mod_handle'[q] = IF q = o THEN 0 ELSE mod_handle[q]
    BY <1>3 DEF svc_reconfigure_module, devicevars, TypeOK
  <2>3. Taken(o) \subseteq Pending'
    BY <2>1
  <2> HIDE DEF C
  <2>4. ASSUME NEW d \in Devices, d[2] \in Kinds[d[1]], InPlace(d), device_map[d] # 0
        PROVE  InPlace(d)'
    <3>0. d[1] \in Owners /\ d = Device(d[1], d[2])
      BY Named DEF Device
    <3>1. d[1] \in left \/ device_map[d] = mod_handle[d[1]]
      BY <2>1, <2>4 DEF InPlace, Coming, Leaving
    <3>2. CASE d[1] # o \/ d[1] \in left \/ o \notin Tidy
      BY <2>2, <3>0, <3>1, <3>2 DEF InPlace
    <3>3. CASE d[1] = o /\ d[1] \notin left /\ o \in Tidy
      <4>1. mod_handle[o] # 0 /\ mod_handle[o] \in Objects
        BY <2>4, <3>1, <3>3 DEF TypeOK, Objects
      <4>2. <<"remove_device", d, mod_handle[o]>> \in Pending'
        BY <2>3, <2>4, <3>0, <3>3, <4>1 DEF Taken
      <4>3. Leaving(d)'
        BY <4>1, <4>2 DEF Leaving
      <4> QED BY <4>3 DEF InPlace
    <3> QED BY <3>2, <3>3
  <2> QED BY <2>2, <2>4 DEF DeviceInv
<1>4. CASE Shutdown
  BY <1>2, <1>4 DEF Shutdown, devicevars, Idle
<1>5. ASSUME NEW o, NEW end, load_module(o, end)
      PROVE  DeviceInv'
  BY <1>2, <1>5 DEF load_module, devicevars, Idle
<1>6. ASSUME NEW C, Begins(C)
      PROVE  DeviceInv'
  BY <1>2, <1>6 DEF Begins, Starts
<1> QED BY <1>1, <1>3, <1>4, <1>5, <1>6, CallBegins

-----------------------------------------------------------------------------
(* The services of modules themselves. *)

Own(o) == services[<<o, "own">>]
Loading(o) == \E g \in Objects : <<"loaded", o, g>> \in Pending

(* They are of the module that is there, unless one is being loaded, which *)
(* has added them already or is about to, or goes; nothing removes them    *)
(* while the module stays.                                                 *)
AddsOwn ==
  \A o \in Owners \ left, g \in Objects : <<"loaded", o, g>> \in Pending =>
    Own(o) = g \/ (Own(o) = 0 /\ <<"add_service", <<o, "own">>, g>> \in Pending)
OwnThere ==
  \A o \in Owners \ left : Own(o) = object[o] \/ <<"unloaded", o>> \in Pending \/ Loading(o)
OwnGone ==
  /\ \A o \in Owners :
       \/ <<"unloaded", o>> \in Pending \/ <<"remove_services", o>> \in Pending
       \/ <<"remove_own", o>> \in Pending \/ <<"delete", <<o, "own">> >> \in Pending
       => object[o] = 0
  /\ \A o \in Owners : <<"remove_service", <<o, "own">> >> \in Pending =>
       object[o] = 0 \/ <<"unload", o>> \in Pending
OwnInv == AddsOwn /\ OwnThere /\ OwnGone

(* A step that does not touch them. *)
LEMMA OwnRuns ==
  ASSUME OwnInv, NEW C, Runs(C),
         Head(todo)[1] \notin {"add_service", "loaded", "unload", "unloaded", "delete",
                               "remove_service", "remove_own", "remove_services"}
  PROVE  OwnInv'
<1>1. /\ Does(C) /\ UNCHANGED <<services, object, left>>
      /\ Pending = {Head(todo)} \cup Rest /\ Pending' = C \cup Rest
  BY DEF Runs, Keeps, Does
<1>2. /\ \A e \in C : e[1] \notin {"loaded", "unload", "unloaded", "delete", "remove_own", "remove_services"}
      /\ \A o : <<"remove_service", <<o, "own">> >> \notin C
  <2>1. \A e \in C : e[1] \notin {"loaded", "unload", "unloaded", "delete", "remove_own", "remove_services"}
    BY DEF Runs, Follows
  <2>2. \A e \in C : e[1] = "remove_service" => e[2][2] \in Providers
    <3>1. \A e \in C : e[1] = "remove_service" => Head(todo)[1] = "delete_handler"
      BY DEF Runs, Follows
    <3> QED BY <3>1 DEF Runs
  <2> QED BY <2>1, <2>2, OwnIsOwn
<1>3. /\ \A o, g : <<"loaded", o, g>> \in Pending <=> <<"loaded", o, g>> \in Pending'
      /\ \A s, g : <<"add_service", s, g>> \in Pending => <<"add_service", s, g>> \in Pending'
      /\ \A o : <<"unload", o>> \in Pending <=> <<"unload", o>> \in Pending'
      /\ \A o : <<"unloaded", o>> \in Pending <=> <<"unloaded", o>> \in Pending'
      /\ \A o : <<"remove_services", o>> \in Pending' => <<"remove_services", o>> \in Pending
  BY <1>1, <1>2
<1>4. /\ \A o : <<"remove_own", o>> \in Pending' => <<"remove_own", o>> \in Pending
      /\ \A s : <<"delete", s>> \in Pending' => <<"delete", s>> \in Pending
      /\ \A o : <<"remove_service", <<o, "own">> >> \in Pending' =>
                  <<"remove_service", <<o, "own">> >> \in Pending
  BY <1>1, <1>2
<1>5. AddsOwn'
  BY <1>1, <1>3 DEF OwnInv, AddsOwn, Own
<1>6. OwnThere'
  BY <1>1, <1>3 DEF OwnInv, OwnThere, Own, Loading
<1>7. OwnGone'
  BY <1>1, <1>3, <1>4 DEF OwnInv, OwnGone
<1> QED BY <1>5, <1>6, <1>7 DEF OwnInv

LEMMA AddServiceKeepsOwn ==
  ASSUME TypeOK, Sorted(todo), MakeInv, OwnInv, AddService
  PROVE  OwnInv'
<1>1. PICK s, g : s = Head(todo)[2] /\ g = Head(todo)[3]
  OBVIOUS
<1> DEFINE C == IF services[s] # 0 THEN {} ELSE {<<"offer", b, s>> : b \in bridge_map}
<1>2. Head(todo) = <<"add_service", s, g>> /\ s \in Services /\ g \in Objects /\ Does(C)
  BY <1>1, AddServiceDoes
<1>3. \A e \in C : e[1] = "offer"
  OBVIOUS
<1> HIDE DEF C
<1>4. /\ UNCHANGED <<object, left>>
      /\ \A t \in Services : services'[t] = IF t = s /\ services[s] = 0 THEN g ELSE services[t]
  BY <1>1, <1>2 DEF AddService, modulevars, TypeOK
<1>5. /\ Pending = {Head(todo)} \cup Rest /\ Pending' = C \cup Rest
      /\ \A e : e # Head(todo) /\ e[1] # "offer" => (e \in Pending <=> e \in Pending')
  BY <1>2, <1>3 DEF Does
<1>6. /\ \A o, h : <<"loaded", o, h>> \in Pending <=> <<"loaded", o, h>> \in Pending'
      /\ \A o : <<"unload", o>> \in Pending <=> <<"unload", o>> \in Pending'
      /\ \A o : <<"unloaded", o>> \in Pending <=> <<"unloaded", o>> \in Pending'
      /\ \A o : <<"remove_services", o>> \in Pending <=> <<"remove_services", o>> \in Pending'
      /\ \A o : <<"remove_own", o>> \in Pending <=> <<"remove_own", o>> \in Pending'
      /\ \A t : <<"delete", t>> \in Pending <=> <<"delete", t>> \in Pending'
      /\ \A t : <<"remove_service", t>> \in Pending <=> <<"remove_service", t>> \in Pending'
      /\ \A t, h : t # s /\ <<"add_service", t, h>> \in Pending => <<"add_service", t, h>> \in Pending'
  BY <1>2, <1>5
<1>7. ASSUME NEW o \in Owners \ left, s = <<o, "own">>
      PROVE  <<"loaded", o, g>> \in Pending /\ \A h : <<"loaded", o, h>> \in Pending => h = g
  <2>1. <<"add_service", <<o, "own">>, g>> \in Pending
    BY <1>2, <1>5, <1>7
  <2>2. <<"loaded", o, g>> \in Pending
    BY <1>2, <1>7, <2>1 DEF MakeInv, AddedInv
  <2>3. ASSUME NEW h, <<"loaded", o, h>> \in Pending
        PROVE  h = g
    <3>1. <<"loaded", o, h>> = <<"loaded", o, g>>
      BY <2>2, <2>3, OneIsMade
    <3> QED BY <3>1
  <2> QED BY <2>2, <2>3
<1>8. AddsOwn'
  <2> SUFFICES ASSUME NEW o \in Owners \ left', NEW h \in Objects, <<"loaded", o, h>> \in Pending'
               PROVE  Own(o)' = h \/ (Own(o)' = 0 /\ <<"add_service", <<o, "own">>, h>> \in Pending')
    BY DEF AddsOwn, Own
  <2>1. o \in Owners \ left /\ <<"loaded", o, h>> \in Pending /\ <<o, "own">> \in Services
    BY <1>4, <1>6, Named
  <2>2. Own(o) = h \/ (Own(o) = 0 /\ <<"add_service", <<o, "own">>, h>> \in Pending)
    BY <2>1 DEF OwnInv, AddsOwn
  <2>3. CASE s = <<o, "own">>
    <3>1. h = g
      BY <1>7, <2>1, <2>3
    <3> QED BY <1>4, <2>1, <2>2, <2>3, <3>1 DEF Own, Objects
  <2>4. CASE s # <<o, "own">>
    BY <1>4, <1>6, <2>1, <2>2, <2>4 DEF Own
  <2> QED BY <2>3, <2>4
<1>9. OwnThere'
  <2> SUFFICES ASSUME NEW o \in Owners \ left'
               PROVE  Own(o)' = object'[o] \/ <<"unloaded", o>> \in Pending' \/ Loading(o)'
    BY DEF OwnThere, Own, Loading
  <2>1. o \in Owners \ left /\ <<o, "own">> \in Services
    BY <1>4, Named
  <2>2. CASE s = <<o, "own">>
    <3>1. <<"loaded", o, g>> \in Pending'
      BY <1>6, <1>7, <2>1, <2>2
    <3> QED BY <1>2, <3>1 DEF Loading
  <2>3. CASE s # <<o, "own">>
    <3>1. Own(o) = object[o] \/ <<"unloaded", o>> \in Pending \/ Loading(o)
      BY <2>1 DEF OwnInv, OwnThere
    <3>2. Loading(o) => Loading(o)'
      BY <1>6 DEF Loading
    <3> QED BY <1>4, <1>6, <2>1, <2>3, <3>1, <3>2 DEF Own
  <2> QED BY <2>2, <2>3
<1>10. OwnGone'
  BY <1>4, <1>6 DEF OwnInv, OwnGone
<1> QED BY <1>8, <1>9, <1>10 DEF OwnInv

(* A step that removes: nothing is being loaded. *)
LEMMA OwnStays ==
  ASSUME OwnInv, NEW C, Does(C), UNCHANGED <<object, left>>,
         \A o \in Owners : Own(o)' \in {Own(o), object[o]},
         Head(todo)[1] \in {"delete", "remove_service", "remove_own", "remove_services"},
         \A e \in C : e[1] \notin {"loaded", "unload", "unloaded"},
         \A e \in C, o \in Owners :
           e \in {<<"remove_services", o>>, <<"remove_own", o>>, <<"delete", <<o, "own">> >>,
                  <<"remove_service", <<o, "own">> >>} => object[o] = 0
  PROVE  OwnInv'
<1>1. /\ Pending = {Head(todo)} \cup Rest /\ Pending' = C \cup Rest
      /\ \A f \in Rest : MayPrecede(Head(todo), f)
  BY DEF Does
<1>2. \A f \in Pending : f[1] # "loaded"
  <2>1. \A f \in Rest : f[1] # "loaded"
    BY <1>1 DEF MayPrecede, Additions
  <2> QED BY <1>1, <2>1
<1>3. \A o, g : <<"loaded", o, g>> \notin Pending /\ <<"loaded", o, g>> \notin Pending'
  BY <1>1, <1>2
<1>4. /\ \A o : <<"unload", o>> \in Pending => <<"unload", o>> \in Pending'
      /\ \A o : <<"unloaded", o>> \in Pending <=> <<"unloaded", o>> \in Pending'
  BY <1>1
<1>5. AddsOwn'
  BY <1>3 DEF AddsOwn
<1>6. OwnThere'
  BY <1>3, <1>4 DEF OwnInv, OwnThere, Own, Loading
<1>7. OwnGone'
  <2>1. \A o \in Owners : <<"remove_services", o>> \in Pending' \/ <<"remove_own", o>> \in Pending'
                          \/ <<"delete", <<o, "own">> >> \in Pending' => object[o] = 0
    BY <1>1 DEF OwnInv, OwnGone
  <2>2. \A o \in Owners : <<"remove_service", <<o, "own">> >> \in Pending' =>
          object[o] = 0 \/ <<"unload", o>> \in Pending'
    BY <1>1, <1>4 DEF OwnInv, OwnGone
  <2> QED BY <1>4, <2>1, <2>2 DEF OwnInv, OwnGone
<1> QED BY <1>5, <1>6, <1>7 DEF OwnInv

LEMMA DeleteKeepsOwn ==
  ASSUME TypeOK, Sorted(todo), OwnInv, Delete
  PROVE  OwnInv'
<1>1. PICK s : s = Head(todo)[2]
  OBVIOUS
<1>2. Head(todo) = <<"delete", s>> /\ s \in Services /\ Does({})
  BY <1>1, DeleteDoes
<1>3. UNCHANGED <<object, left>> /\ services' = [services EXCEPT ![s] = 0]
  BY <1>1 DEF Delete, modulevars
<1>4. ASSUME NEW o \in Owners
      PROVE  Own(o)' \in {Own(o), object[o]}
  <2>1. CASE s = <<o, "own">>
    <3>1. object[o] = 0
      BY <1>2, <2>1 DEF OwnInv, OwnGone, Does
    <3> QED BY <1>2, <1>3, <2>1, <3>1 DEF Own, TypeOK
  <2>2. CASE s # <<o, "own">>
    BY <1>2, <1>3, <2>2, Named DEF Own, TypeOK
  <2> QED BY <2>1, <2>2
<1>5. Head(todo)[1] = "delete"
  BY <1>2
<1> QED BY <1>2, <1>3, <1>4, <1>5, OwnStays

LEMMA RemoveServiceKeepsOwn ==
  ASSUME TypeOK, Sorted(todo), OwnInv, RemoveService
  PROVE  OwnInv'
<1>1. PICK s : s = Head(todo)[2]
  OBVIOUS
<1> DEFINE C == IF services[s] = 0 THEN {}
                ELSE {<<"withdraw", b, s>> : b \in bridge_map} \cup {<<"delete", s>>}
<1>2. Head(todo) = <<"remove_service", s>> /\ s \in Services /\ Does(C)
  BY <1>1, RemoveServiceDoes
<1>3. \A e \in C : e[1] = "withdraw" \/ e = <<"delete", s>>
  OBVIOUS
<1> HIDE DEF C
<1>4. UNCHANGED <<object, left, services>>
  BY DEF RemoveService, modulevars, servicevars
<1>5. ASSUME NEW o \in Owners, s = <<o, "own">>
      PROVE  object[o] = 0
  <2>1. /\ Pending = {Head(todo)} \cup Rest
        /\ \A f \in Rest : MayPrecede(Head(todo), f)
    BY <1>2 DEF Does
  <2>2. OwnerOf(Head(todo)) = o
    BY <1>2, <1>5 DEF OwnerOf
  <2>3. <<"unload", o>> \notin Rest
    BY <2>1, <2>2 DEF MayPrecede
  <2>4. <<"unload", o>> \notin Pending
    BY <1>2, <2>1, <2>3
  <2>5. <<"remove_service", <<o, "own">> >> \in Pending
    BY <1>2, <1>5, <2>1
  <2> QED BY <2>4, <2>5 DEF OwnInv, OwnGone
<1>6. \A e \in C, o \in Owners :
        e \in {<<"remove_services", o>>, <<"remove_own", o>>, <<"delete", <<o, "own">> >>,
               <<"remove_service", <<o, "own">> >>} => object[o] = 0
  <2> SUFFICES ASSUME NEW e \in C, NEW o \in Owners,
                      e \in {<<"remove_services", o>>, <<"remove_own", o>>,
                             <<"delete", <<o, "own">> >>, <<"remove_service", <<o, "own">> >>}
               PROVE  object[o] = 0
    OBVIOUS
  <2>1. e = <<"delete", s>> /\ e = <<"delete", <<o, "own">> >>
    BY <1>3
  <2>2. s = <<o, "own">>
    BY <2>1
  <2> QED BY <1>5, <2>2
<1>7. \A o \in Owners : Own(o)' \in {Own(o), object[o]}
  BY <1>4 DEF Own
<1>8. \A e \in C : e[1] \notin {"loaded", "unload", "unloaded"}
  BY <1>3
<1>9. Head(todo)[1] = "remove_service"
  BY <1>2
<1> QED BY <1>2, <1>4, <1>6, <1>7, <1>8, <1>9, OwnStays

LEMMA RemoveServicesKeepsOwn ==
  ASSUME TypeOK, Sorted(todo), OwnInv, RemoveServices \/ RemoveOwn
  PROVE  OwnInv'
<1>1. PICK o : o = Head(todo)[2]
  OBVIOUS
<1> DEFINE C == {<<"delete_handler", p, o>> : p \in dl_map \cap Providers} \cup {<<"remove_own", o>>}
           D == {<<"remove_service", s>> : s \in {x \in Services : x[1] = o}}
<1>2. /\ o \in Owners
      /\ \/ Head(todo) = <<"remove_services", o>> /\ Does(C)
         \/ Head(todo) = <<"remove_own", o>> /\ Does(D)
  BY <1>1, RemoveServicesDoes, RemoveOwnDoes
<1>3. /\ \A e \in C : e[1] = "delete_handler" \/ e = <<"remove_own", o>>
      /\ \A e \in D : e[1] = "remove_service" /\ e[2][1] = o
  OBVIOUS
<1> HIDE DEF C, D
<1>4. UNCHANGED <<object, left, services>>
  BY DEF RemoveServices, RemoveOwn, modulevars, servicevars
<1>5. object[o] = 0
  BY <1>2 DEF OwnInv, OwnGone, Does
<1>6. \A e \in C \cup D, q \in Owners :
        e \in {<<"remove_services", q>>, <<"remove_own", q>>, <<"delete", <<q, "own">> >>,
               <<"remove_service", <<q, "own">> >>} => q = o
  <2> SUFFICES ASSUME NEW e \in C \cup D, NEW q \in Owners,
                      e \in {<<"remove_services", q>>, <<"remove_own", q>>,
                             <<"delete", <<q, "own">> >>, <<"remove_service", <<q, "own">> >>}
               PROVE  q = o
    OBVIOUS
  <2>1. CASE e \in C
    BY <1>3, <2>1
  <2>2. CASE e \in D
    BY <1>3, <2>2
  <2> QED BY <2>1, <2>2
<1>7. \A q \in Owners : Own(q)' \in {Own(q), object[q]}
  BY <1>4 DEF Own
<1>8. \A e \in C \cup D : e[1] \notin {"loaded", "unload", "unloaded"}
  BY <1>3
<1>9. Head(todo)[1] \in {"remove_services", "remove_own"} /\ (Does(C) \/ Does(D))
  BY <1>2
<1>10. CASE Does(C)
  BY <1>4, <1>5, <1>6, <1>7, <1>8, <1>9, <1>10, OwnStays
<1>11. CASE Does(D)
  BY <1>4, <1>5, <1>6, <1>7, <1>8, <1>9, <1>11, OwnStays
<1> QED BY <1>9, <1>10, <1>11

LEMMA UnloadKeepsOwn ==
  ASSUME TypeOK, Sorted(todo), OwnInv, Unload
  PROVE  OwnInv'
<1>1. PICK o : o = Head(todo)[2]
  OBVIOUS
<1> DEFINE C == Taken(o) \cup {<<"remove_devices", o>>, <<"remove_services", o>>, <<"unloaded", o>>}
<1>2. Head(todo) = <<"unload", o>> /\ o \in Owners /\ Does(C)
  BY <1>1, UnloadDoes
<1>3. /\ <<"unloaded", o>> \in C
      /\ \A e \in C : e[1] = "remove_device" \/ e \in {<<"remove_devices", o>>, <<"remove_services", o>>, <<"unloaded", o>>}
  BY DEF Taken
<1> HIDE DEF C
<1>4. /\ UNCHANGED <<services, left>>
      /\ \A q \in Owners : object'[q] = IF q = o THEN 0 ELSE object[q]
  BY <1>1, <1>2 DEF Unload, servicevars, TypeOK
<1>5. /\ Pending = {Head(todo)} \cup Rest /\ Pending' = C \cup Rest
      /\ \A f \in Rest : MayPrecede(Head(todo), f)
  BY <1>2 DEF Does
<1>6. /\ \A f \in Pending : f[1] # "loaded"
      /\ \A f \in Pending' : f[1] # "loaded"
  <2>1. \A f \in Rest : f[1] # "loaded"
    BY <1>2, <1>5 DEF MayPrecede, Additions
  <2> QED BY <1>2, <1>3, <1>5, <2>1
<1>7. /\ \A q : q # o => (<<"unload", q>> \in Pending => <<"unload", q>> \in Pending')
      /\ \A q : <<"unloaded", q>> \in Pending => <<"unloaded", q>> \in Pending'
      /\ \A q : q # o /\ <<"unloaded", q>> \in Pending' => <<"unloaded", q>> \in Pending
      /\ \A q : q # o /\ <<"remove_services", q>> \in Pending' => <<"remove_services", q>> \in Pending
      /\ \A q : <<"remove_own", q>> \in Pending' => <<"remove_own", q>> \in Pending
      /\ \A s : <<"delete", s>> \in Pending' => <<"delete", s>> \in Pending
      /\ \A s : <<"remove_service", s>> \in Pending' => <<"remove_service", s>> \in Pending
  BY <1>2, <1>3, <1>5
<1>8. AddsOwn'
  BY <1>6 DEF AddsOwn
<1>9. OwnThere'
  <2>1. <<"unloaded", o>> \in Pending'
    BY <1>3, <1>5
  <2>2. \A q : ~ Loading(q)
    BY <1>6 DEF Loading
  <2> QED BY <1>4, <1>7, <2>1, <2>2 DEF OwnInv, OwnThere, Own
<1>10. OwnGone'
  BY <1>4, <1>7 DEF OwnInv, OwnGone
<1> QED BY <1>8, <1>9, <1>10 DEF OwnInv

LEMMA LoadedKeepsOwn ==
  ASSUME TypeOK, Sorted(todo), OwnInv, Loaded
  PROVE  OwnInv'
<1>1. PICK o, g : o = Head(todo)[2] /\ g = Head(todo)[3]
  OBVIOUS
<1>2. Head(todo) = <<"loaded", o, g>> /\ o \in Owners /\ g \in Objects /\ Does({})
  BY <1>1, LoadedDoes
<1>3. /\ UNCHANGED <<services, left>>
      /\ \A q \in Owners : object'[q] = IF q = o THEN g ELSE object[q]
  BY <1>1, <1>2 DEF Loaded, servicevars, TypeOK
<1>4. /\ Pending = {Head(todo)} \cup Rest /\ Pending' = Rest
      /\ \A f \in Rest : MayPrecede(Head(todo), f)
  BY <1>2 DEF Does
<1>5. \A f \in Rest : f[1] \notin {"loaded", "add_service", "unloaded", "remove_services",
                                   "remove_own", "delete", "remove_service"}
  BY <1>2, <1>4 DEF MayPrecede, Additions, Removals, Dismissals, Releases, Unloads
<1>6. AddsOwn' /\ OwnGone'
  BY <1>4, <1>5 DEF AddsOwn, OwnGone
<1>7. OwnThere'
  <2> SUFFICES ASSUME NEW q \in Owners \ left'
               PROVE  Own(q)' = object'[q]
    BY DEF OwnThere, Own, Loading
  <2>1. \A h : <<"loaded", q, h>> \in Pending => q = o
    BY <1>2, <1>4, <1>5
  <2>2. CASE q = o
    <3>1. <<"loaded", o, g>> \in Pending /\ <<"add_service", <<o, "own">>, g>> \notin Pending
      BY <1>2, <1>4, <1>5
    <3>2. Own(o) = g
      BY <1>2, <1>3, <2>2, <3>1 DEF OwnInv, AddsOwn
    <3> QED BY <1>3, <2>2, <3>2 DEF Own
  <2>3. CASE q # o
    <3>1. ~ Loading(q)
      BY <2>1, <2>3 DEF Loading
    <3>2. <<"unloaded", q>> \notin Pending
      BY <1>2, <1>4, <1>5
    <3> QED BY <1>3, <2>3, <3>1, <3>2 DEF OwnInv, OwnThere, Own
  <2> QED BY <2>2, <2>3
<1> QED BY <1>6, <1>7 DEF OwnInv

LEMMA UnloadedKeepsOwn ==
  ASSUME TypeOK, Sorted(todo), LeavingInv, OwnInv, Unloaded
  PROVE  OwnInv'
<1>1. PICK o : o = Head(todo)[2]
  OBVIOUS
<1>2. Head(todo) = <<"unloaded", o>> /\ o \in Owners /\ Does({})
  BY <1>1, UnloadedDoes
<1>3. UNCHANGED <<services, object>> /\ left' = left \ {o}
  BY <1>1 DEF Unloaded, servicevars
<1>4. object[o] = 0 /\ Own(o) = 0
  BY <1>2, NothingLeft DEF Does, Absent, Own
<1>5. /\ Pending = {Head(todo)} \cup Rest /\ Pending' = Rest
      /\ \A f \in Rest : MayPrecede(Head(todo), f)
  BY <1>2 DEF Does
<1>6. \A f \in Pending : f[1] # "loaded"
  <2>1. \A f \in Rest : f[1] # "loaded"
    BY <1>2, <1>5 DEF MayPrecede, Additions
  <2> QED BY <1>2, <1>5, <2>1
<1>7. /\ \A q : q # o => (<<"unloaded", q>> \in Pending => <<"unloaded", q>> \in Pending')
      /\ \A q : <<"unload", q>> \in Pending => <<"unload", q>> \in Pending'
      /\ Pending' \subseteq Pending
  BY <1>2, <1>5
<1>8. AddsOwn'
  BY <1>6, <1>7 DEF AddsOwn
<1>9. OwnThere'
  <2> SUFFICES ASSUME NEW q \in Owners \ left'
               PROVE  Own(q)' = object'[q] \/ <<"unloaded", q>> \in Pending'
    BY DEF OwnThere, Own
  <2>1. CASE q = o
    BY <1>3, <1>4, <2>1 DEF Own
  <2>2. CASE q # o
    <3>1. ~ Loading(q)
      BY <1>6 DEF Loading
    <3> QED BY <1>3, <1>7, <2>2, <3>1 DEF OwnInv, OwnThere, Own
  <2> QED BY <2>1, <2>2
<1>10. OwnGone'
  BY <1>3, <1>7 DEF OwnInv, OwnGone
<1> QED BY <1>8, <1>9, <1>10 DEF OwnInv

LEMMA StepKeepsOwn ==
  ASSUME TypeOK, Sorted(todo), LeavingInv, MakeInv, OwnInv,
         GoesOn, NEW C, Runs(C)
  PROVE  OwnInv'
<1> DEFINE op == Head(todo)[1]
<1>1. CASE op \in {"add_service", "delete", "remove_service", "remove_own", "remove_services"}
  BY <1>1, HeadSays, AddServiceKeepsOwn, DeleteKeepsOwn, RemoveServiceKeepsOwn,
     RemoveServicesKeepsOwn
<1>2. CASE op \in {"loaded", "unload", "unloaded"}
  BY <1>2, HeadSays, LoadedKeepsOwn, UnloadKeepsOwn, UnloadedKeepsOwn
<1> QED BY <1>1, <1>2, OwnRuns

LEMMA ExitKeepsOwn ==
  ASSUME OwnInv, Pending' = Exit, UNCHANGED <<services, object>>, left \subseteq left',
         \A o \in Owners \ left' : ~ Loading(o) /\ <<"unloaded", o>> \notin Pending
  PROVE  OwnInv'
<1>1. AddsOwn'
  BY DEF AddsOwn, Exit
<1>2. OwnThere'
  BY DEF OwnInv, OwnThere, Own
<1>3. OwnGone'
  BY DEF OwnGone, Exit
<1> QED BY <1>1, <1>2, <1>3 DEF OwnInv

LEMMA FailureKeepsOwn ==
  ASSUME TypeOK, OwnInv, Fails
  PROVE  OwnInv'
<1>1. /\ UNCHANGED <<services, object>> /\ left \subseteq left'
      /\ \A e \in Pending : e[1] = "loaded" => OwnerOf(e) \in left'
      /\ \A e \in Pending : e[1] \notin {"unloaded", "remove_services", "remove_own", "delete",
                                         "remove_service"}
      /\ Pending' = Exit \/ Pending' \subseteq Pending
  BY DEF Fails, Making
<1>2. \A o, g : <<"loaded", o, g>> \in Pending => o \in left'
  BY <1>1 DEF OwnerOf
<1>3. \A o : <<"unloaded", o>> \notin Pending
  BY <1>1
<1>4. \A o \in Owners \ left' : ~ Loading(o)
  BY <1>2 DEF Loading
<1>5. CASE Pending' = Exit
  BY <1>1, <1>3, <1>4, <1>5, ExitKeepsOwn
<1>6. CASE Pending' \subseteq Pending
  <2>1. AddsOwn'
    BY <1>2, <1>6 DEF AddsOwn
  <2>2. OwnThere'
    BY <1>1, <1>3, <1>4 DEF OwnInv, OwnThere, Own
  <2>3. OwnGone'
    BY <1>1, <1>6 DEF OwnGone
  <2> QED BY <2>1, <2>2, <2>3 DEF OwnInv
<1> QED BY <1>1, <1>5, <1>6

LEMMA CallKeepsOwn ==
  ASSUME TypeOK, Sorted(todo), OwnInv, Call
  PROVE  OwnInv'
<1>1. CASE ConfigFails
  BY <1>1, Failing, FailureKeepsOwn
<1>2. ASSUME NEW C, Starts(C), UNCHANGED <<services, object>>, left \subseteq left',
             \A e \in C : e[1] \notin {"loaded", "unloaded", "remove_services", "remove_own",
                                       "delete", "remove_service"}
      PROVE  OwnInv'
  <2>1. Pending = {} /\ Pending' = C
    BY <1>2 DEF Starts
  <2>2. AddsOwn'
    BY <1>2, <2>1 DEF AddsOwn
  <2>3. OwnThere'
    BY <1>2, <2>1 DEF OwnInv, OwnThere, Own, Loading
  <2>4. OwnGone'
    BY <1>2, <2>1 DEF OwnGone
  <2> QED BY <2>2, <2>3, <2>4 DEF OwnInv
<1>3. CASE Shutdown
  <2>1. Pending = {} /\ Pending' = Exit /\ UNCHANGED <<services, object, left>>
    BY <1>3, ShutdownStarts DEF Shutdown, servicevars, Starts
  <2> QED BY <2>1, ExitKeepsOwn DEF Loading
<1>4. ASSUME NEW o \in Owners, NEW end \in {<<>>, << <<"catch">> >>}, load_module(o, end)
      PROVE  OwnInv'
  <2>0. PICK g : g = objects'
    OBVIOUS
  <2> DEFINE C == Given(o, g) \cup {<<"configure", o>>, <<"add_service", <<o, "own">>, g>>,
                                     <<"loaded", o, g>>} \cup ToSet(end)
  <2>1. Pending = {} /\ Pending' = C
    BY <1>4, <2>0, LoadStarts DEF Starts
  <2>2. UNCHANGED <<services, object, left>> /\ object[o] = 0
    BY <1>4 DEF load_module, servicevars
  <2>3. ToSet(end) \subseteq {<<"catch">>}
    BY Nothing, Single, Made
  <2>4. /\ \A e \in C : e[1] \notin {"unloaded", "remove_services", "remove_own",
                                     "delete", "remove_service"}
        /\ \A e \in C : e[1] = "loaded" => e = <<"loaded", o, g>>
        /\ <<"add_service", <<o, "own">>, g>> \in C
    BY <2>3 DEF Given
  <2> HIDE DEF C
  <2>5. \A q \in Owners \ left : Own(q) = object[q]
    BY <2>1 DEF OwnInv, OwnThere, Loading
  <2>6. AddsOwn'
    <3> SUFFICES ASSUME NEW q \in Owners \ left', NEW h \in Objects, <<"loaded", q, h>> \in Pending'
                 PROVE  Own(q)' = 0 /\ <<"add_service", <<q, "own">>, h>> \in Pending'
      BY DEF AddsOwn, Own
    <3>1. q = o /\ h = g
      BY <2>1, <2>4
    <3>2. Own(o) = 0
      BY <2>2, <2>5, <3>1
    <3> QED BY <2>1, <2>2, <2>4, <3>1, <3>2 DEF Own
  <2>7. OwnThere'
    BY <2>2, <2>5 DEF OwnThere, Own
  <2>8. OwnGone'
    BY <2>1, <2>4 DEF OwnGone
  <2> QED BY <2>6, <2>7, <2>8 DEF OwnInv
<1>5. ASSUME NEW o \in Owners, svc_reconfigure_module(o)
      PROVE  OwnInv'
  <2>0. PICK g : g = objects'
    OBVIOUS
  <2> DEFINE C == Taken(o) \cup Given(o, g)
                  \cup {<<"configure", o>>, <<"reconfigured", o, g>>, <<"catch">>}
  <2>1. Starts(C)
    BY <1>5, <2>0, ReconfigureStarts
  <2>2. UNCHANGED <<services, object>> /\ left \subseteq left'
    BY <1>5 DEF svc_reconfigure_module, servicevars
  <2>3. \A e \in C : e[1] \notin {"loaded", "unloaded", "remove_services", "remove_own",
                                  "delete", "remove_service"}
    BY DEF Given, Taken
  <2> HIDE DEF C
  <2> QED BY <1>2, <2>1, <2>2, <2>3
<1>6. ASSUME NEW C, Begins(C)
      PROVE  OwnInv'
  <2>1. \A e \in C : e[1] \notin {"loaded", "unloaded", "remove_services", "remove_own",
                                  "delete", "remove_service"}
    BY <1>6 DEF Begins
  <2>2. Starts(C) /\ UNCHANGED <<services, object>> /\ left \subseteq left'
    BY <1>6 DEF Begins
  <2> QED BY <1>2, <2>1, <2>2
<1> QED BY <1>1, <1>3, <1>4, <1>5, <1>6, CallBegins

-----------------------------------------------------------------------------
(* The services of handlers. *)

(* The service of a handler is of the handler that is there, of the one    *)
(* that is being made, or it goes; the two are made together, and only     *)
(* where there is no handler.                                              *)
Matched(p, o) ==
  \/ services[<<o, p>>] \in {0, handlers[p][o]}
  \/ <<"new_handler", p, o, services[<<o, p>>]>> \in Pending
  \/ <<"remove_service", <<o, p>> >> \in Pending \/ <<"delete", <<o, p>> >> \in Pending
MadeTogether ==
  /\ \A p \in Providers, o \in Owners, g \in Objects :
       <<"add_service", <<o, p>>, g>> \in Pending => <<"new_handler", p, o, g>> \in Pending
  /\ \A p \in Providers, o \in Owners, g \in Objects :
       <<"new_handler", p, o, g>> \in Pending => handlers[p][o] = 0
ServiceInv == MadeTogether /\ \A p \in Providers, o \in Owners \ left : Matched(p, o)

LEMMA StaysMatched ==
  ASSUME NEW p, NEW o, Matched(p, o),
         services'[<<o, p>>] = services[<<o, p>>], handlers'[p][o] = handlers[p][o],
         \A g : <<"new_handler", p, o, g>> \in Pending => <<"new_handler", p, o, g>> \in Pending',
         <<"remove_service", <<o, p>> >> \in Pending => <<"remove_service", <<o, p>> >> \in Pending',
         <<"delete", <<o, p>> >> \in Pending => <<"delete", <<o, p>> >> \in Pending'
  PROVE  Matched(p, o)'
  BY DEF Matched

(* Nothing of this is made while anything else is at hand. *)
LEMMA NotMade ==
  ASSUME NEW C, Does(C)
  PROVE  /\ \A f \in Rest : f[1] = "add_service" => f[2][2] \notin Providers
         /\ \A f \in Rest : f[1] = "new_handler" => Head(todo)[1] \in {"add_service", "offer"}
  BY DEF Does, MayPrecede

LEMMA TogetherRuns ==
  ASSUME MadeTogether, NEW C, Does(C), Head(todo)[1] # "new_handler",
         \A p \in Providers, o \in Owners : handlers'[p][o] \in {0, handlers[p][o]},
         \A e \in C : e[1] \notin {"add_service", "new_handler"}
  PROVE  MadeTogether'
<1>1. Pending = {Head(todo)} \cup Rest /\ Pending' = C \cup Rest
  BY DEF Does
<1>2. \A p \in Providers, o \in Owners, g \in Objects : <<"add_service", <<o, p>>, g>> \notin Pending'
  BY <1>1, NotMade
<1>3. \A p \in Providers, o \in Owners, g \in Objects :
        <<"new_handler", p, o, g>> \in Pending' => <<"new_handler", p, o, g>> \in Pending
  BY <1>1
<1> QED BY <1>2, <1>3 DEF MadeTogether

LEMMA ServicesRun ==
  ASSUME TypeOK, ServiceInv, NEW C, Runs(C),
         Head(todo)[1] \notin {"notify_add", "new_handler", "delete_handler", "add_service",
                               "delete", "remove_service", "unloaded"}
  PROVE  ServiceInv'
<1>1. Does(C) /\ UNCHANGED <<services, handlers, left>>
  BY DEF Runs, Keeps
<1>2. Pending = {Head(todo)} \cup Rest /\ Pending' = C \cup Rest
  BY <1>1 DEF Does
<1>3. \A e \in C : e[1] \notin {"add_service", "new_handler"}
  BY DEF Runs, Follows
<1>4. MadeTogether'
  BY <1>1, <1>3, TogetherRuns DEF ServiceInv
<1>5. /\ \A p, o, g : <<"new_handler", p, o, g>> \in Pending => <<"new_handler", p, o, g>> \in Pending'
      /\ \A s : <<"remove_service", s>> \in Pending => <<"remove_service", s>> \in Pending'
      /\ \A s : <<"delete", s>> \in Pending => <<"delete", s>> \in Pending'
  BY <1>2
<1>6. \A p \in Providers, o \in Owners : Matched(p, o) => Matched(p, o)'
  BY <1>1, <1>5, StaysMatched
<1> QED BY <1>1, <1>4, <1>6 DEF ServiceInv

LEMMA NotifyKeepsServices ==
  ASSUME TypeOK, Sorted(todo), ServiceInv, Notify \/ NotifyProvider
  PROVE  ServiceInv'
<1>1. UNCHANGED <<services, handlers, left>>
  BY DEF Notify, NotifyProvider, servicevars, devicevars
<1>2. ASSUME NEW C, Does(C), Head(todo)[1] \in {"notify_add", "notify_remove"}
      PROVE  \A p \in Providers, o \in Owners : Matched(p, o) => Matched(p, o)'
  <2>1. Pending = {Head(todo)} \cup Rest /\ Pending' = C \cup Rest
    BY <1>2 DEF Does
  <2>2. /\ \A p, o, g : <<"new_handler", p, o, g>> \in Pending => <<"new_handler", p, o, g>> \in Pending'
        /\ \A s : <<"remove_service", s>> \in Pending => <<"remove_service", s>> \in Pending'
        /\ \A s : <<"delete", s>> \in Pending => <<"delete", s>> \in Pending'
    BY <1>2, <2>1
  <2> QED BY <1>1, <2>2, StaysMatched
<1>3. ASSUME NEW C, Does(C), Head(todo)[1] \in {"notify_add", "notify_remove"},
             \A e \in C : e[1] \notin {"add_service", "new_handler"}
      PROVE  ServiceInv'
  <2>1. MadeTogether'
    BY <1>1, <1>3, TogetherRuns DEF ServiceInv
  <2> QED BY <1>1, <1>2, <1>3, <2>1 DEF ServiceInv
<1>4. CASE Notify
  BY <1>3, <1>4, NotifyDoes
<1>5. CASE NotifyProvider
  <2>1. PICK p, d, g : p = Head(todo)[2] /\ d = Head(todo)[3] /\ g = Head(todo)[4]
    OBVIOUS
  <2> DEFINE C == IF d[2] # "interface" THEN {} ELSE Handled(p, d[1], g)
             D == IF d[2] # "interface" THEN {} ELSE {<<"delete_handler", p, d[1]>>}
  <2>2. /\ p \in Providers /\ d \in Devices /\ g \in Objects
        /\ \/ Head(todo) = <<"notify_add", p, d, g>> /\ Does(C)
           \/ Head(todo) = <<"notify_remove", p, d, g>> /\ Does(D)
    BY <1>5, <2>1, NotifyProviderDoes
  <2>3. /\ \A e \in D : e[1] \notin {"add_service", "new_handler"}
        /\ \A e \in C : /\ e[1] = "add_service" =>
                             /\ e = <<"add_service", <<d[1], p>>, g>>
                             /\ <<"new_handler", p, d[1], g>> \in C
                        /\ e[1] = "new_handler" =>
                             e = <<"new_handler", p, d[1], g>> /\ handlers[p][d[1]] = 0
    BY DEF Handled
  <2> HIDE DEF C, D
  <2>4. CASE Head(todo) = <<"notify_remove", p, d, g>> /\ Does(D)
    <3>1. Head(todo)[1] = "notify_remove"
      BY <2>4
    <3> QED BY <1>3, <2>3, <2>4, <3>1
  <2>5. CASE Head(todo) = <<"notify_add", p, d, g>> /\ Does(C)
    <3>1. Pending = {Head(todo)} \cup Rest /\ Pending' = C \cup Rest
      BY <2>5 DEF Does
    <3>2. \A f \in Rest : f[1] # "new_handler" /\ (f[1] = "add_service" => f[2][2] \notin Providers)
      BY <2>5, NotMade
    <3>3. ASSUME NEW q \in Providers, NEW o \in Owners, NEW h \in Objects,
                 <<"add_service", <<o, q>>, h>> \in Pending'
          PROVE  <<"new_handler", q, o, h>> \in Pending'
      <4>1. <<"add_service", <<o, q>>, h>> \in C
        BY <3>1, <3>2, <3>3
      <4>2. /\ <<"add_service", <<o, q>>, h>> = <<"add_service", <<d[1], p>>, g>>
            /\ <<"new_handler", p, d[1], g>> \in C
        BY <2>3, <4>1
      <4>3. o = d[1] /\ q = p /\ h = g
        BY <4>2
      <4> QED BY <3>1, <4>2, <4>3
    <3>4. ASSUME NEW q \in Providers, NEW o \in Owners, NEW h \in Objects,
                 <<"new_handler", q, o, h>> \in Pending'
          PROVE  handlers'[q][o] = 0
      <4>1. <<"new_handler", q, o, h>> \in C
        BY <3>1, <3>2, <3>4
      <4>2. <<"new_handler", q, o, h>> = <<"new_handler", p, d[1], g>> /\ handlers[p][d[1]] = 0
        BY <2>3, <4>1
      <4> QED BY <1>1, <4>2
    <3>5. MadeTogether'
      BY <3>3, <3>4 DEF MadeTogether
    <3>6. Head(todo)[1] = "notify_add"
      BY <2>5
    <3> QED BY <1>1, <1>2, <2>5, <3>5, <3>6 DEF ServiceInv
  <2> QED BY <2>2, <2>4, <2>5
<1> QED BY <1>4, <1>5

LEMMA NewHandlerKeepsServices ==
  ASSUME TypeOK, Sorted(todo), ServiceInv, NewHandler
  PROVE  ServiceInv'
<1>1. PICK p, o, g : p = Head(todo)[2] /\ o = Head(todo)[3] /\ g = Head(todo)[4]
  OBVIOUS
<1>2. /\ Head(todo) = <<"new_handler", p, o, g>> /\ p \in Providers /\ o \in Owners
      /\ g \in Objects /\ Does({})
  BY <1>1, NewHandlerDoes
<1>3. /\ UNCHANGED <<services, left>>
      /\ \A q \in Providers, r \in Owners :
           handlers'[q][r] = IF q = p /\ r = o THEN g ELSE handlers[q][r]
  BY <1>1, <1>2 DEF NewHandler, servicevars, TypeOK
<1>4. Pending = {Head(todo)} \cup Rest /\ Pending' = Rest
  BY <1>2 DEF Does
<1>5. \A f \in Rest : f[1] # "new_handler" /\ (f[1] = "add_service" => f[2][2] \notin Providers)
  BY <1>2, NotMade
<1>6. MadeTogether'
  <2>1. \A q \in Providers, r \in Owners, h \in Objects :
          <<"add_service", <<r, q>>, h>> \notin Rest /\ <<"new_handler", q, r, h>> \notin Rest
    BY <1>5
  <2> QED BY <1>4, <2>1 DEF MadeTogether
<1>7. ASSUME NEW q \in Providers, NEW r \in Owners, Matched(q, r)
      PROVE  Matched(q, r)'
  <2>1. \A h : <<"new_handler", q, r, h>> \in Pending => q = p /\ r = o /\ h = g
    BY <1>2, <1>4, <1>5
  <2>2. /\ <<"remove_service", <<r, q>> >> \in Pending => <<"remove_service", <<r, q>> >> \in Pending'
        /\ <<"delete", <<r, q>> >> \in Pending => <<"delete", <<r, q>> >> \in Pending'
    BY <1>2, <1>4
  <2>3. CASE q = p /\ r = o
    <3>1. handlers[p][o] = 0
      BY <1>2, <1>4 DEF ServiceInv, MadeTogether
    <3>2. services[<<o, p>>] \in {0, g} \/ <<"remove_service", <<o, p>> >> \in Pending
          \/ <<"delete", <<o, p>> >> \in Pending
      BY <1>7, <2>1, <2>3, <3>1 DEF Matched
    <3> QED BY <1>2, <1>3, <2>2, <2>3, <3>2 DEF Matched
  <2>4. CASE ~(q = p /\ r = o)
    BY <1>3, <1>7, <2>1, <2>2, <2>4, StaysMatched
  <2> QED BY <2>3, <2>4
<1> QED BY <1>3, <1>6, <1>7 DEF ServiceInv

LEMMA DeleteHandlerKeepsServices ==
  ASSUME TypeOK, Sorted(todo), ServiceInv, DeleteHandler
  PROVE  ServiceInv'
<1>1. PICK p, o : p = Head(todo)[2] /\ o = Head(todo)[3]
  OBVIOUS
<1> DEFINE C == IF handlers[p][o] = 0 THEN {} ELSE {<<"remove_service", <<o, p>> >>}
<1>2. Head(todo) = <<"delete_handler", p, o>> /\ p \in Providers /\ o \in Owners /\ Does(C)
  BY <1>1, DeleteHandlerDoes
<1>3. /\ UNCHANGED <<services, left>>
      /\ \A q \in Providers, r \in Owners :
           handlers'[q][r] = IF q = p /\ r = o THEN 0 ELSE handlers[q][r]
  BY <1>1, <1>2 DEF DeleteHandler, servicevars, TypeOK
<1>4. /\ \A e \in C : e[1] = "remove_service"
      /\ handlers[p][o] = 0 \/ <<"remove_service", <<o, p>> >> \in C
  OBVIOUS
<1> HIDE DEF C
<1>5. Pending = {Head(todo)} \cup Rest /\ Pending' = C \cup Rest
  BY <1>2 DEF Does
<1>6. MadeTogether'
  <2>1. Head(todo)[1] # "new_handler"
    BY <1>2
  <2> QED BY <1>2, <1>3, <1>4, <2>1, TogetherRuns DEF ServiceInv
<1>7. ASSUME NEW q \in Providers, NEW r \in Owners, Matched(q, r)
      PROVE  Matched(q, r)'
  <2>1. \A h : <<"new_handler", q, r, h>> \in Pending => <<"new_handler", q, r, h>> \in Pending'
    BY <1>2, <1>5
  <2>2. /\ <<"remove_service", <<r, q>> >> \in Pending => <<"remove_service", <<r, q>> >> \in Pending'
        /\ <<"delete", <<r, q>> >> \in Pending => <<"delete", <<r, q>> >> \in Pending'
    BY <1>2, <1>5
  <2>3. CASE handlers'[q][r] = handlers[q][r]
    BY <1>3, <1>7, <2>1, <2>2, <2>3, StaysMatched
  <2>4. CASE handlers'[q][r] # handlers[q][r]
    BY <1>3, <1>4, <1>5, <2>4 DEF Matched
  <2> QED BY <2>3, <2>4
<1> QED BY <1>3, <1>6, <1>7 DEF ServiceInv

LEMMA AddServiceKeepsServices ==
  ASSUME TypeOK, Sorted(todo), ServiceInv, AddService
  PROVE  ServiceInv'
<1>1. PICK s, g : s = Head(todo)[2] /\ g = Head(todo)[3]
  OBVIOUS
<1> DEFINE C == IF services[s] # 0 THEN {} ELSE {<<"offer", b, s>> : b \in bridge_map}
<1>2. Head(todo) = <<"add_service", s, g>> /\ s \in Services /\ g \in Objects /\ Does(C)
  BY <1>1, AddServiceDoes
<1>3. \A e \in C : e[1] = "offer"
  OBVIOUS
<1> HIDE DEF C
<1>4. /\ UNCHANGED <<handlers, left>>
      /\ \A t \in Services : services'[t] = IF t = s /\ services[s] = 0 THEN g ELSE services[t]
  BY <1>1, <1>2 DEF AddService, devicevars, TypeOK
<1>5. Pending = {Head(todo)} \cup Rest /\ Pending' = C \cup Rest
  BY <1>2 DEF Does
<1>6. MadeTogether'
  <2>1. Head(todo)[1] # "new_handler"
    BY <1>2
  <2> QED BY <1>2, <1>3, <1>4, <2>1, TogetherRuns DEF ServiceInv
<1>7. ASSUME NEW q \in Providers, NEW r \in Owners, Matched(q, r)
      PROVE  Matched(q, r)'
  <2>1. \A h : <<"new_handler", q, r, h>> \in Pending => <<"new_handler", q, r, h>> \in Pending'
    BY <1>2, <1>5
  <2>2. /\ <<"remove_service", <<r, q>> >> \in Pending => <<"remove_service", <<r, q>> >> \in Pending'
        /\ <<"delete", <<r, q>> >> \in Pending => <<"delete", <<r, q>> >> \in Pending'
    BY <1>2, <1>5
  <2>3. <<r, q>> \in Services
    BY Named
  <2>4. CASE services'[<<r, q>>] = services[<<r, q>>]
    BY <1>4, <1>7, <2>1, <2>2, <2>4, StaysMatched
  <2>5. CASE services'[<<r, q>>] # services[<<r, q>>]
    <3>1. s = <<r, q>> /\ services'[<<r, q>>] = g
      BY <1>4, <2>3, <2>5
    <3>2. <<"add_service", <<r, q>>, g>> \in Pending
      BY <1>2, <1>5, <3>1
    <3>3. <<"new_handler", q, r, g>> \in Pending
      BY <1>2, <3>2 DEF ServiceInv, MadeTogether
    <3> QED BY <2>1, <3>1, <3>3 DEF Matched
  <2> QED BY <2>4, <2>5
<1> QED BY <1>4, <1>6, <1>7 DEF ServiceInv

LEMMA RemoveServiceKeepsServices ==
  ASSUME TypeOK, Sorted(todo), ServiceInv, RemoveService
  PROVE  ServiceInv'
<1>1. PICK s : s = Head(todo)[2]
  OBVIOUS
<1> DEFINE C == IF services[s] = 0 THEN {}
                ELSE {<<"withdraw", b, s>> : b \in bridge_map} \cup {<<"delete", s>>}
<1>2. Head(todo) = <<"remove_service", s>> /\ s \in Services /\ Does(C)
  BY <1>1, RemoveServiceDoes
<1>3. /\ \A e \in C : e[1] \in {"withdraw", "delete"}
      /\ services[s] = 0 \/ <<"delete", s>> \in C
  OBVIOUS
<1> HIDE DEF C
<1>4. UNCHANGED <<services, handlers, left>>
  BY DEF RemoveService, servicevars, devicevars
<1>5. Pending = {Head(todo)} \cup Rest /\ Pending' = C \cup Rest
  BY <1>2 DEF Does
<1>6. MadeTogether'
  <2>1. Head(todo)[1] # "new_handler"
    BY <1>2
  <2>2. \A q \in Providers, r \in Owners : handlers'[q][r] \in {0, handlers[q][r]}
    BY <1>4
  <2>3. \A e \in C : e[1] \notin {"add_service", "new_handler"}
    BY <1>3
  <2> QED BY <1>2, <2>1, <2>2, <2>3, TogetherRuns DEF ServiceInv
<1>7. ASSUME NEW q \in Providers, NEW r \in Owners, Matched(q, r)
      PROVE  Matched(q, r)'
  <2>1. /\ \A h : <<"new_handler", q, r, h>> \in Pending => <<"new_handler", q, r, h>> \in Pending'
        /\ <<"delete", <<r, q>> >> \in Pending => <<"delete", <<r, q>> >> \in Pending'
    BY <1>2, <1>5
  <2>2. CASE s = <<r, q>>
    BY <1>3, <1>4, <1>5, <2>2 DEF Matched
  <2>3. CASE s # <<r, q>>
    <3>1. <<"remove_service", <<r, q>> >> \in Pending => <<"remove_service", <<r, q>> >> \in Pending'
      BY <1>2, <1>5, <2>3
    <3> QED BY <1>4, <1>7, <2>1, <3>1, StaysMatched
  <2> QED BY <2>2, <2>3
<1> QED BY <1>4, <1>6, <1>7 DEF ServiceInv

LEMMA DeleteKeepsServices ==
  ASSUME TypeOK, Sorted(todo), ServiceInv, Delete
  PROVE  ServiceInv'
<1>1. PICK s : s = Head(todo)[2]
  OBVIOUS
<1>2. Head(todo) = <<"delete", s>> /\ s \in Services /\ Does({})
  BY <1>1, DeleteDoes
<1>3. /\ UNCHANGED <<handlers, left>>
      /\ \A t \in Services : services'[t] = IF t = s THEN 0 ELSE services[t]
  BY <1>1, <1>2 DEF Delete, devicevars, TypeOK
<1>4. Pending = {Head(todo)} \cup Rest /\ Pending' = Rest
  BY <1>2 DEF Does
<1>5. MadeTogether'
  <2>1. Head(todo)[1] # "new_handler"
    BY <1>2
  <2> QED BY <1>2, <1>3, <2>1, TogetherRuns DEF ServiceInv
<1>6. ASSUME NEW q \in Providers, NEW r \in Owners, Matched(q, r)
      PROVE  Matched(q, r)'
  <2>1. /\ \A h : <<"new_handler", q, r, h>> \in Pending => <<"new_handler", q, r, h>> \in Pending'
        /\ <<"remove_service", <<r, q>> >> \in Pending => <<"remove_service", <<r, q>> >> \in Pending'
        /\ <<r, q>> \in Services
    BY <1>2, <1>4, Named
  <2>2. CASE s = <<r, q>>
    BY <1>3, <2>1, <2>2 DEF Matched
  <2>3. CASE s # <<r, q>>
    <3>1. <<"delete", <<r, q>> >> \in Pending => <<"delete", <<r, q>> >> \in Pending'
      BY <1>2, <1>4, <2>3
    <3> QED BY <1>3, <1>6, <2>1, <2>3, <3>1, StaysMatched
  <2> QED BY <2>2, <2>3
<1> QED BY <1>3, <1>5, <1>6 DEF ServiceInv

LEMMA UnloadedKeepsServices ==
  ASSUME TypeOK, Sorted(todo), LeavingInv, ServiceInv, Unloaded
  PROVE  ServiceInv'
<1>1. PICK o : o = Head(todo)[2]
  OBVIOUS
<1>2. Head(todo) = <<"unloaded", o>> /\ o \in Owners /\ Does({})
  BY <1>1, UnloadedDoes
<1>3. UNCHANGED <<services, handlers>> /\ left' = left \ {o}
  BY <1>1 DEF Unloaded, servicevars, devicevars
<1>4. \A s \in Services : s[1] = o => services[s] = 0
  BY <1>2, NothingLeft DEF Does
<1>5. Pending = {Head(todo)} \cup Rest /\ Pending' = Rest
  BY <1>2 DEF Does
<1>6. MadeTogether'
  <2>1. Head(todo)[1] # "new_handler"
    BY <1>2
  <2> QED BY <1>2, <1>3, <2>1, TogetherRuns DEF ServiceInv
<1>7. ASSUME NEW q \in Providers, NEW r \in Owners, r # o, Matched(q, r)
      PROVE  Matched(q, r)'
  <2>1. /\ \A h : <<"new_handler", q, r, h>> \in Pending => <<"new_handler", q, r, h>> \in Pending'
        /\ <<"remove_service", <<r, q>> >> \in Pending => <<"remove_service", <<r, q>> >> \in Pending'
        /\ <<"delete", <<r, q>> >> \in Pending => <<"delete", <<r, q>> >> \in Pending'
    BY <1>2, <1>5
  <2> QED BY <1>3, <1>7, <2>1, StaysMatched
<1>8. \A q \in Providers : Matched(q, o)'
  <2>1. \A q \in Providers : services[<<o, q>>] = 0
    BY <1>2, <1>4, Named
  <2> QED BY <1>3, <2>1 DEF Matched
<1> QED BY <1>3, <1>6, <1>7, <1>8 DEF ServiceInv

LEMMA StepKeepsServices ==
  ASSUME TypeOK, Sorted(todo), LeavingInv, ServiceInv,
         GoesOn, NEW C, Runs(C)
  PROVE  ServiceInv'
<1> DEFINE op == Head(todo)[1]
<1>1. CASE op \in {"notify_add", "new_handler", "delete_handler", "add_service"}
  BY <1>1, HeadSays, NotifyKeepsServices, NewHandlerKeepsServices, DeleteHandlerKeepsServices,
     AddServiceKeepsServices
<1>2. CASE op \in {"delete", "remove_service", "unloaded"}
  BY <1>2, HeadSays, DeleteKeepsServices, RemoveServiceKeepsServices, UnloadedKeepsServices
<1> QED BY <1>1, <1>2, ServicesRun

LEMMA FailureKeepsServices ==
  ASSUME TypeOK, ServiceInv, Fails
  PROVE  ServiceInv'
<1>1. /\ UNCHANGED <<services, handlers>> /\ left \subseteq left'
      /\ \A e \in Pending : e[1] = "new_handler" => OwnerOf(e) \in left'
      /\ \A e \in Pending : e[1] \notin {"remove_service", "delete"}
      /\ \A e \in Pending : e[1] = "add_service" => e[2][2] \notin Providers
      /\ Pending' = Exit \/ Pending' \subseteq Pending
  BY DEF Fails, Making
<1>2. \A p, o, g : <<"new_handler", p, o, g>> \in Pending => o \in left'
  BY <1>1 DEF OwnerOf
<1>3. \A e \in Pending' : e[1] \in {"add_service", "new_handler"} => e \in Pending
  BY <1>1 DEF Exit
<1>4. MadeTogether'
  <2>1. \A p \in Providers, o \in Owners, g \in Objects : <<"add_service", <<o, p>>, g>> \notin Pending'
    BY <1>1, <1>3
  <2>2. \A p, o, g : <<"new_handler", p, o, g>> \in Pending' => <<"new_handler", p, o, g>> \in Pending
    BY <1>3
  <2> QED BY <1>1, <2>1, <2>2 DEF ServiceInv, MadeTogether
<1>5. \A p \in Providers, o \in Owners \ left' : services[<<o, p>>] \in {0, handlers[p][o]}
  <2>1. \A t : <<"remove_service", t>> \notin Pending /\ <<"delete", t>> \notin Pending
    BY <1>1
  <2> QED BY <1>1, <1>2, <2>1 DEF ServiceInv, Matched
<1>6. \A p \in Providers, o \in Owners \ left' : Matched(p, o)'
  BY <1>1, <1>5 DEF Matched
<1> QED BY <1>4, <1>6 DEF ServiceInv

LEMMA CallKeepsServices ==
  ASSUME TypeOK, Sorted(todo), ServiceInv, Call
  PROVE  ServiceInv'
<1>1. CASE ConfigFails
  BY <1>1, Failing, FailureKeepsServices
<1>2. ASSUME NEW C, Starts(C), UNCHANGED <<services, handlers>>, left \subseteq left',
             \A e \in C : /\ e[1] # "new_handler"
                          /\ e[1] = "add_service" => e[2][2] = "own"
      PROVE  ServiceInv'
  <2>1. Pending = {} /\ Pending' = C
    BY <1>2 DEF Starts
  <2>2. MadeTogether'
    <3>1. \A p \in Providers, o \in Owners, g \in Objects : <<"add_service", <<o, p>>, g>> \notin C
      BY <1>2, OwnIsOwn
    <3> QED BY <1>2, <2>1, <3>1 DEF MadeTogether
  <2>3. \A p \in Providers, o \in Owners \ left' : Matched(p, o)'
    BY <1>2, <2>1 DEF ServiceInv, Matched
  <2> QED BY <2>2, <2>3 DEF ServiceInv
<1>3. CASE Shutdown
  <2>1. Starts(Exit) /\ UNCHANGED <<services, handlers, left>>
    BY <1>3, ShutdownStarts DEF Shutdown, servicevars, devicevars
  <2>2. \A e \in Exit : e[1] \notin {"new_handler", "add_service"}
    BY DEF Exit
  <2> QED BY <1>2, <2>1, <2>2
<1>4. ASSUME NEW o \in Owners, NEW end \in {<<>>, << <<"catch">> >>}, load_module(o, end)
      PROVE  ServiceInv'
  <2>0. PICK g : g = objects'
    OBVIOUS
  <2> DEFINE C == Given(o, g) \cup {<<"configure", o>>, <<"add_service", <<o, "own">>, g>>,
                                     <<"loaded", o, g>>} \cup ToSet(end)
  <2>1. Starts(C)
    BY <1>4, <2>0, LoadStarts
  <2>2. UNCHANGED <<services, handlers>> /\ left \subseteq left'
    BY <1>4 DEF load_module, servicevars, devicevars
  <2>3. ToSet(end) \subseteq {<<"catch">>}
    BY Nothing, Single, Made
  <2>4. \A e \in C : e[1] # "new_handler" /\ (e[1] = "add_service" => e[2][2] = "own")
    BY <2>3 DEF Given
  <2> HIDE DEF C
  <2> QED BY <1>2, <2>1, <2>2, <2>4
<1>5. ASSUME NEW o \in Owners, svc_reconfigure_module(o)
      PROVE  ServiceInv'
  <2>0. PICK g : g = objects'
    OBVIOUS
  <2> DEFINE C == Taken(o) \cup Given(o, g)
                  \cup {<<"configure", o>>, <<"reconfigured", o, g>>, <<"catch">>}
  <2>1. Starts(C)
    BY <1>5, <2>0, ReconfigureStarts
  <2>2. UNCHANGED <<services, handlers>> /\ left \subseteq left'
    BY <1>5 DEF svc_reconfigure_module, servicevars, devicevars
  <2>3. \A e \in C : e[1] \notin {"new_handler", "add_service"}
    BY DEF Given, Taken
  <2> HIDE DEF C
  <2> QED BY <1>2, <2>1, <2>2, <2>3
<1>6. ASSUME NEW C, Begins(C)
      PROVE  ServiceInv'
  <2>1. \A e \in C : e[1] # "new_handler" /\ (e[1] = "add_service" => e[2][2] = "own")
    BY <1>6 DEF Begins
  <2>2. Starts(C) /\ UNCHANGED <<services, handlers>> /\ left \subseteq left'
    BY <1>6 DEF Begins
  <2> QED BY <1>2, <2>1, <2>2
<1> QED BY <1>1, <1>3, <1>4, <1>5, <1>6, CallBegins

-----------------------------------------------------------------------------
(* The end of the program. *)

(* At the end nothing is added any more, and everything is on its way out. *)
ExitInv ==
  phase = "stopped" =>
    /\ \A e \in Pending : e[1] \notin Brings \cup {"offer"}
    /\ \A s \in Services : services[s] # 0 =>
         <<"remove_service", s>> \in Pending \/ <<"delete", s>> \in Pending
    /\ \A o \in Owners : object[o] # 0 => <<"unload", o>> \in Pending
    /\ bridge_map # {} => <<"remove_bridges">> \in Pending
    /\ \A p \in dl_map \cap Providers :
         <<"remove_listener", p>> \in Pending \/ <<"erase_listener", p>> \in Pending

(* A shared object that is open is of a module that is there, that goes or *)
(* that comes.                                                             *)
Used(o) == object[o] # 0 \/ <<"unloaded", o>> \in Pending \/ Loading(o)
LoadInv == DoNotUnload \/ \A o \in loaded : Used(o)

LEMMA AtTheEnd ==
  ASSUME Pending' = Exit, UNCHANGED <<services, object, bridge_map, dl_map>>
  PROVE  ExitInv'
<1>1. \A e \in Exit : e[1] \notin Brings \cup {"offer"}
  BY DEF Exit, Brings
<1> QED BY <1>1 DEF ExitInv, Exit

LEMMA StepKeepsExit ==
  ASSUME TypeOK, Sorted(todo), ExitInv, GoesOn, NEW C, Runs(C)
  PROVE  ExitInv'
<1> SUFFICES ASSUME phase' = "stopped"
             PROVE  ExitInv'
  BY DEF ExitInv
<1> DEFINE op == Head(todo)[1]
<1>1. /\ Does(C) /\ Pending = {Head(todo)} \cup Rest /\ Pending' = C \cup Rest
      /\ phase = "stopped"
  BY DEF Runs, Does, Keeps
<1>2. op \notin Brings \cup {"offer"} /\ \A e \in Rest : e[1] \notin Brings \cup {"offer"}
  BY <1>1 DEF ExitInv
<1>3. op \notin {"add_service", "add_device", "notify_add", "loaded", "new_handler", "configure",
                 "reconfigured", "offer"}
  BY <1>2 DEF Brings
<1>4. \A e \in C : e[1] \notin Brings \cup {"offer"}
  BY <1>3 DEF Runs, Follows, Brings
<1>5. \A e \in Pending' : e[1] \notin Brings \cup {"offer"}
  BY <1>1, <1>2, <1>4
<1>6. ASSUME NEW s \in Services, services'[s] # 0
      PROVE  <<"remove_service", s>> \in Pending' \/ <<"delete", s>> \in Pending'
  <2>1. CASE op = "delete"
    <3>1. PICK t : t = Head(todo)[2]
      OBVIOUS
    <3>2. Delete
      BY <2>1, HeadSays
    <3>3. Head(todo) = <<"delete", t>> /\ services' = [services EXCEPT ![t] = 0]
      BY <3>1, <3>2, DeleteDoes DEF Delete
    <3>4. s # t /\ services[s] # 0
      BY <1>6, <3>3 DEF TypeOK
    <3>5. <<"remove_service", s>> # Head(todo) /\ <<"delete", s>> # Head(todo)
      BY <3>3, <3>4
    <3> QED BY <1>1, <3>4, <3>5 DEF ExitInv
  <2>2. CASE op = "remove_service"
    <3>1. PICK t : t = Head(todo)[2]
      OBVIOUS
    <3>2. RemoveService
      BY <2>2, HeadSays
    <3> DEFINE D == IF services[t] = 0 THEN {}
                    ELSE {<<"withdraw", b, t>> : b \in bridge_map} \cup {<<"delete", t>>}
    <3>3. Head(todo) = <<"remove_service", t>> /\ Does(D) /\ UNCHANGED services
      BY <3>1, <3>2, RemoveServiceDoes DEF RemoveService, servicevars
    <3>4. services[t] = 0 \/ <<"delete", t>> \in D
      OBVIOUS
    <3> HIDE DEF D
    <3>5. services[t] = 0 \/ <<"delete", t>> \in Pending'
      BY <3>3, <3>4 DEF Does
    <3>6. CASE s = t
      BY <1>6, <3>3, <3>5, <3>6
    <3>7. CASE s # t
      <4>1. <<"remove_service", s>> # Head(todo) /\ <<"delete", s>> # Head(todo)
        BY <3>3, <3>7
      <4> QED BY <1>1, <1>6, <3>3, <4>1 DEF ExitInv
    <3> QED BY <3>6, <3>7
  <2>3. CASE op \notin {"delete", "remove_service"}
    <3>1. UNCHANGED services
      BY <1>3, <2>3 DEF Runs, Keeps
    <3>2. <<"remove_service", s>> # Head(todo) /\ <<"delete", s>> # Head(todo)
      BY <2>3
    <3> QED BY <1>1, <1>6, <3>1, <3>2 DEF ExitInv
  <2> QED BY <2>1, <2>2, <2>3
<1>7. ASSUME NEW o \in Owners, object'[o] # 0
      PROVE  <<"unload", o>> \in Pending'
  <2>1. object[o] # 0 /\ <<"unload", o>> # Head(todo)
    <3>1. CASE op = "unload"
      <4>1. Unload
        BY <3>1, HeadSays
      <4>2. /\ object' = [object EXCEPT ![Head(todo)[2]] = 0]
            /\ Head(todo) = <<"unload", Head(todo)[2]>>
        BY <4>1, UnloadDoes DEF Unload
      <4>3. o # Head(todo)[2] /\ object[o] # 0
        BY <1>7, <4>2 DEF TypeOK
      <4> QED BY <4>3
    <3>2. CASE op # "unload"
      BY <1>3, <1>7, <3>2 DEF Runs, Keeps
    <3> QED BY <3>1, <3>2
  <2> QED BY <1>1, <2>1 DEF ExitInv
<1>8. bridge_map' # {} => <<"remove_bridges">> \in Pending'
  <2>1. CASE op = "remove_bridges"
    <3>1. RemoveBridges
      BY <2>1, HeadSays
    <3> QED BY <3>1 DEF RemoveBridges
  <2>2. CASE op # "remove_bridges"
    <3>1. UNCHANGED bridge_map /\ <<"remove_bridges">> # Head(todo)
      BY <2>2 DEF Runs, Keeps
    <3> QED BY <1>1, <3>1 DEF ExitInv
  <2> QED BY <2>1, <2>2
<1>9. ASSUME NEW p \in dl_map' \cap Providers
      PROVE  <<"remove_listener", p>> \in Pending' \/ <<"erase_listener", p>> \in Pending'
  <2>1. CASE op = "erase_listener"
    <3>1. EraseListener
      BY <2>1, HeadSays
    <3>2. dl_map' = dl_map \ {Head(todo)[2]}
      BY <3>1 DEF EraseListener
    <3>3. <<"remove_listener", p>> # Head(todo) /\ <<"erase_listener", p>> # Head(todo)
      BY <2>1, <3>2
    <3> QED BY <1>1, <3>2, <3>3 DEF ExitInv
  <2>2. CASE op = "remove_listener"
    <3>1. PICK l : l = Head(todo)[2]
      OBVIOUS
    <3>2. RemoveListener
      BY <2>2, HeadSays
    <3> DEFINE D == {<<"notify_remove", l, d, device_map[d]>> : d \in Registered}
                    \cup {<<"erase_listener", l>>}
    <3>3. Head(todo) = <<"remove_listener", l>> /\ Does(D)
      BY <3>1, <3>2, RemoveListenerDoes
    <3>4. <<"erase_listener", l>> \in D
      OBVIOUS
    <3> HIDE DEF D
    <3>5. <<"erase_listener", l>> \in Pending' /\ UNCHANGED dl_map
      BY <2>2, <3>3, <3>4 DEF Does, Runs, Keeps
    <3>6. p # l => <<"remove_listener", p>> # Head(todo) /\ <<"erase_listener", p>> # Head(todo)
      BY <3>3
    <3> QED BY <1>1, <3>5, <3>6 DEF ExitInv
  <2>3. CASE op \notin {"erase_listener", "remove_listener"}
    <3>1. UNCHANGED dl_map /\ <<"remove_listener", p>> # Head(todo)
          /\ <<"erase_listener", p>> # Head(todo)
      BY <2>3 DEF Runs, Keeps
    <3> QED BY <1>1, <3>1 DEF ExitInv
  <2> QED BY <2>1, <2>2, <2>3
<1> QED BY <1>5, <1>6, <1>7, <1>8, <1>9 DEF ExitInv

LEMMA FailureKeepsExit ==
  ASSUME ExitInv, Fails
  PROVE  ExitInv'
<1>1. phase # "stopped"
  BY DEF Fails, ExitInv, Brings
<1>2. CASE phase' = "stopped"
  <2>1. Pending' = Exit
    BY <1>1, <1>2 DEF Fails, Throws, Catches, GivesUp
  <2>2. UNCHANGED <<services, object, bridge_map, dl_map>>
    BY DEF Fails
  <2> QED BY <2>1, <2>2, AtTheEnd
<1>3. CASE phase' # "stopped"
  BY <1>3 DEF ExitInv
<1> QED BY <1>2, <1>3

LEMMA CallKeepsExit ==
  ASSUME TypeOK, Sorted(todo), ExitInv, Call
  PROVE  ExitInv'
<1>1. CASE ConfigFails
  BY <1>1, Failing, FailureKeepsExit
<1>2. CASE Shutdown
  <2>1. Pending' = Exit /\ UNCHANGED <<services, object, bridge_map, dl_map>>
    BY <1>2, ShutdownStarts DEF Shutdown, Starts, servicevars, devicevars
  <2> QED BY <2>1, AtTheEnd
<1>3. CASE phase' # "stopped"
  BY <1>3 DEF ExitInv
<1>4. ASSUME NEW o, NEW end, load_module(o, end), phase \in {"modules", "running"}
      PROVE  phase' # "stopped"
  BY <1>4 DEF load_module
<1>5. ASSUME NEW o, svc_reconfigure_module(o)
      PROVE  phase' # "stopped"
  BY <1>5 DEF svc_reconfigure_module
<1>6. ASSUME NEW C, Begins(C)
      PROVE  phase' # "stopped"
  BY <1>6 DEF Begins
<1> QED BY <1>1, <1>2, <1>3, <1>4, <1>5, <1>6, CallBegins

-----------------------------------------------------------------------------
LEMMA StepKeepsLoad ==
  ASSUME TypeOK, Sorted(todo), LoadInv, GoesOn, NEW C, Runs(C)
  PROVE  LoadInv'
<1> SUFFICES ASSUME ~DoNotUnload, NEW o \in loaded'
             PROVE  Used(o)'
  BY DEF LoadInv
<1> DEFINE op == Head(todo)[1]
<1>1. Does(C) /\ Pending = {Head(todo)} \cup Rest /\ Pending' = C \cup Rest
  BY DEF Runs, Does
<1>2. CASE op = "loaded"
  <2>1. PICK q, g : q = Head(todo)[2] /\ g = Head(todo)[3]
    OBVIOUS
  <2>2. Loaded
    BY <1>2, HeadSays
  <2>3. Head(todo) = <<"loaded", q, g>> /\ q \in Owners /\ g \in Objects
    BY <2>1, <2>2, LoadedDoes
  <2>4. /\ UNCHANGED loaded /\ o \in Owners
        /\ \A r \in Owners : object'[r] = IF r = q THEN g ELSE object[r]
    BY <2>1, <2>2, <2>3 DEF Loaded, TypeOK
  <2>5. Used(o)
    BY <2>4 DEF LoadInv
  <2>6. CASE o = q
    BY <2>3, <2>4, <2>6 DEF Used, Objects
  <2>7. CASE o # q
    <3>1. /\ <<"unloaded", o>> # Head(todo)
          /\ \A h : <<"loaded", o, h>> # Head(todo)
      BY <2>3, <2>7
    <3>2. Loading(o) => Loading(o)'
      BY <1>1, <3>1 DEF Loading
    <3> QED BY <1>1, <2>4, <2>5, <2>7, <3>1, <3>2 DEF Used
  <2> QED BY <2>6, <2>7
<1>3. CASE op = "unload"
  <2>1. PICK q : q = Head(todo)[2]
    OBVIOUS
  <2>2. Unload
    BY <1>3, HeadSays
  <2> DEFINE D == Taken(q) \cup {<<"remove_devices", q>>, <<"remove_services", q>>, <<"unloaded", q>>}
  <2>3. Head(todo) = <<"unload", q>> /\ q \in Owners /\ Does(D)
    BY <2>1, <2>2, UnloadDoes
  <2>4. <<"unloaded", q>> \in Pending'
    BY <2>3 DEF Does
  <2> HIDE DEF D
  <2>5. /\ UNCHANGED loaded /\ o \in Owners
        /\ \A r \in Owners : object'[r] = IF r = q THEN 0 ELSE object[r]
    BY <2>1, <2>2, <2>3 DEF Unload, TypeOK
  <2>6. Used(o)
    BY <2>5 DEF LoadInv
  <2>7. Loading(o) => Loading(o)'
    BY <1>1, <1>3 DEF Loading
  <2>8. <<"unloaded", o>> \in Pending => <<"unloaded", o>> \in Pending'
    BY <1>1, <1>3
  <2> QED BY <2>4, <2>5, <2>6, <2>7, <2>8 DEF Used
<1>4. CASE op = "unloaded"
  <2>1. PICK q : q = Head(todo)[2]
    OBVIOUS
  <2>2. Unloaded
    BY <1>4, HeadSays
  <2>3. /\ Head(todo) = <<"unloaded", q>> /\ UNCHANGED object
        /\ loaded' = loaded \ {q}
    BY <2>1, <2>2, UnloadedDoes DEF Unloaded, Close
  <2>4. o # q /\ Used(o)
    BY <2>3 DEF LoadInv
  <2>5. Loading(o) => Loading(o)'
    BY <1>1, <1>4 DEF Loading
  <2>6. <<"unloaded", o>> \in Pending => <<"unloaded", o>> \in Pending'
    BY <1>1, <2>3, <2>4
  <2> QED BY <2>3, <2>4, <2>5, <2>6 DEF Used
<1>5. CASE op \notin {"loaded", "unload", "unloaded"}
  <2>1. UNCHANGED <<object, loaded>>
    BY <1>5 DEF Runs, Keeps
  <2>2. Used(o)
    BY <2>1 DEF LoadInv
  <2>3. Loading(o) => Loading(o)'
    BY <1>1, <1>5 DEF Loading
  <2>4. <<"unloaded", o>> \in Pending => <<"unloaded", o>> \in Pending'
    BY <1>1, <1>5
  <2> QED BY <2>1, <2>2, <2>3, <2>4 DEF Used
<1> QED BY <1>2, <1>3, <1>4, <1>5

(* The code of a module whose loading a failure ends is closed. *)
LEMMA FailureKeepsLoad ==
  ASSUME TypeOK, LoadInv, Fails
  PROVE  LoadInv'
<1> SUFFICES ASSUME ~DoNotUnload, NEW o \in loaded'
             PROVE  Used(o)'
  BY DEF LoadInv
<1>1. Throws /\ UNCHANGED object /\ \A e \in Pending : e[1] # "unloaded"
  BY DEF Fails, Making
<1>2. /\ Len(todo) \in Nat /\ Pending = {todo[i] : i \in 1 .. Len(todo)}
  BY ElementsOf, LenProperties DEF TypeOK, Pending
<1>3. PICK n \in 0 .. Len(todo) :
        /\ Close(Lost(n))
        /\ n = Len(todo) \/ Pending' = {todo[i] : i \in n + 1 .. Len(todo)}
  BY <1>1, <1>2 DEF Throws, Catches, GivesUp
<1>4. o \in loaded /\ o \notin Lost(n)
  BY <1>3 DEF Close
<1>5. Used(o) /\ <<"unloaded", o>> \notin Pending
  BY <1>1, <1>4 DEF LoadInv
<1>6. ASSUME Loading(o)
      PROVE  Loading(o)'
  <2>1. PICK g \in Objects : <<"loaded", o, g>> \in Pending
    BY <1>6 DEF Loading
  <2>2. PICK i \in 1 .. Len(todo) : todo[i] = <<"loaded", o, g>>
    BY <1>2, <2>1
  <2>3. ~(i <= n)
    <3> SUFFICES ASSUME i <= n PROVE FALSE
      OBVIOUS
    <3>1. i \in 1 .. n /\ todo[i][1] = "loaded" /\ todo[i][2] = o
      BY <1>2, <1>3, <2>2
    <3> QED BY <1>4, <3>1 DEF Lost
  <2>4. i \in n + 1 .. Len(todo) /\ n # Len(todo)
    BY <1>2, <1>3, <2>3
  <2>5. <<"loaded", o, g>> \in Pending'
    BY <1>3, <2>2, <2>4
  <2> QED BY <2>5 DEF Loading
<1> QED BY <1>1, <1>5, <1>6 DEF Used

LEMMA CallKeepsLoad ==
  ASSUME TypeOK, Sorted(todo), LoadInv, Call
  PROVE  LoadInv'
<1>1. CASE ConfigFails
  BY <1>1, Failing, FailureKeepsLoad
<1>2. ASSUME todo = <<>>, UNCHANGED <<object, loaded>>
      PROVE  LoadInv'
  <2>1. Pending = {}
    BY <1>2, Nothing DEF Pending
  <2>2. \A o : Used(o) => Used(o)'
    BY <1>2, <2>1 DEF Used, Loading
  <2> QED BY <1>2, <2>2 DEF LoadInv
<1>3. CASE Shutdown
  BY <1>2, <1>3 DEF Shutdown, Idle
<1>4. ASSUME NEW o \in Owners, NEW end \in {<<>>, << <<"catch">> >>}, load_module(o, end)
      PROVE  LoadInv'
  <2>0. PICK g : g = objects'
    OBVIOUS
  <2> DEFINE C == Given(o, g) \cup {<<"configure", o>>, <<"add_service", <<o, "own">>, g>>,
                                     <<"loaded", o, g>>} \cup ToSet(end)
  <2>1. Pending = {} /\ Pending' = C /\ g \in Objects
    BY <1>4, <2>0, LoadStarts DEF Starts
  <2>2. <<"loaded", o, g>> \in Pending'
    BY <2>1
  <2> HIDE DEF C
  <2>3. UNCHANGED object /\ loaded' = loaded \cup {o}
    BY <1>4 DEF load_module, Open
  <2>4. Used(o)'
    BY <2>1, <2>2 DEF Used, Loading
  <2>5. \A q : Used(q) => Used(q)'
    BY <2>1, <2>3 DEF Used, Loading
  <2> QED BY <2>3, <2>4, <2>5 DEF LoadInv
<1>5. ASSUME NEW o, svc_reconfigure_module(o)
      PROVE  LoadInv'
  BY <1>2, <1>5 DEF svc_reconfigure_module, Idle
<1>6. ASSUME NEW C, Begins(C)
      PROVE  LoadInv'
  BY <1>2, <1>6 DEF Begins, Starts
<1> QED BY <1>1, <1>3, <1>4, <1>5, <1>6, CallBegins

-----------------------------------------------------------------------------
(* Together. *)

PresentInv == MakeInv /\ DeviceInv /\ OwnInv /\ ServiceInv /\ ExitInv /\ LoadInv

LEMMA NextKeepsPresent ==
  ASSUME TypeOK, Sorted(todo), LeavingInv, PresentInv, Next
  PROVE  PresentInv'
<1>1. CASE Call
  BY <1>1, CallKeepsMaking, CallKeepsDevices, CallKeepsOwn, CallKeepsServices, CallKeepsExit,
     CallKeepsLoad DEF PresentInv
<1>2. CASE DeviceStep \/ ServiceStep \/ ModuleStep
  <2>1. Fails \/ (~ConfigureFails /\ \E C : Runs(C))
    BY <1>2, DeviceStepRuns, ServiceStepRuns, ModuleStepRuns, Failing
  <2>2. CASE Fails
    BY <2>2, FailureKeepsMaking, FailureKeepsDevices, FailureKeepsOwn, FailureKeepsServices,
       FailureKeepsExit, FailureKeepsLoad DEF PresentInv
  <2>3. ASSUME NEW C, Runs(C), ~ConfigureFails
        PROVE  PresentInv'
    BY <1>2, <2>3, StepKeepsMaking, StepKeepsDevices, StepKeepsOwn, StepKeepsServices,
       StepKeepsExit, StepKeepsLoad DEF PresentInv, GoesOn
  <2> QED BY <2>1, <2>2, <2>3
<1> QED BY <1>1, <1>2 DEF Next

LEMMA InitPresent ==
  ASSUME Init
  PROVE  PresentInv
<1>1. /\ Pending = {} /\ loaded = {} /\ phase # "stopped"
      /\ \A d \in Devices : device_map[d] = 0
      /\ \A s \in Services : services[s] = 0
      /\ \A o \in Owners : object[o] = 0 /\ mod_handle[o] = 0
  BY InitOrdered DEF Init, None
<1>2. MakeInv /\ DeviceInv
  BY <1>1 DEF MakeInv, HandleInv, ComingInv, AddedInv, DeviceInv
<1>3. OwnInv
  BY <1>1, Named DEF OwnInv, AddsOwn, OwnThere, OwnGone, Own
<1>4. ServiceInv
  BY <1>1, Named DEF ServiceInv, MadeTogether, Matched
<1>5. ExitInv /\ LoadInv
  BY <1>1 DEF ExitInv, LoadInv
<1> QED BY <1>2, <1>3, <1>4, <1>5 DEF PresentInv

LEMMA OrderAndPresent == Spec => [](Ordered /\ PresentInv)
<1>1. Init => PresentInv
  BY InitPresent
<1>2. Ordered /\ CodeInv /\ PresentInv /\ [Next]_vars => PresentInv'
  <2> SUFFICES ASSUME Ordered, CodeInv, PresentInv, [Next]_vars PROVE PresentInv'
    OBVIOUS
  <2>1. TypeOK /\ Sorted(todo) /\ LeavingInv
    BY DEF Ordered, CodeInv
  <2>2. CASE Next
    BY <2>1, <2>2, NextKeepsPresent
  <2>3. CASE UNCHANGED vars
    <3>1. /\ UNCHANGED <<object, mod_handle, loaded, phase, services, bridge_map, device_map,
                         dl_map, handlers, left, todo>>
          /\ Pending' = Pending
      BY <2>3 DEF Pending, vars, modulevars, servicevars, devicevars
    <3>2. MakeInv' /\ DeviceInv'
      BY <3>1 DEF PresentInv, MakeInv, HandleInv, ComingInv, AddedInv, DeviceInv, InPlace,
                  Coming, Leaving
    <3>3. OwnInv' /\ ServiceInv'
      BY <3>1 DEF PresentInv, OwnInv, AddsOwn, OwnThere, OwnGone, Own, Loading, ServiceInv,
                  MadeTogether, Matched
    <3>4. ExitInv' /\ LoadInv'
      BY <3>1 DEF PresentInv, ExitInv, LoadInv, Used, Loading
    <3> QED BY <3>2, <3>3, <3>4 DEF PresentInv
  <2> QED BY <2>2, <2>3
<1> QED BY <1>1, <1>2, OrderAndCode, PTL DEF Spec

(* Between calls whatever is registered under the name of a module - its   *)
(* services, its devices, the handlers made for its interface - is of the  *)
(* object and the handle that are there now, unless a failure has left     *)
(* something; and the end of the program leaves nothing, also when         *)
(* kernel::config fails at any point (load_module, ~module, ~kernel,       *)
(* reconfigure_module of kernel.cpp and module.cpp), for any modules,      *)
(* bridges, listeners and service providers, loaded and reconfigured any   *)
(* number of times.                                                        *)
THEOREM OnlyOfPresentModuleAlways == Spec => []OnlyOfPresentModule
<1>1. Ordered /\ ClockInv /\ HandlerInv /\ ListenInv /\ PresentInv => OnlyOfPresentModule
  <2> SUFFICES ASSUME TypeOK, ClockInv, HandlerInv, ListenInv, PresentInv, Idle
               PROVE  OnlyOfPresentModule
    BY DEF Ordered, OnlyOfPresentModule
  <2>1. Pending = {}
    BY Nothing DEF Idle, Pending
  <2>2. \A d \in Devices : d[2] # "trigger" /\ d[1] \notin left => device_map[d] \in {0, mod_handle[d[1]]}
    BY <2>1 DEF PresentInv, DeviceInv, InPlace, Coming, Leaving
  <2>3. ASSUME NEW d \in Devices, d[1] \notin left
        PROVE  device_map[d] \in {0, mod_handle[d[1]]}
    <3>1. CASE d[2] # "trigger"
      BY <2>2, <2>3, <3>1
    <3>2. CASE d[2] = "trigger"
      <4>1. CASE d \notin Addable
        BY <4>1 DEF TypeOK
      <4>2. CASE d \in Addable
        <5>1. d[1] \in Makers
          BY <3>2, <4>2, Named DEF Addable, Makers
        <5>2. d = OwnClock(d[1]) /\ device_map[Data(d[1])] = device_map[d]
          BY <2>1, <3>2, <5>1, Clocks, NoClocks
        <5>3. device_map[Data(d[1])] \in {0, mod_handle[d[1]]}
          BY <2>2, <2>3, <5>1, Clocks
        <5> QED BY <5>2, <5>3
      <4> QED BY <4>1, <4>2
    <3> QED BY <3>1, <3>2
  <2>4. ASSUME NEW o \in Owners \ left, NEW p \in Providers
        PROVE  handlers[p][o] \in {0, mod_handle[o]} /\ services[<<o, p>>] \in {0, handlers[p][o]}
    <3>1. handlers[p][o] \in {0, device_map[Face(o)]}
      BY <2>1 DEF ListenInv, ServeInv, Firm, Settled, InHand
    <3>2. device_map[Face(o)] \in {0, mod_handle[o]}
      BY <2>3, Faces
    <3>3. services[<<o, p>>] \in {0, handlers[p][o]}
      BY <2>1 DEF PresentInv, ServiceInv, Matched
    <3> QED BY <3>1, <3>2, <3>3
  <2>5. \A o \in Owners \ left : services[<<o, "own">>] = object[o]
    BY <2>1 DEF PresentInv, OwnInv, OwnThere, Own, Loading
  <2>6. ASSUME phase = "stopped"
        PROVE  /\ services = None(Services) /\ svc_module_list = {}
               /\ bridge_map = {} /\ dl_map \cap Providers = {}
               /\ \A p \in Providers : handlers[p] = None(Owners)
               /\ \A d \in svc_list_devices : d[1] \in left
               /\ DoNotUnload \/ loaded = {}
    <3>1. /\ \A s \in Services : services[s] = 0
          /\ \A o \in Owners : object[o] = 0
          /\ bridge_map = {} /\ dl_map \cap Providers = {}
      BY <2>1, <2>6 DEF PresentInv, ExitInv
    <3>2. services = None(Services)
      BY <3>1 DEF None, TypeOK
    <3>3. svc_module_list = {}
      BY <3>1 DEF svc_module_list
    <3>4. ASSUME NEW p \in Providers
          PROVE  handlers[p] = None(Owners)
      <4>1. \A o \in Owners : handlers[p][o] = 0
        BY <3>1 DEF HandlerInv
      <4> QED BY <4>1 DEF None, TypeOK
    <3>5. ASSUME NEW d \in Devices, device_map[d] # 0
          PROVE  d[1] \in left
      <4>1. d[1] \in Owners
        BY Named
      <4>2. mod_handle[d[1]] = 0
        BY <3>1, <4>1 DEF PresentInv, MakeInv, HandleInv
      <4> QED BY <2>3, <3>5, <4>2
    <3>6. DoNotUnload \/ loaded = {}
      BY <2>1, <3>1 DEF PresentInv, LoadInv, Used, Loading, TypeOK
    <3> QED BY <3>1, <3>2, <3>3, <3>4, <3>5, <3>6 DEF svc_list_devices
  <2>7. ASSUME NEW o \in Owners \ left, NEW p \in Providers
        PROVE  {services[<<o, p>>], handlers[p][o]} \subseteq {0, mod_handle[o]}
    BY <2>4
  <2>8. \A o \in Owners \ left : \A d \in Devices : d[1] = o => device_map[d] \in {0, mod_handle[o]}
    BY <2>3
  <2> QED BY <2>5, <2>6, <2>7, <2>8 DEF OnlyOfPresentModule
<1> QED BY <1>1, OrderAndListening, OrderAndPresent, PTL

-----------------------------------------------------------------------------
(* The clocks of other modules. *)

(* Removed are the devices of a module that has no handle any more. *)
Drops == {"remove_device", "erase", "remove_devices"}
DropInv == \A e \in Pending : e[1] \in Drops => mod_handle[OwnerOf(e)] = 0

(* No device is of an object yet to be made, and those of other modules    *)
(* are older than the one that is coming.                                  *)
AgeInv ==
  /\ \A d \in Devices : device_map[d] <= objects
  /\ \A d \in Devices, g \in Objects : <<"add_device", d, g>> \in Pending => g <= objects
  /\ \A o \in Owners, g \in Objects : Coming(o, g) =>
       \A d \in Devices : d[1] # o => device_map[d] < g

(* A process data has found its clock, which stays while the module of the *)
(* clock does; c is that module, and a its age.                            *)
Found(o, c) ==
  c \notin left /\ mod_handle[c] \in 1 .. device_map[Device(o, "pd")]
    => device_map[Device(c, "trigger")] = mod_handle[c]
FoundInv == \A o, c \in Owners : ClockOf[o] = c /\ c # o => Found(o, c)

AwayInv == DropInv /\ AgeInv /\ FoundInv

LEMMA DropRuns ==
  ASSUME TypeOK, Sorted(todo), DropInv, GoesOn, NEW C, Runs(C)
  PROVE  DropInv'
<1> DEFINE op == Head(todo)[1]
<1>1. /\ Pending = {Head(todo)} \cup Rest /\ Pending' = C \cup Rest /\ Head(todo) \in Entries
      /\ \A f \in Rest : f \in Entries /\ MayPrecede(Head(todo), f)
  BY DEF Runs, Does
<1>2. CASE op \in {"loaded", "reconfigured"}
  <2>1. \A f \in Rest : f[1] \notin Drops
    BY <1>1, <1>2 DEF MayPrecede, Drops, Removals, Dismissals, Releases
  <2>2. C = {}
    BY <1>2 DEF Runs, Follows
  <2> QED BY <1>1, <2>1, <2>2 DEF DropInv
<1>3. CASE op = "unload"
  <2>1. PICK o : o = Head(todo)[2]
    OBVIOUS
  <2>2. Unload
    BY <1>3, HeadSays
  <2>3. /\ Head(todo) = <<"unload", o>> /\ o \in Owners
        /\ Pending' = Taken(o) \cup {<<"remove_devices", o>>, <<"remove_services", o>>, <<"unloaded", o>>}
                      \cup Rest
    BY <2>1, <2>2, UnloadDoes DEF Does
  <2>4. \A q \in Owners : mod_handle'[q] = IF q = o THEN 0 ELSE mod_handle[q]
    BY <2>1, <2>2, <2>3 DEF Unload, TypeOK
  <2>5. ASSUME NEW e \in Taken(o)
        PROVE  OwnerOf(e) = o
    BY <2>5 DEF Taken, OwnerOf, Device
  <2>6. ASSUME NEW e \in Rest, e[1] \in Drops
        PROVE  OwnerOf(e) \in Owners /\ mod_handle[OwnerOf(e)] = 0
    <3>1. OwnerOf(e) \in Owners
      BY <1>1, <2>6, Shape, Named DEF Drops, OwnerOf
    <3> QED BY <1>1, <2>6, <3>1 DEF DropInv
  <2>7. ASSUME NEW e \in Pending', e[1] \in Drops
        PROVE  mod_handle'[OwnerOf(e)] = 0
    <3>1. CASE e \in Taken(o)
      BY <2>3, <2>4, <2>5, <3>1
    <3>2. CASE e \in Rest
      BY <2>4, <2>6, <2>7, <3>2
    <3>3. CASE e = <<"remove_devices", o>>
      BY <2>3, <2>4, <3>3 DEF OwnerOf
    <3>4. e \notin {<<"remove_services", o>>, <<"unloaded", o>>}
      BY <2>7 DEF Drops
    <3> QED BY <2>3, <2>7, <3>1, <3>2, <3>3, <3>4
  <2> QED BY <2>7 DEF DropInv, OwnerOf
<1>4. CASE op = "remove_device"
  <2>1. PICK d, g : d = Head(todo)[2] /\ g = Head(todo)[3]
    OBVIOUS
  <2>2. RemoveDevice
    BY <1>4, HeadSays
  <2>3. /\ Head(todo) = <<"remove_device", d, g>>
        /\ Pending' = TriggerToo("remove_device", d, g) \cup ToldTo("notify_remove", d, g)
                      \cup {<<"erase", d>>} \cup Rest
    BY <2>1, <2>2, RemoveDeviceDoes DEF Does
  <2>4. UNCHANGED mod_handle
    BY <2>2 DEF RemoveDevice, modulevars
  <2>5. mod_handle[d[1]] = 0
    BY <1>1, <2>3 DEF DropInv, Drops, OwnerOf
  <2>6. ASSUME NEW e \in Pending', e[1] \in Drops
        PROVE  mod_handle[OwnerOf(e)] = 0
    <3>1. CASE e \in TriggerToo("remove_device", d, g)
      <4>1. e = <<"remove_device", <<d[1], "trigger">>, g>>
        BY <3>1 DEF TriggerToo, Device
      <4> QED BY <2>5, <4>1 DEF OwnerOf
    <3>2. e \notin ToldTo("notify_remove", d, g)
      BY <2>6 DEF ToldTo, Drops
    <3>3. CASE e = <<"erase", d>>
      BY <2>5, <3>3 DEF OwnerOf
    <3>4. CASE e \in Rest
      BY <1>1, <2>6, <3>4 DEF DropInv
    <3> QED BY <2>3, <2>6, <3>1, <3>2, <3>3, <3>4
  <2> QED BY <2>4, <2>6 DEF DropInv, OwnerOf
<1>5. CASE op \notin {"loaded", "reconfigured", "unload", "remove_device"}
  <2>1. UNCHANGED mod_handle /\ \A e \in C : e[1] \notin Drops
    BY <1>5 DEF Runs, Keeps, Follows, Drops
  <2> QED BY <1>1, <2>1 DEF DropInv, OwnerOf
<1> QED BY <1>2, <1>3, <1>4, <1>5

LEMMA DropFails ==
  ASSUME DropInv, Fails
  PROVE  DropInv'
<1>1. UNCHANGED mod_handle /\ (Pending' = Exit \/ Pending' \subseteq Pending)
  BY DEF Fails
<1>2. \A e \in Exit : e[1] \notin Drops
  BY DEF Exit, Drops
<1> QED BY <1>1, <1>2 DEF DropInv, OwnerOf

LEMMA DropCall ==
  ASSUME TypeOK, Sorted(todo), DropInv, Call
  PROVE  DropInv'
<1>1. CASE ConfigFails
  BY <1>1, Failing, DropFails
<1>2. CASE Shutdown
  <2>1. Pending' = Exit
    BY <1>2, ShutdownStarts DEF Starts
  <2> QED BY <2>1 DEF DropInv, Exit, Drops
<1>3. ASSUME NEW o \in Owners, NEW end \in {<<>>, << <<"catch">> >>}, load_module(o, end)
      PROVE  DropInv'
  <2>1. Pending' = Given(o, objects') \cup {<<"configure", o>>, <<"add_service", <<o, "own">>, objects'>>,
                                            <<"loaded", o, objects'>>} \cup ToSet(end)
    BY <1>3, LoadStarts DEF Starts
  <2>2. ToSet(end) \subseteq {<<"catch">>}
    BY Nothing, Single, Made
  <2> QED BY <2>1, <2>2 DEF DropInv, Given, Drops
<1>4. ASSUME NEW o \in Owners, svc_reconfigure_module(o)
      PROVE  DropInv'
  <2>1. Pending' = Taken(o) \cup Given(o, objects')
                   \cup {<<"configure", o>>, <<"reconfigured", o, objects'>>, <<"catch">>}
    BY <1>4, ReconfigureStarts DEF Starts
  <2>2. mod_handle'[o] = 0
    BY <1>4 DEF svc_reconfigure_module, TypeOK
  <2>3. ASSUME NEW e \in Pending', e[1] \in Drops
        PROVE  OwnerOf(e) = o
    <3>1. e \in Taken(o)
      BY <2>1, <2>3 DEF Given, Drops
    <3> QED BY <3>1 DEF Taken, OwnerOf, Device
  <2> QED BY <2>2, <2>3 DEF DropInv, OwnerOf
<1>5. ASSUME NEW C, Begins(C)
      PROVE  DropInv'
  <2>1. Pending' = C /\ \A e \in C : e[1] \notin Drops
    BY <1>5 DEF Begins, Starts, Drops
  <2> QED BY <2>1 DEF DropInv
<1> QED BY <1>1, <1>2, <1>3, <1>4, <1>5, CallBegins


LEMMA AgeRuns ==
  ASSUME TypeOK, Sorted(todo), AgeInv, GoesOn, NEW C, Runs(C)
  PROVE  AgeInv'
<1> DEFINE op == Head(todo)[1]
<1>1. /\ Pending = {Head(todo)} \cup Rest /\ Pending' = C \cup Rest /\ UNCHANGED objects
      /\ \A f \in Rest : MayPrecede(Head(todo), f)
      /\ \A e \in C : e[1] \notin {"loaded", "reconfigured"}
  BY DEF Runs, Does, Keeps, Follows
<1>2. \A o, g : Coming(o, g)' => <<"loaded", o, g>> \in Rest \/ <<"reconfigured", o, g>> \in Rest
  BY <1>1 DEF Coming
<1>3. \A o, g : Coming(o, g)' => Coming(o, g)
  BY <1>1, <1>2 DEF Coming
<1>4. CASE op = "add_device"
  <2>1. PICK d, g : d = Head(todo)[2] /\ g = Head(todo)[3]
    OBVIOUS
  <2>2. AddDevice
    BY <1>4, HeadSays
  <2> DEFINE D == IF device_map[d] # 0 THEN {}
                  ELSE TriggerToo("add_device", d, g) \cup ToldTo("notify_add", d, g)
  <2>3. /\ Head(todo) = <<"add_device", d, g>> /\ d \in Devices /\ g \in Objects
        /\ Pending' = D \cup Rest
    BY <2>1, <2>2, AddDeviceDoes DEF Does
  <2>4. device_map' = device_map \/ device_map' = [device_map EXCEPT ![d] = g]
    BY <2>1, <2>2 DEF AddDevice
  <2>5. g <= objects
    BY <1>1, <2>3 DEF AgeInv
  <2>6. \A x \in Devices : device_map'[x] = device_map[x] \/ (x = d /\ device_map'[x] = g)
    BY <2>3, <2>4 DEF TypeOK
  <2>7. ASSUME NEW x \in Devices, NEW h \in Objects, <<"add_device", x, h>> \in Pending'
        PROVE  h <= objects
    <3>1. CASE <<"add_device", x, h>> \in Rest
      BY <1>1, <3>1 DEF AgeInv
    <3>2. CASE <<"add_device", x, h>> \in D
      <4>1. h = g
        BY <3>2 DEF TriggerToo, ToldTo
      <4> QED BY <2>5, <4>1
    <3> HIDE DEF D
    <3> QED BY <2>3, <2>7, <3>1, <3>2
  <2>8. ASSUME NEW o \in Owners, NEW h \in Objects, Coming(o, h)', NEW x \in Devices, x[1] # o
        PROVE  device_map'[x] < h
    <3>1. d[1] = o
      <4>1. PICK f \in Rest : f[1] \in {"loaded", "reconfigured"} /\ f[2] = o
        <5>1. <<"loaded", o, h>> \in Rest \/ <<"reconfigured", o, h>> \in Rest
          BY <1>2, <2>8
        <5>2. /\ <<"loaded", o, h>>[1] = "loaded" /\ <<"loaded", o, h>>[2] = o
              /\ <<"reconfigured", o, h>>[1] = "reconfigured" /\ <<"reconfigured", o, h>>[2] = o
          OBVIOUS
        <5> QED BY <5>1, <5>2
      <4>2. OwnerOf(Head(todo)) = d[1] /\ Head(todo)[1] = "add_device"
        BY <2>3 DEF OwnerOf
      <4> QED BY <1>1, <4>1, <4>2 DEF MayPrecede
    <3>2. device_map'[x] = device_map[x]
      BY <2>6, <2>8, <3>1
    <3> QED BY <1>3, <2>8, <3>2 DEF AgeInv
  <2>9. \A x \in Devices : device_map'[x] <= objects
    BY <2>5, <2>6 DEF AgeInv
  <2>10. /\ \A x \in Devices : device_map'[x] <= objects'
         /\ \A x \in Devices, h \in Objects : <<"add_device", x, h>> \in Pending' => h <= objects'
    BY <1>1, <2>7, <2>9
  <2> QED BY <2>8, <2>10 DEF AgeInv, Coming
<1>5. CASE op # "add_device"
  <2>1. \A x \in Devices : device_map'[x] \in {0, device_map[x]}
    <3>1. CASE op = "erase"
      <4>1. EraseDevice
        BY <3>1, HeadSays
      <4> QED BY <4>1 DEF EraseDevice, TypeOK
    <3>2. CASE op = "remove_devices"
      <4>1. RemoveDevices
        BY <3>2, HeadSays
      <4> QED BY <4>1 DEF RemoveDevices
    <3>3. CASE op \notin {"erase", "remove_devices"}
      BY <1>5, <3>3 DEF Runs, Keeps
    <3> QED BY <3>1, <3>2, <3>3
  <2>2. \A e \in C : e[1] # "add_device"
    BY <1>5 DEF Runs, Follows
  <2>3. \A x \in Devices : device_map[x] \in Nat
    BY DEF TypeOK
  <2>4. \A x \in Devices : device_map'[x] <= objects'
    <3> TAKE x \in Devices
    <3>1. device_map[x] \in Nat /\ device_map[x] <= objects /\ objects \in Nat
      BY <2>3 DEF AgeInv, TypeOK
    <3>2. device_map'[x] = 0 \/ device_map'[x] = device_map[x]
      BY <2>1
    <3> QED BY <1>1, <3>1, <3>2
  <2>5. \A x \in Devices, h \in Objects : <<"add_device", x, h>> \in Pending' => h <= objects'
    BY <1>1, <2>2 DEF AgeInv
  <2>6. ASSUME NEW o \in Owners, NEW h \in Objects, Coming(o, h)', NEW x \in Devices, x[1] # o
        PROVE  device_map'[x] < h
    <3>1. device_map[x] < h /\ 0 < h
      BY <1>3, <2>6 DEF AgeInv, Objects
    <3> QED BY <2>1, <3>1
  <2> QED BY <2>4, <2>5, <2>6 DEF AgeInv, Coming
<1> QED BY <1>4, <1>5

LEMMA AgeFails ==
  ASSUME AgeInv, Fails
  PROVE  AgeInv'
<1>1. UNCHANGED <<device_map, objects>> /\ (Pending' = Exit \/ Pending' \subseteq Pending)
  BY DEF Fails
<1>2. \A e \in Exit : e[1] \notin {"add_device", "loaded", "reconfigured"}
  BY DEF Exit
<1>3. /\ \A o, g : Coming(o, g)' => Coming(o, g)
      /\ \A d, g : <<"add_device", d, g>> \in Pending' => <<"add_device", d, g>> \in Pending
  BY <1>1, <1>2 DEF Coming
<1> QED BY <1>1, <1>3 DEF AgeInv, Coming

(* A new object is younger than all there are. *)
LEMMA AgeOfNext ==
  ASSUME TypeOK, AgeInv, NEW o \in Owners, objects' = objects + 1, UNCHANGED device_map,
         \A e \in Pending' :
           /\ e[1] = "add_device" => e[3] = objects'
           /\ e[1] \in {"loaded", "reconfigured"} => e[2] = o /\ e[3] = objects'
  PROVE  AgeInv'
<1>1. \A d \in Devices : device_map[d] \in Nat /\ device_map[d] < objects'
  BY DEF AgeInv, TypeOK
<1>2. \A q, g : Coming(q, g)' => g = objects'
  BY DEF Coming
<1>3. objects' \in Nat
  BY DEF TypeOK
<1>4. \A d \in Devices : device_map'[d] <= objects'
  BY <1>1, <1>3
<1>5. \A d \in Devices, g \in Objects : <<"add_device", d, g>> \in Pending' => g <= objects'
  BY <1>3
<1>6. \A q \in Owners, g \in Objects : Coming(q, g)' => \A d \in Devices : device_map'[d] < g
  BY <1>1, <1>2
<1> QED BY <1>4, <1>5, <1>6 DEF AgeInv, Coming

LEMMA AgeCall ==
  ASSUME TypeOK, Sorted(todo), AgeInv, Call
  PROVE  AgeInv'
<1>1. CASE ConfigFails
  BY <1>1, Failing, AgeFails
<1>2. ASSUME UNCHANGED <<device_map, objects>>,
             \A e \in Pending' : e[1] \notin {"add_device", "loaded", "reconfigured"}
      PROVE  AgeInv'
  <2>1. \A q, g : ~Coming(q, g)'
    BY <1>2 DEF Coming
  <2> QED BY <1>2, <2>1 DEF AgeInv
<1>3. CASE Shutdown
  <2>1. Pending' = Exit
    BY <1>3, ShutdownStarts DEF Starts
  <2>2. \A e \in Exit : e[1] \notin {"add_device", "loaded", "reconfigured"}
    BY DEF Exit
  <2>3. UNCHANGED <<device_map, objects>>
    BY <1>3 DEF Shutdown, devicevars
  <2> QED BY <1>2, <2>1, <2>2, <2>3
<1>4. ASSUME NEW o \in Owners, NEW end \in {<<>>, << <<"catch">> >>}, load_module(o, end)
      PROVE  AgeInv'
  <2>1. Pending' = Given(o, objects') \cup {<<"configure", o>>, <<"add_service", <<o, "own">>, objects'>>,
                                            <<"loaded", o, objects'>>} \cup ToSet(end)
    BY <1>4, LoadStarts DEF Starts
  <2>2. ToSet(end) \subseteq {<<"catch">>}
    BY Nothing, Single, Made
  <2>3. \A e \in Pending' :
           /\ e[1] = "add_device" => e[3] = objects'
           /\ e[1] \in {"loaded", "reconfigured"} => e[2] = o /\ e[3] = objects'
    BY <2>1, <2>2 DEF Given
  <2>4. objects' = objects + 1 /\ UNCHANGED device_map
    BY <1>4 DEF load_module, devicevars
  <2> QED BY <2>3, <2>4, AgeOfNext
<1>5. ASSUME NEW o \in Owners, svc_reconfigure_module(o)
      PROVE  AgeInv'
  <2>1. Pending' = Taken(o) \cup Given(o, objects')
                   \cup {<<"configure", o>>, <<"reconfigured", o, objects'>>, <<"catch">>}
    BY <1>5, ReconfigureStarts DEF Starts
  <2>2. \A e \in Pending' :
           /\ e[1] = "add_device" => e[3] = objects'
           /\ e[1] \in {"loaded", "reconfigured"} => e[2] = o /\ e[3] = objects'
    BY <2>1 DEF Given, Taken
  <2>3. objects' = objects + 1 /\ UNCHANGED device_map
    BY <1>5 DEF svc_reconfigure_module, devicevars
  <2> QED BY <2>2, <2>3, AgeOfNext
<1>6. ASSUME NEW C, Begins(C)
      PROVE  AgeInv'
  <2>1. Pending' = C /\ \A e \in C : e[1] \notin {"add_device", "loaded", "reconfigured"}
    BY <1>6 DEF Begins, Starts
  <2>2. UNCHANGED <<device_map, objects>>
    BY <1>6 DEF Begins
  <2> QED BY <1>2, <2>1, <2>2
<1> QED BY <1>1, <1>3, <1>4, <1>5, <1>6, CallBegins

(* Nothing happens to a clock that is found while nothing is done to its   *)
(* module, and to the process data.                                        *)
LEMMA StillFound ==
  ASSUME NEW o \in Owners, NEW c \in Owners, Found(o, c), c \in left => c \in left',
         mod_handle'[c] \in {0, mod_handle[c]},
         device_map'[Device(o, "pd")] \in {0, device_map[Device(o, "pd")]},
         device_map'[Device(c, "trigger")] = device_map[Device(c, "trigger")]
  PROVE  Found(o, c)'
<1>1. 0 \notin 1 .. device_map[Device(o, "pd")] /\ 1 .. 0 = {}
  OBVIOUS
<1> QED BY <1>1 DEF Found, Device

(* When a process data is added, its clock is there, and of the present    *)
(* handle of its module.                                                   *)
LEMMA ClockIsThere ==
  ASSUME TypeOK, Sorted(todo), ClockInv, DeviceInv, AddDevice, NEW o \in Owners, NEW c \in Owners,
         Head(todo)[2] = Device(o, "pd"), ClockOf[o] = c, c # o, c \notin left
  PROVE  device_map[Device(c, "trigger")] = mod_handle[c]
<1>1. PICK d, g : d = Head(todo)[2] /\ g = Head(todo)[3]
  OBVIOUS
<1>2. Head(todo) = <<"add_device", d, g>> /\ CanBeMade(d) /\ d[1] = o /\ d[2] = "pd"
  <2>1. Head(todo) = <<"add_device", d, g>> /\ CanBeMade(d)
    BY <1>1, AddDeviceDoes
  <2>2. d[1] = o /\ d[2] = "pd"
    BY <1>1 DEF Device
  <2> QED BY <2>1, <2>2
<1>3. todo # <<>>
  BY DEF AddDevice, Doing, Idle
<1>4. /\ Pending = {Head(todo)} \cup Rest /\ \A f \in Rest : MayPrecede(Head(todo), f)
  BY <1>3, Heads
<1>5. device_map[Device(c, "trigger")] # 0 /\ Device(c, "trigger") \in Devices
  BY <1>2, Named DEF CanBeMade, Generates, Clock
<1>6. c \in Makers
  BY <1>5 DEF TypeOK, Addable, Makers, Device
<1>7. ASSUME NEW f \in Rest
      PROVE  f[1] \notin Drops /\ ~OfClock(f)
  BY <1>2, <1>4 DEF MayPrecede, Drops, OfClock, Additions, Removals, Dismissals, Releases
<1>8. \A f \in Pending : f[1] \notin Drops /\ ~OfClock(f)
  BY <1>2, <1>4, <1>7 DEF OfClock, Drops
<1>9. device_map[Device(c, "pd")] = device_map[Device(c, "trigger")]
  BY <1>6, <1>8, NoClocks DEF Data, OwnClock
<1>10. ~Leaving(Device(c, "pd"))
  BY <1>8 DEF Leaving, Drops
<1>11. \A g2 : ~Coming(c, g2)
  <2> SUFFICES ASSUME NEW f \in Rest, f[1] \in {"loaded", "reconfigured"}, f[2] = c PROVE FALSE
    <3>1. \A g2 : /\ <<"loaded", c, g2>>[1] = "loaded" /\ <<"loaded", c, g2>>[2] = c
                  /\ <<"reconfigured", c, g2>>[1] = "reconfigured" /\ <<"reconfigured", c, g2>>[2] = c
      OBVIOUS
    <3> QED BY <1>2, <1>4, <3>1 DEF Coming
  <2>1. OwnerOf(Head(todo)) = o /\ Head(todo)[1] = "add_device"
    BY <1>2 DEF OwnerOf
  <2> QED BY <1>4, <2>1 DEF MayPrecede
<1>12. InPlace(Device(c, "pd"))
  <2>1. Device(c, "pd") \in Devices /\ Device(c, "pd")[2] # "trigger" /\ device_map[Device(c, "pd")] # 0
    BY <1>5, <1>9, Named DEF Device
  <2> QED BY <2>1 DEF DeviceInv
<1> QED BY <1>9, <1>10, <1>11, <1>12 DEF InPlace, Device

LEMMA AddDeviceKeepsFound ==
  ASSUME TypeOK, Sorted(todo), ClockInv, DeviceInv, FoundInv, AddDevice
  PROVE  FoundInv'
<1>1. PICK d, g : d = Head(todo)[2] /\ g = Head(todo)[3]
  OBVIOUS
<1>2. d \in Devices /\ g \in Objects
  BY <1>1, AddDeviceDoes
<1>3. /\ UNCHANGED <<mod_handle, left>>
      /\ \/ UNCHANGED device_map
         \/ device_map[d] = 0 /\ device_map' = [device_map EXCEPT ![d] = g]
  BY <1>1 DEF AddDevice, modulevars
<1>4. ASSUME NEW o \in Owners, NEW c \in Owners, ClockOf[o] = c, c # o
      PROVE  Found(o, c)'
  <2>1. Found(o, c)
    BY <1>4 DEF FoundInv
  <2>2. /\ Device(o, "pd") \in Devices /\ Device(c, "trigger") \in Devices
        /\ Device(o, "pd") # Device(c, "trigger")
    BY Named DEF Device
  <2>3. CASE UNCHANGED device_map
    BY <1>3, <2>1, <2>3, StillFound
  <2>4. CASE device_map[d] = 0 /\ device_map' = [device_map EXCEPT ![d] = g]
    <3>1. CASE d = Device(o, "pd")
      <4>1. device_map'[Device(c, "trigger")] = device_map[Device(c, "trigger")]
        BY <2>2, <2>4, <3>1 DEF TypeOK
      <4>2. c \notin left => device_map[Device(c, "trigger")] = mod_handle[c]
        BY <1>1, <1>4, <3>1, ClockIsThere
      <4> QED BY <1>3, <4>1, <4>2 DEF Found, Device
    <3>2. CASE d = Device(c, "trigger")
      <4>1. device_map'[Device(o, "pd")] = device_map[Device(o, "pd")]
        BY <2>2, <2>4, <3>2 DEF TypeOK
      <4>2. c \in left \/ mod_handle[c] \notin 1 .. device_map[Device(o, "pd")]
        BY <2>1, <2>4, <3>2 DEF Found
      <4> QED BY <1>3, <4>1, <4>2 DEF Found, Device
    <3>3. CASE d # Device(o, "pd") /\ d # Device(c, "trigger")
      <4>1. /\ device_map'[Device(o, "pd")] = device_map[Device(o, "pd")]
            /\ device_map'[Device(c, "trigger")] = device_map[Device(c, "trigger")]
        BY <2>2, <2>4, <3>3 DEF TypeOK
      <4> QED BY <1>3, <2>1, <4>1, StillFound
    <3> QED BY <3>1, <3>2, <3>3
  <2> QED BY <1>3, <2>3, <2>4
<1> QED BY <1>4 DEF FoundInv, Found, Device

LEMMA FoundRuns ==
  ASSUME TypeOK, Sorted(todo), ClockInv, LeavingInv, MakeInv, DeviceInv, AwayInv,
         GoesOn, NEW C, Runs(C)
  PROVE  FoundInv'
<1> DEFINE op == Head(todo)[1]
<1>1. Pending = {Head(todo)} \cup Rest /\ Head(todo) \in Entries
  BY DEF Runs, Does
<1>2. SUFFICES ASSUME op # "add_device", NEW o \in Owners, NEW c \in Owners, ClockOf[o] = c, c # o
               PROVE  Found(o, c)'
  BY HeadSays, AddDeviceKeepsFound DEF AwayInv, FoundInv, Found, Device
<1>3. Found(o, c)
  BY <1>2 DEF AwayInv, FoundInv
<1>4. /\ Device(o, "pd") \in Devices /\ Device(c, "trigger") \in Devices
      /\ Device(c, "trigger")[1] = c /\ Device(o, "pd")[1] = o
  BY Named DEF Device
<1>5. ASSUME mod_handle'[c] = 0
      PROVE  Found(o, c)'
  <2>1. 0 \notin 1 .. device_map'[Device(o, "pd")]
    OBVIOUS
  <2> QED BY <1>5, <2>1 DEF Found, Device
<1>6. CASE op = "erase"
  <2>1. EraseDevice
    BY <1>6, HeadSays
  <2>2. PICK d : d = Head(todo)[2]
    OBVIOUS
  <2>3. d \in Devices /\ Head(todo) = <<"erase", d>>
    BY <2>1, <2>2, EraseDeviceDoes
  <2>4. /\ UNCHANGED <<mod_handle, left>> /\ \A x \in Devices : device_map'[x] = IF x = d THEN 0 ELSE device_map[x]
    BY <2>1, <2>2 DEF EraseDevice, modulevars, TypeOK
  <2>5. CASE d = Device(c, "trigger")
    <3>1. mod_handle[c] = 0
      BY <1>1, <1>4, <2>3, <2>5 DEF AwayInv, DropInv, Drops, OwnerOf
    <3> QED BY <1>5, <2>4, <3>1
  <2>6. CASE d # Device(c, "trigger")
    BY <1>3, <1>4, <2>4, <2>6, StillFound
  <2> QED BY <2>5, <2>6
<1>7. CASE op = "remove_devices"
  <2>1. RemoveDevices
    BY <1>7, HeadSays
  <2>2. PICK q : q = Head(todo)[2]
    OBVIOUS
  <2>3. Head(todo) = <<"remove_devices", q>>
    BY <2>1, <2>2, RemoveDevicesDoes
  <2>4. /\ UNCHANGED <<mod_handle, left>>
        /\ \A x \in Devices : device_map'[x] = IF x[1] = q THEN 0 ELSE device_map[x]
    BY <2>1, <2>2 DEF RemoveDevices, modulevars
  <2>5. CASE q = c
    <3>1. mod_handle[c] = 0
      BY <1>1, <2>3, <2>5 DEF AwayInv, DropInv, Drops, OwnerOf
    <3> QED BY <1>5, <2>4, <3>1
  <2>6. CASE q # c
    BY <1>3, <1>4, <2>4, <2>6, StillFound
  <2> QED BY <2>5, <2>6
<1>8. CASE op \in {"loaded", "reconfigured"}
  <2>1. Loaded \/ Reconfigured
    BY <1>8, HeadSays
  <2>2. PICK q, g : q = Head(todo)[2] /\ g = Head(todo)[3]
    OBVIOUS
  <2>3. /\ Head(todo) = <<op, q, g>> /\ q \in Owners /\ g \in Objects
        /\ mod_handle' = [mod_handle EXCEPT ![q] = g]
        /\ UNCHANGED <<device_map, left>>
    BY <2>1, <2>2, LoadedDoes, ReconfiguredDoes DEF Loaded, Reconfigured, devicevars
  <2>4. CASE q = c
    <3>1. Coming(c, g)
      BY <1>1, <1>8, <2>3, <2>4 DEF Coming
    <3>2. device_map[Device(o, "pd")] < g /\ device_map[Device(o, "pd")] \in Nat /\ g \in Nat
      BY <1>2, <1>4, <2>3, <3>1 DEF AwayInv, AgeInv, TypeOK, Objects
    <3>3. mod_handle'[c] = g
      BY <2>3, <2>4 DEF TypeOK
    <3>4. g \notin 1 .. device_map[Device(o, "pd")]
      BY <3>2
    <3> QED BY <2>3, <3>3, <3>4 DEF Found, Device
  <2>5. CASE q # c
    <3>1. mod_handle'[c] = mod_handle[c]
      BY <2>3, <2>5 DEF TypeOK
    <3> QED BY <1>3, <2>3, <3>1, StillFound
  <2> QED BY <2>4, <2>5
<1>9. CASE op = "unload"
  <2>1. Unload
    BY <1>9, HeadSays
  <2>2. mod_handle'[c] \in {0, mod_handle[c]} /\ UNCHANGED <<device_map, left>>
    BY <2>1 DEF Unload, devicevars, TypeOK
  <2> QED BY <1>3, <2>2, StillFound
<1>10. CASE op = "unloaded"
  <2>1. Unloaded
    BY <1>10, HeadSays
  <2>2. PICK q : q = Head(todo)[2]
    OBVIOUS
  <2>3. /\ Head(todo) = <<"unloaded", q>> /\ q \in Owners
        /\ left' = left \ {q} /\ UNCHANGED <<device_map, mod_handle>>
    BY <2>1, <2>2, UnloadedDoes DEF Unloaded, devicevars
  <2>4. CASE q = c
    <3>1. object[c] = 0
      BY <1>1, <2>3, <2>4 DEF LeavingInv
    <3>2. mod_handle[c] = 0
      BY <3>1 DEF MakeInv, HandleInv
    <3> QED BY <1>5, <2>3, <3>2
  <2>5. CASE q # c
    BY <1>3, <2>3, <2>5, StillFound
  <2> QED BY <2>4, <2>5
<1>11. CASE op \notin {"erase", "remove_devices", "loaded", "reconfigured", "unload", "unloaded"}
  <2>1. UNCHANGED <<device_map, mod_handle, left>>
    BY <1>2, <1>11 DEF Runs, Keeps
  <2> QED BY <1>3, <2>1, StillFound
<1> QED BY <1>6, <1>7, <1>8, <1>9, <1>10, <1>11

LEMMA FoundFails ==
  ASSUME FoundInv, Fails
  PROVE  FoundInv'
<1>1. UNCHANGED <<device_map, mod_handle>> /\ left \subseteq left'
  BY DEF Fails
<1>2. \A o, c \in Owners : Found(o, c) => Found(o, c)'
  BY <1>1, StillFound
<1> QED BY <1>2 DEF FoundInv, Found, Device

LEMMA FoundCall ==
  ASSUME TypeOK, Sorted(todo), FoundInv, Call
  PROVE  FoundInv'
<1>1. CASE ConfigFails
  BY <1>1, Failing, FoundFails
<1>2. CASE ~ConfigFails
  <2>1. UNCHANGED device_map /\ left \subseteq left' /\ \A c \in Owners : mod_handle'[c] \in {0, mod_handle[c]}
    <3>1. CASE Shutdown
      BY <3>1 DEF Shutdown, devicevars
    <3>2. ASSUME NEW o, NEW end, load_module(o, end)
          PROVE  UNCHANGED <<device_map, left, mod_handle>>
      BY <3>2 DEF load_module, devicevars
    <3>3. ASSUME NEW o \in Owners, svc_reconfigure_module(o)
          PROVE  /\ UNCHANGED device_map /\ left \subseteq left'
                 /\ \A c \in Owners : mod_handle'[c] \in {0, mod_handle[c]}
      BY <3>3 DEF svc_reconfigure_module, devicevars, TypeOK
    <3>4. ASSUME NEW C, Begins(C)
          PROVE  UNCHANGED <<device_map, left, mod_handle>>
      BY <3>4 DEF Begins
    <3> QED BY <1>2, <3>1, <3>2, <3>3, <3>4, CallBegins
  <2>2. \A o, c \in Owners : Found(o, c) => Found(o, c)'
    BY <2>1, StillFound
  <2> QED BY <2>2 DEF FoundInv, Found, Device
<1> QED BY <1>1, <1>2

LEMMA NextKeepsAway ==
  ASSUME TypeOK, Sorted(todo), ClockInv, LeavingInv, MakeInv, DeviceInv, AwayInv, Next
  PROVE  AwayInv'
<1>1. CASE Call
  BY <1>1, DropCall, AgeCall, FoundCall DEF AwayInv
<1>2. CASE DeviceStep \/ ServiceStep \/ ModuleStep
  <2>1. Fails \/ (~ConfigureFails /\ \E C : Runs(C))
    BY <1>2, DeviceStepRuns, ServiceStepRuns, ModuleStepRuns, Failing
  <2>2. CASE Fails
    BY <2>2, DropFails, AgeFails, FoundFails DEF AwayInv
  <2>3. ASSUME NEW C, Runs(C), ~ConfigureFails
        PROVE  AwayInv'
    <3>1. GoesOn
      BY <1>2, <2>3 DEF GoesOn
    <3>2. DropInv' /\ AgeInv'
      BY <2>3, <3>1, DropRuns, AgeRuns DEF AwayInv
    <3>3. FoundInv'
      BY <2>3, <3>1, FoundRuns
    <3> QED BY <3>2, <3>3 DEF AwayInv
  <2> QED BY <2>1, <2>2, <2>3
<1> QED BY <1>1, <1>2 DEF Next

LEMMA OrderAndAway == Spec => [](Ordered /\ AwayInv)
<1>1. Init => AwayInv
  <2> SUFFICES ASSUME Init PROVE AwayInv
    OBVIOUS
  <2>1. /\ Pending = {} /\ objects = 0
        /\ \A d \in Devices : device_map[d] = 0
        /\ \A o \in Owners : mod_handle[o] = 0
    BY InitOrdered DEF Init, None
  <2>2. DropInv /\ AgeInv
    BY <2>1 DEF DropInv, AgeInv, Coming
  <2>3. ASSUME NEW o \in Owners, NEW c \in Owners
        PROVE  Found(o, c)
    <3>1. 0 \notin 1 .. device_map[Device(o, "pd")]
      OBVIOUS
    <3> QED BY <2>1, <3>1 DEF Found
  <2> QED BY <2>2, <2>3 DEF AwayInv, FoundInv
<1>2. Ordered /\ ClockInv /\ CodeInv /\ PresentInv /\ AwayInv /\ [Next]_vars => AwayInv'
  <2> SUFFICES ASSUME Ordered, ClockInv, CodeInv, PresentInv, AwayInv, [Next]_vars PROVE AwayInv'
    OBVIOUS
  <2>1. TypeOK /\ Sorted(todo) /\ LeavingInv /\ MakeInv /\ DeviceInv
    BY DEF Ordered, CodeInv, PresentInv
  <2>2. CASE Next
    BY <2>1, <2>2, NextKeepsAway
  <2>3. CASE UNCHANGED vars
    <3>1. /\ UNCHANGED <<mod_handle, objects, device_map, left, todo>> /\ Pending' = Pending
      BY <2>3 DEF Pending, vars, modulevars, servicevars, devicevars
    <3> QED BY <3>1 DEF AwayInv, DropInv, AgeInv, Coming, FoundInv, Found, OwnerOf, Device
  <2> QED BY <2>2, <2>3
<1> QED BY <1>1, <1>2, OrderAndClocks, OrderAndCode, OrderAndPresent, PTL DEF Spec

(* Between calls a process data has a clock that a client can find: the    *)
(* trigger it has generated, of its own object, or the one of another      *)
(* module it was made with, as long as this is neither configured again,   *)
(* nor removed, nor has failed; and no trigger is without the process data *)
(* that has generated it (kernel::add_device, remove_device,               *)
(* remove_devices, svc_process_data_info, process_data::process_data).     *)
THEOREM ClockIsFoundAlways == Spec => []ClockIsFound
<1>1. Ordered /\ ClockInv /\ FoundInv => ClockIsFound
  <2> SUFFICES ASSUME TypeOK, ClockInv, FoundInv, Idle
               PROVE  ClockIsFound
    BY DEF Ordered, ClockIsFound
  <2>1. Pending = {}
    BY Nothing DEF Idle, Pending
  <2>2. \A o \in Makers : device_map[Data(o)] = device_map[OwnClock(o)]
    BY <2>1, NoClocks
  <2>3. ASSUME NEW d \in svc_list_devices, NEW i \in svc_process_data_info(d), NEW c, c = i.clk_device
        PROVE  IF c[1] = i.owner
               THEN /\ svc_device_info(c, "trigger") = {i.owner}
                    /\ get_device(c, "trigger") = get_device(d, "pd")
               ELSE c[1] \notin left /\ mod_handle[c[1]] \in 1 .. get_device(d, "pd")
                      => get_device(c, "trigger") = mod_handle[c[1]]
    <3>1. d \in Devices /\ device_map[d] # 0 /\ d[1] \in Owners
      BY Named DEF svc_list_devices
    <3>2. d[2] = "pd" /\ i = [owner |-> d[1], clk_device |-> Clock(d[1])]
      BY <2>3 DEF svc_process_data_info, get_device
    <3>3. PICK q \in Owners : q = ClockOf[d[1]]
      BY <3>1, RegistryAssumption
    <3>4. /\ i.owner = d[1] /\ c = Device(q, "trigger") /\ c[1] = q /\ c[2] = "trigger"
          /\ get_device(d, "pd") = device_map[d] /\ get_device(c, "trigger") = device_map[c]
      BY <2>3, <3>2, <3>3 DEF Clock, get_device, Device
    <3>5. CASE q = d[1]
      <4>1. d[1] \in Makers
        BY <3>1, <3>3, <3>5 DEF Makers
      <4>2. d = Data(d[1]) /\ c = OwnClock(d[1])
        BY <3>1, <3>2, <3>4, <3>5, <4>1, Clocks DEF OwnClock
      <4>3. device_map[c] = device_map[d]
        BY <2>2, <4>1, <4>2
      <4> QED BY <3>1, <3>4, <3>5, <4>3 DEF svc_device_info
    <3>6. CASE q # d[1]
      <4>1. Found(d[1], q)
        BY <3>1, <3>3, <3>6 DEF FoundInv
      <4>2. d = Device(d[1], "pd")
        BY <3>1, <3>2, Named DEF Device
      <4>3. q \notin left /\ mod_handle[q] \in 1 .. device_map[d] => device_map[c] = mod_handle[q]
        BY <3>4, <4>1, <4>2 DEF Found
      <4> QED BY <3>4, <3>6, <4>3
    <3> QED BY <3>5, <3>6
  <2>4. ASSUME NEW d \in svc_list_devices, svc_device_info(d, "trigger") # {}
        PROVE  \E e \in svc_list_devices : \E i \in svc_process_data_info(e) :
                 i.clk_device = d /\ i.owner = d[1]
    <3>1. d \in Devices /\ device_map[d] # 0 /\ d[1] \in Owners
      BY Named DEF svc_list_devices
    <3>2. d[2] = "trigger"
      BY <2>4 DEF svc_device_info, get_device
    <3>3. d \in Addable
      BY <3>1 DEF TypeOK
    <3>4. d[1] \in Makers
      BY <3>1, <3>2, <3>3 DEF Addable, Makers
    <3>5. d = OwnClock(d[1]) /\ device_map[Data(d[1])] = device_map[d] /\ Clock(d[1]) = d
      BY <2>2, <3>1, <3>2, <3>4, Clocks
    <3>6. /\ Data(d[1]) \in svc_list_devices
          /\ Data(d[1])[1] = d[1] /\ Data(d[1])[2] = "pd"
      BY <3>1, <3>4, <3>5, Clocks DEF svc_list_devices
    <3>7. [owner |-> d[1], clk_device |-> d] \in svc_process_data_info(Data(d[1]))
      BY <3>1, <3>5, <3>6 DEF svc_process_data_info, get_device
    <3> QED BY <3>6, <3>7
  <2> QED BY <2>3, <2>4 DEF ClockIsFound
<1> QED BY <1>1, OrderAndClocks, OrderAndAway, PTL DEF AwayInv
=============================================================================
