------------------------------ MODULE PdAccess ------------------------------
(***************************************************************************)
(* Who may write to process data (process_data.cpp): a module registers a  *)
(* pd_provider object with set_provider, writes between next() and push(), *)
(* and withdraws with reset_provider.  next, write and push compare the    *)
(* hash of the caller's object with that of the registered object; a hash  *)
(* is the address of the object, or 0 while it is not registered anywhere. *)
(*                                                                         *)
(* set_provider and reset_provider take no lock: their reads and writes of *)
(* provider and hash are steps of their own.  set_consumer, reset_consumer *)
(* and the check of pop are the same code for the other end.               *)
(***************************************************************************)
EXTENDS Naturals, FiniteSets

CONSTANTS Pds,       \* process data
          Providers, \* pd_provider objects, each used by one thread
          NoOne,     \* nullptr
          Shared,    \* whether an object is registered with several process data
          Overlap    \* whether set_provider and reset_provider overlap other calls

ASSUME NoOneAssumption == NoOne \notin Providers \cup Pds
ASSUME AddressAssumption == 0 \notin Providers
ASSUME FlagAssumption  == Shared \in BOOLEAN /\ Overlap \in BOOLEAN

VARIABLES
  provider,  \* per process data: the registered object, or NoOne
  hash,      \* per object: 0, or its address (the object itself)
  pc,        \* per object's thread: "idle", "store", "hash" (set_provider),
             \* "clear", "forget" (reset_provider), "write" (next to push),
             \* or "crash": a null pointer has been dereferenced
  pd,        \* per thread: the process data it is working on
  \* history, not in the code:
  owned      \* per object: where it registered and did not withdraw

vars == <<provider, hash, pc, pd, owned>>

Init ==
  /\ provider = [p \in Pds |-> NoOne]
  /\ hash = [c \in Providers |-> 0]
  /\ pc = [c \in Providers |-> "idle"]
  /\ pd = [c \in Providers |-> NoOne]
  /\ owned = [c \in Providers |-> {}]

Goto(c, l) == pc' = [pc EXCEPT ![c] = l]

Registering(c) == pc[c] \notin {"idle", "write"}

(* Calls wait for a registration that is under way, unless Overlap. *)
Alone == Overlap \/ \A c \in Providers : ~Registering(c)

(* Mutant of HashesMatch: the check is only whether there is a provider. *)
AnyProvider(c, p) == provider[p] # NoOne

HashesMatch(c, p) == provider[p] # NoOne /\ hash[provider[p]] = hash[c]

(* Mutant of SetCheck: a second provider replaces the first. *)
SetReplaces(c, p) ==
  /\ pc[c] = "idle" /\ Alone
  /\ Shared \/ owned[c] \subseteq {p}
  /\ Goto(c, "store") /\ pd' = [pd EXCEPT ![c] = p]
  /\ UNCHANGED <<provider, hash, owned>>

(* set_provider: throws when there is another provider. *)
SetCheck(c, p) ==
  /\ pc[c] = "idle" /\ Alone
  /\ Shared \/ owned[c] \subseteq {p}
  /\ IF provider[p] \in {NoOne, c}
     THEN Goto(c, "store") /\ pd' = [pd EXCEPT ![c] = p]
     ELSE UNCHANGED <<pc, pd>>
  /\ UNCHANGED <<provider, hash, owned>>

SetStore(c) ==
  /\ pc[c] = "store"
  /\ provider' = [provider EXCEPT ![pd[c]] = c]
  /\ Goto(c, "hash")
  /\ UNCHANGED <<hash, pd, owned>>

SetHash(c) ==
  /\ pc[c] = "hash"
  /\ hash' = [hash EXCEPT ![c] = c]
  /\ owned' = [owned EXCEPT ![c] = @ \cup {pd[c]}]
  /\ Goto(c, "idle")
  /\ UNCHANGED <<provider, pd>>

(* reset_provider, which any thread may call: it throws if the provider is *)
(* another one, and does not test whether there is one at all.             *)
ResetCheck(c, p) ==
  /\ pc[c] = "idle" /\ Alone
  /\ \/ /\ provider[p] = NoOne
        /\ Goto(c, "crash") /\ pd' = [pd EXCEPT ![c] = p] /\ UNCHANGED owned
     \/ /\ HashesMatch(c, p)
        /\ Goto(c, "clear") /\ pd' = [pd EXCEPT ![c] = p] /\ UNCHANGED owned
     \/ /\ provider[p] # NoOne /\ ~HashesMatch(c, p)
        /\ owned' = [owned EXCEPT ![c] = @ \ {p}] /\ UNCHANGED <<pc, pd>>
  /\ UNCHANGED <<provider, hash>>

(* A null pointer dereferenced ends the program. *)
Crashed == \E c \in Providers : pc[c] = "crash"

ResetHash(c) ==
  /\ pc[c] = "clear"
  /\ hash' = [hash EXCEPT ![c] = 0]
  /\ owned' = [owned EXCEPT ![c] = @ \ {pd[c]}]
  /\ Goto(c, "forget")
  /\ UNCHANGED <<provider, pd>>

ResetProvider(c) ==
  /\ pc[c] = "forget"
  /\ provider' = [provider EXCEPT ![pd[c]] = NoOne]
  /\ Goto(c, "idle")
  /\ UNCHANGED <<hash, pd, owned>>

(* next(), or write(): any thread that has the process data may call it,   *)
(* also one whose set_provider threw; it throws "permission denied".       *)
Next_(c, p) ==
  /\ pc[c] = "idle"
  /\ Alone
  /\ HashesMatch(c, p)
  /\ Goto(c, "write") /\ pd' = [pd EXCEPT ![c] = p]
  /\ UNCHANGED <<provider, hash, owned>>

(* push(), at the latest: the provider lets go of the buffer. *)
Push(c) ==
  /\ pc[c] = "write"
  /\ Goto(c, "idle")
  /\ UNCHANGED <<provider, hash, pd, owned>>

Next ==
  \/ /\ ~Crashed
     /\ \E c \in Providers :
          \/ SetStore(c) \/ SetHash(c) \/ ResetHash(c) \/ ResetProvider(c) \/ Push(c)
          \/ \E p \in Pds : SetCheck(c, p) \/ ResetCheck(c, p) \/ Next_(c, p)
  \/ Crashed /\ UNCHANGED vars

Spec == Init /\ [][Next]_vars

-----------------------------------------------------------------------------
(* Properties. *)

TypeOK ==
  /\ provider \in [Pds -> Providers \cup {NoOne}]
  /\ hash \in [Providers -> Providers \cup {0}] /\ \A c \in Providers : hash[c] \in {0, c}
  /\ pc \in [Providers -> {"idle", "store", "hash", "clear", "forget", "write", "crash"}]
  /\ pd \in [Providers -> Pds \cup {NoOne}]
  /\ \A c \in Providers : pc[c] # "idle" => pd[c] \in Pds
  /\ owned \in [Providers -> SUBSET Pds]

(* "set data provider thread, only thread allowed to write and push"       *)
(* (process_data.h): two threads never fill the buffer of the same process *)
(* data at once, whatever they registered and withdrew before.             *)
OneWriter ==
  \A c, d \in Providers :
    pc[c] = "write" /\ pc[d] = "write" /\ pd[c] = pd[d] => c = d

(* A thread whose set_provider has returned is not denied permission, by   *)
(* whatever others try, until it withdraws.                                *)
OwnerMayWrite ==
  \A c \in Providers : \A p \in owned[c] : HashesMatch(c, p)

-----------------------------------------------------------------------------
(* The inductive invariant from which ProcessDataProofs proves them, for      *)
(* objects registered once (~Shared) and calls that do not overlap.        *)

OneRegistering ==
  \A c, d \in Providers : Registering(c) /\ Registering(d) => c = d

(* An object owns at most one process data; it is its provider then, with  *)
(* its address as hash.                                                    *)
OwnedInv ==
  \A c \in Providers :
    /\ \A p, q \in owned[c] : p = q
    /\ \A p \in owned[c] : provider[p] = c /\ hash[c] = c
    /\ pc[c] = "write" => pd[c] \in owned[c]

(* A provider owns its process data, or is about to, or has just left it.  *)
ProviderInv ==
  \A c \in Providers, p \in Pds :
    provider[p] = c => p \in owned[c] \/ (pc[c] \in {"hash", "forget"} /\ pd[c] = p)

StepInv ==
  \A c \in Providers :
    /\ pc[c] = "store" => provider[pd[c]] \in {NoOne, c} /\ owned[c] \subseteq {pd[c]}
    /\ pc[c] = "hash" => provider[pd[c]] = c /\ owned[c] \subseteq {pd[c]}
    /\ pc[c] = "clear" => pd[c] \in owned[c]
    /\ pc[c] = "forget" => owned[c] = {} /\ provider[pd[c]] = c

IInv == TypeOK /\ OneRegistering /\ OwnedInv /\ ProviderInv /\ StepInv
=============================================================================
