---------------------------- MODULE ProcessData ----------------------------
(***************************************************************************)
(* A process data (process_data.cpp) as its provider, its consumer and the *)
(* clients of the kernel see it: the provider fills a frame member by      *)
(* member and pushes it; push first replaces the members for which a       *)
(* client has set an override (svc_add_pd_injection); the consumer pops.   *)
(* Who may fill and push is the part of PdAccess.                          *)
(*                                                                         *)
(* A triple_buffer has three frames, exchanged in one step here as in      *)
(* TripleFrames, which TripleBuffer implements.  A single_buffer has one,  *)
(* to which both ends have access; a pointer_buffer too, and its provider  *)
(* may put another memory in its place.                                    *)
(***************************************************************************)
EXTENDS PdAccess, Sequences, SequencesExt

CONSTANTS Members,  \* the names clients use
          Order,    \* Members, in the order of the map pd_injections
          Forms,    \* what a process data may be constructed as: its kind
                    \* and the members its description lists, with the number
                    \* of values of their types, 0 for an unknown type; it may
            \* list members that no client names
          Values,   \* what providers write
          Asked,    \* the numbers clients ask for
          NoValue

ASSUME MemberAssumption ==
  /\ IsInjective(Order) /\ ToSet(Order) = Members
  /\ Values \subseteq Nat /\ Asked \subseteq Nat
  /\ NoValue \notin Nat \cup [value : Nat, initialized : BOOLEAN]
  /\ \A f \in Forms : /\ f.kind \in {"triple", "single", "pointer"}
                      /\ \A i \in DOMAIN f.members : f.members[i][2] \in Nat

VARIABLES
  form,           \* what each process data was constructed as
  data,           \* its memory: "back", which a single or pointer buffer
                  \* has alone, and "flip" and "front"
  written,        \* the flip frame has not been popped
  pd_injections,  \* the overrides: what is asked for, and whether the place
                  \* and the type of the member are known already
  pushing,        \* the providers inside push
  rest,           \* the overrides push has not applied yet
  \* history, not in the code:
  input,          \* what the provider wrote since it began the frame
  deleted,        \* the members whose override a client has deleted
  due             \* per member, what the frame the consumer gets has to
                  \* hold, if an override or the provider has set it

memory == <<data, written>>
datavars == <<form, memory, pd_injections, pushing, rest, input, deleted, due>>
allvars == <<vars, datavars>>

Kind(p)  == form[p].kind
IsLive(p) == Kind(p) # "triple"
(* What a client is told is overridden. *)
svc_list_pd_injections(p) == {m \in Members : pd_injections[p][m] # NoValue}
Nothing  == [m \in Members |-> NoValue]

DataInit ==
  /\ Init
  /\ form \in [Pds -> Forms]
  /\ data = [p \in Pds |-> [b \in {"back", "flip", "front"} |-> [m \in Members |-> 0]]]
  /\ written = [p \in Pds |-> FALSE]
  /\ pd_injections = [p \in Pds |-> Nothing]
  /\ pushing = {} /\ rest = [c \in Providers |-> {}]
  /\ input = [p \in Pds |-> Nothing]
  /\ deleted = [p \in Pds |-> {}]
  /\ due = [p \in Pds |-> Nothing]

(* find_pd_offset_and_type: the description lists the member, and all      *)
(* types before it are known, otherwise its place is not.                  *)
Places(p, m) == {i \in DOMAIN form[p].members : form[p].members[i][1] = m}
Found(p, m) ==
  \E i \in Places(p, m) : \A j \in 1 .. i - 1 : form[p].members[j][2] > 0

Size(p, m) == form[p].members[CHOOSE i \in Places(p, m) : TRUE][2]

(* convert_str_val: the number is cut off to the width of the type. *)
Converted(p, m, n) == n % Size(p, m)

-----------------------------------------------------------------------------
(* The provider. *)

(* next(), or the check of write(). *)
Begin(c, p) ==
  /\ Next_(c, p)
  /\ input' = [input EXCEPT ![p] = Nothing]
  /\ due' = IF IsLive(p) THEN [due EXCEPT ![p] = Nothing] ELSE due
  /\ UNCHANGED <<form, memory, pd_injections, pushing, rest, deleted>>

Writing(c) == pc[c] = "write" /\ c \notin pushing

(* One member is written. *)
Fill(c, m, v) ==
  /\ Writing(c)
  /\ data' = [data EXCEPT ![pd[c]].back[m] = v]
  /\ input' = [input EXCEPT ![pd[c]][m] = v]
  /\ UNCHANGED <<vars, form, written, pd_injections, pushing, rest, deleted, due>>

(* write() without do_push: what was written stays where it is.  write() of *)
(* a single or pointer buffer ignores do_push ("Push the buffer to set it   *)
(* to the actual one"): it never calls push, and applies no override.       *)
LetGo(c) ==
  /\ Writing(c) /\ Push(c)
  /\ LET p == pd[c]
     IN due' = IF IsLive(p) THEN [due EXCEPT ![p] = input[p]] ELSE due
  /\ UNCHANGED <<form, memory, pd_injections, pushing, rest, input, deleted>>

(* process_data::push checks again, then it goes through the overrides. *)
PushFrame(c) ==
  /\ Writing(c) /\ HashesMatch(c, pd[c])
  /\ pushing' = pushing \cup {c}
  /\ rest' = [rest EXCEPT ![c] = svc_list_pd_injections(pd[c])]
  /\ UNCHANGED <<vars, form, memory, pd_injections, input, deleted, due>>

(* pd_injections is a std::map: its entries come in the order of the names. *)
IsNext(c, m) ==
  m \in rest[c] /\ \E i \in DOMAIN Order : Order[i] = m /\ \A j \in 1 .. i - 1 : Order[j] \notin rest[c]

(* Mutant of Inject: an override whose place is looked up waits for the next push. *)
InjectNextTime(c) ==
  /\ c \in pushing
  /\ \E m \in rest[c] :
       LET p == pd[c]
           e == pd_injections[p][m]
       IN /\ IsNext(c, m) /\ (e.initialized \/ Found(p, m))
          /\ pd_injections' = [pd_injections EXCEPT ![p][m].initialized = TRUE]
          /\ data' = IF ~e.initialized \/ Size(p, m) = 0 THEN data
                     ELSE [data EXCEPT ![p].back[m] = Converted(p, m, e.value)]
          /\ rest' = [rest EXCEPT ![c] = @ \ {m}]
  /\ UNCHANGED <<vars, form, written, pushing, input, deleted, due>>

(* inject_val: a value of an unknown type is not written.  The place of the *)
(* member is looked up when it is not known.                               *)
Inject(c) ==
  /\ c \in pushing
  /\ \E m \in rest[c] :
       LET p == pd[c]
           e == pd_injections[p][m]
       IN /\ IsNext(c, m) /\ (e.initialized \/ Found(p, m))
          /\ pd_injections' = [pd_injections EXCEPT ![p][m].initialized = TRUE]
          /\ data' = IF Size(p, m) = 0 THEN data
                     ELSE [data EXCEPT ![p].back[m] = Converted(p, m, e.value)]
          /\ rest' = [rest EXCEPT ![c] = @ \ {m}]
  /\ UNCHANGED <<vars, form, written, pushing, input, deleted, due>>

Leave(c) ==
  /\ Push(c)
  /\ pushing' = pushing \ {c} /\ rest' = [rest EXCEPT ![c] = {}]

(* What is in the frame as far as push has come. *)
IsForced(p, m) == m \in svc_list_pd_injections(p) /\ Size(p, m) > 0
Wanted(p, m) == pd_injections[p][m].value % Size(p, m)
SoFar(c, p) ==
  [m \in Members |-> IF m \notin rest[c] /\ IsForced(p, m) THEN Wanted(p, m) ELSE input[p][m]]

(* The place cannot be found: push throws in the provider's thread.  What  *)
(* it has done is in the memory of a single or pointer buffer already.     *)
PushThrows(c) ==
  /\ c \in pushing
  /\ \E m \in rest[c] : /\ IsNext(c, m) /\ ~pd_injections[pd[c]][m].initialized
                       /\ ~Found(pd[c], m)
  /\ LET p == pd[c]
     IN due' = IF IsLive(p) THEN [due EXCEPT ![p] = SoFar(c, p)] ELSE due
  /\ Leave(c)
  /\ UNCHANGED <<form, memory, pd_injections, input, deleted>>

(* swap_back of a triple_buffer; what the provider goes on with is the     *)
(* frame before last, or what the consumer has given back.                 *)
Publish(c) ==
  /\ c \in pushing /\ rest[c] = {}
  /\ LET p == pd[c]
     IN /\ IF IsLive(p) THEN UNCHANGED memory
           ELSE /\ data' = [data EXCEPT ![p].back = data[p].flip, ![p].flip = data[p].back]
                /\ written' = [written EXCEPT ![p] = TRUE]
        /\ due' = [due EXCEPT ![p] = SoFar(c, p)]
  /\ Leave(c)
  /\ UNCHANGED <<form, pd_injections, input, deleted>>

(* pointer_buffer::set_ptr: other memory, with whatever it holds. *)
SetPtr(c, p) ==
  /\ Kind(p) = "pointer" /\ pc[c] = "idle" /\ Alone /\ HashesMatch(c, p)
  /\ \E v \in Values : data' = [data EXCEPT ![p].back = [m \in Members |-> v]]
  /\ due' = [due EXCEPT ![p] = Nothing]
  /\ UNCHANGED <<vars, form, written, pd_injections, pushing, rest, input, deleted>>

-----------------------------------------------------------------------------
(* The consumer. *)

(* pop() of a triple_buffer: swap_front, when there is a new frame. *)
Pop(p) ==
  /\ ~IsLive(p) /\ written[p]
  /\ data' = [data EXCEPT ![p].front = data[p].flip, ![p].flip = data[p].front]
  /\ written' = [written EXCEPT ![p] = FALSE]
  /\ UNCHANGED <<vars, form, pd_injections, pushing, rest, input, deleted, due>>

(* read() of a single or pointer buffer: what is in the memory just then,   *)
(* pop() or not.                                                           *)
Live(p) == data[p].back

(* The frame the consumer has after a pop(). *)
Seen(p) ==
  IF IsLive(p) THEN Live(p) ELSE IF written[p] THEN data[p].flip ELSE data[p].front

-----------------------------------------------------------------------------
(* Services.  The map of overrides has no lock: the model lets services    *)
(* come between pushes only, unless Overlap.                               *)

Serviced == Overlap \/ pushing = {}

SetOverride(p, m, n, initialized) ==
  /\ pd_injections' = [pd_injections EXCEPT
                         ![p][m] = [value |-> n, initialized |-> initialized]]
  /\ deleted' = [deleted EXCEPT ![p] = @ \ {m}]
  /\ UNCHANGED <<vars, form, memory, pushing, rest, input, due>>

(* svc_add_pd_injection: the constructor of the entry finds the member and *)
(* converts the value, or throws, and nothing has changed.                 *)
AddInjection(p, m, n) == Serviced /\ Found(p, m) /\ SetOverride(p, m, n, TRUE)

(* add_injection, called by a module with an entry that is default         *)
(* constructed, for a member that it knows.                                *)
AddUninitialized(p, m, n) == Serviced /\ Places(p, m) # {} /\ SetOverride(p, m, n, FALSE)

(* svc_del_pd_injection: del_injection returns when it finds the member,   *)
(* and otherwise erases nothing.                                           *)
DelInjection(p, m) ==
  /\ Serviced /\ pd_injections[p][m] # NoValue
  /\ deleted' = [deleted EXCEPT ![p] = @ \cup {m}]
  /\ UNCHANGED <<vars, form, memory, pd_injections, pushing, rest, input, due>>

-----------------------------------------------------------------------------
Register(c) ==
  /\ \/ SetStore(c) \/ SetHash(c) \/ ResetHash(c) \/ ResetProvider(c)
     \/ \E p \in Pds : SetCheck(c, p) \/ ResetCheck(c, p)
  /\ UNCHANGED datavars

Provide(c) ==
  \/ LetGo(c) \/ PushFrame(c) \/ Inject(c) \/ PushThrows(c) \/ Publish(c)
  \/ \E m \in Members, v \in Values : Fill(c, m, v)
  \/ \E p \in Pds : Begin(c, p) \/ SetPtr(c, p)

Serve(p, m) == DelInjection(p, m) \/ \E n \in Asked : AddInjection(p, m, n) \/ AddUninitialized(p, m, n)

DataNext ==
  \/ /\ ~Crashed
     /\ \/ \E c \in Providers : Register(c) \/ Provide(c)
        \/ \E p \in Pds : Pop(p) \/ \E m \in Members : Serve(p, m)
  \/ Crashed /\ UNCHANGED allvars

DataSpec == DataInit /\ [][DataNext]_allvars

-----------------------------------------------------------------------------
(* Properties. *)

(* What the consumer gets by push() carries, cut off to the type of the     *)
(* member, every override in force when the frame was pushed ("inject value *)
(* to process data"), and otherwise what the provider wrote into that       *)
(* frame, whichever frame it has recycled: no override of another member,   *)
(* of an unknown type or of an earlier frame gets into it.  What a triple   *)
(* buffer's push leaves behind when it throws is never seen; in a single or *)
(* pointer buffer the overrides before the one that failed are.  A write()  *)
(* to a single or pointer buffer shows what was written and no override,    *)
(* although its do_push is true.                                            *)
FrameIsDue ==
  \A p \in Pds, m \in Members : due[p][m] # NoValue => Seen(p)[m] = due[p][m]

(* "del injection value" (process_data.h): a member whose override has     *)
(* been deleted is the provider's again in the frames it pushes then.      *)
DeletedIsGone ==
  [][\A c \in Providers : Publish(c) =>
       \A m \in deleted[pd[c]] :
         input[pd[c]][m] # NoValue => Seen(pd[c])'[m] = input[pd[c]][m]]_allvars

(* The memory of a triple_buffer, which TripleBuffer implements. *)
Memory(p) == INSTANCE TripleFrames WITH
  Fields     <- Members,
  Values     <- Nat,
  backFrame  <- data[p].back,
  flipFrame  <- data[p].flip,
  frontFrame <- data[p].front,
  fresh      <- written[p]
-----------------------------------------------------------------------------
(* The inductive invariant from which ProcessDataProofs proves FrameIsDue,  *)
(* for objects registered once (~Shared) and calls that do not overlap.    *)

Buffers == [{"back", "flip", "front"} -> [Members -> Nat]]
Overrides == [value : Nat, initialized : BOOLEAN]

DataTypeOK ==
  /\ form \in [Pds -> Forms]
  /\ data \in [Pds -> Buffers] /\ written \in [Pds -> BOOLEAN]
  /\ pd_injections \in [Pds -> [Members -> Overrides \cup {NoValue}]]
  /\ pushing \subseteq Providers /\ rest \in [Providers -> SUBSET Members]
  /\ input \in [Pds -> [Members -> Nat \cup {NoValue}]]
  /\ deleted \in [Pds -> SUBSET Members]
  /\ due \in [Pds -> [Members -> Nat \cup {NoValue}]]

(* An override is of a member that the description lists.                  *)
PlacesInv ==
  \A p \in Pds, m \in Members : pd_injections[p][m] # NoValue => Places(p, m) # {}

(* Who is inside push has the buffer; what is left to apply are overrides. *)
PushingInv ==
  /\ \A c \in pushing : pc[c] = "write" /\ rest[c] \subseteq svc_list_pd_injections(pd[c])
  /\ \A c \in Providers \ pushing : rest[c] = {}

(* The back frame holds what the provider wrote into it, and the overrides *)
(* that push has applied.                                                  *)
Back(c, p, m) ==
  IF c \in pushing /\ m \notin rest[c] /\ IsForced(p, m)
  THEN data[p].back[m] = Wanted(p, m)
  ELSE input[p][m] # NoValue => data[p].back[m] = input[p][m]

BackInv ==
  \A c \in Providers, p \in Pds, m \in Members :
    pc[c] = "write" /\ pd[c] = p => Back(c, p, m)

(* While the provider writes to memory the consumer sees, nothing is due.  *)
LiveInv ==
  \A c \in Providers : pc[c] = "write" /\ IsLive(pd[c]) => due[pd[c]] = Nothing

DataIInv ==
  /\ IInv
  /\ DataTypeOK /\ PlacesInv /\ PushingInv /\ BackInv /\ LiveInv /\ FrameIsDue
=============================================================================
