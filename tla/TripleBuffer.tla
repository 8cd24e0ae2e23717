---------------------------- MODULE TripleBuffer ----------------------------
(***************************************************************************)
(* robotkernel::triple_buffer (process_data.cpp): three data buffers that  *)
(* one provider thread and one consumer thread exchange without a lock, by *)
(* compare-and-swap loops on one byte that says which buffer is the front  *)
(* one (the consumer reads it), the back one (the provider fills it) and   *)
(* the flip one between them, and whether the flip buffer holds a frame    *)
(* the consumer has not taken.                                             *)
(*                                                                         *)
(* A thread's step is one atomic access to that byte, or the access to one *)
(* member of a buffer, so that a torn frame is a frame some member of      *)
(* which belongs to another push.                                          *)
(*                                                                         *)
(* Permission to call next, push and pop is the subject of PdAccess: here  *)
(* one provider and one consumer are registered, as the code requires.     *)
(***************************************************************************)
EXTENDS Integers, FiniteSets

CONSTANTS Fields,     \* the members of the process data
          MaxPush     \* bound: number of frames the provider pushes

ASSUME MaxPushAssumption == MaxPush \in Nat
ASSUME FieldsAssumption  == Fields # {} /\ IsFiniteSet(Fields)

Buffers == 0..2
Values  == 0..MaxPush
Frames  == [Fields -> Values]
Zero    == [f \in Fields |-> 0]

VARIABLES
  indices,   \* the atomic byte
  data,      \* the three buffers
  ppc,       \* provider: "idle", "fill" (next returned), "swap", (push)
  pbuf,      \* the buffer next() returned
  pold,      \* old_indices of swap_back
  cpc,       \* consumer: "idle", "swap", "front" (pop) and "hold"
  cbuf,      \* the buffer pop() returned
  cold,      \* old_indices of swap_front
  copied,    \* the members the consumer has read through that pointer
  copy,      \* and what it read
  asked,     \* new_data() said yes and the consumer has not popped since
  \* history, not in the code:
  pushes,    \* number of completed pushes
  log,       \* log[n] is the frame of the n-th push; log[0] the initial one
  since,     \* value of pushes when the consumer's last pop started
  retries    \* failed exchanges of the current push that were not spurious

pvars == <<ppc, pbuf, pold, retries>>
cvars == <<cpc, cbuf, cold, copied, copy, asked, since>>
vars  == <<indices, data, pvars, cvars, pushes, log>>

-----------------------------------------------------------------------------
(* The byte: front in bits 0-1, back in bits 2-3, flip in bits 4-5, written *)
(* in bit 7 (the masks of process_data.h).                                  *)

front(i)   == i % 4
back(i)    == (i \div 4) % 4
flip(i)    == (i \div 16) % 4
written(i) == i \div 128 = 1

(* Faulty variants, here and below: what the properties are there to find. *)
SwapFrontKeepsFlag(i) == 128 + front(i) * 16 + back(i) * 4 + flip(i)
SwapFrontOnlyFlag(i)  == i % 128
SwapBackNoFlag(i)     == front(i) + flip(i) * 4 + back(i) * 16
SwapBackToggles(i)    == (IF written(i) THEN 0 ELSE 128)
                           + front(i) + flip(i) * 4 + back(i) * 16

SwapFront(i) == front(i) * 16 + back(i) * 4 + flip(i)
SwapBack(i)  == 128 + front(i) + flip(i) * 4 + back(i) * 16

Init ==
  /\ indices = 0 + 1 * 4 + 2 * 16
  /\ data = [b \in Buffers |-> Zero]
  /\ ppc = "idle" /\ pbuf = 0 /\ pold = 0 /\ retries = 0
  /\ cpc = "idle" /\ cbuf = 0 /\ cold = 0 /\ copied = {} /\ copy = Zero
  /\ pushes = 0 /\ log = [n \in 0..MaxPush |-> Zero]
  /\ asked = FALSE /\ since = 0

-----------------------------------------------------------------------------
(* The provider. *)

(* next(), or the back_buffer() of write(). *)
PNext ==
  /\ ppc \in {"idle", "fill"}
  /\ pushes < MaxPush
  /\ pbuf' = back(indices)
  /\ ppc' = "fill"
  /\ UNCHANGED <<indices, data, pold, retries, cvars, pushes, log>>

(* The provider (or memcpy, or inject_val in push) stores one member of    *)
(* the frame; the value names the push it is meant for.  A provider need   *)
(* not store every member: the others keep what the recycled buffer held.  *)
PStore(f) ==
  /\ ppc = "fill"
  /\ data' = [data EXCEPT ![pbuf][f] = pushes + 1]
  /\ UNCHANGED <<indices, pvars, cvars, pushes, log>>

(* push(): the load of swap_back. *)
PPush ==
  /\ ppc = "fill"
  /\ pold' = indices
  /\ ppc' = "swap"
  /\ retries' = 0
  /\ UNCHANGED <<indices, data, pbuf, cvars, pushes, log>>

(* compare_exchange_weak of swap_back succeeds. *)
PSwap ==
  /\ ppc = "swap"
  /\ indices = pold
  /\ indices' = SwapBack(pold)
  /\ ppc' = "idle"
  /\ pushes' = pushes + 1
  /\ log' = [log EXCEPT ![pushes + 1] = data[back(indices)]]
  /\ UNCHANGED <<data, pbuf, pold, retries, cvars>>

(* It fails because the consumer has swapped: reload and try again. *)
PRetry ==
  /\ ppc = "swap"
  /\ indices # pold
  /\ pold' = indices
  /\ retries' = retries + 1
  /\ UNCHANGED <<indices, data, ppc, pbuf, cvars, pushes, log>>

-----------------------------------------------------------------------------
(* The consumer.  A failing exchange may be spurious on either side: it    *)
(* reloads the value it compared with, which changes nothing, so it is a   *)
(* stuttering step of this specification.                                  *)

(* pop(), or read() with do_pop: the load of swap_front and its early      *)
(* return when nothing new has been written.                               *)
CPop ==
  /\ cpc \in {"idle", "hold"}
  /\ cold' = indices
  /\ cpc' = IF written(indices) THEN "swap" ELSE "front"
  /\ since' = pushes
  /\ asked' = FALSE
  /\ UNCHANGED <<indices, data, pvars, cbuf, copied, copy, pushes, log>>

CSwapPlainStore ==
  /\ cpc = "swap"
  /\ indices' = SwapFront(cold)
  /\ cpc' = "front"
  /\ UNCHANGED <<data, pvars, cbuf, cold, copied, copy, asked, since, pushes, log>>

(* compare_exchange_weak of swap_front succeeds. *)
CSwap ==
  /\ cpc = "swap"
  /\ indices = cold
  /\ indices' = SwapFront(cold)
  /\ cpc' = "front"
  /\ UNCHANGED <<data, pvars, cbuf, cold, copied, copy, asked, since, pushes, log>>

(* It fails because the provider has pushed in between. *)
CRetry ==
  /\ cpc = "swap"
  /\ indices # cold
  /\ cold' = indices
  /\ cpc' = IF written(indices) THEN "swap" ELSE "front"
  /\ UNCHANGED <<indices, data, pvars, cbuf, copied, copy, asked, since,
                 pushes, log>>

(* front_buffer(): the pointer pop() returns. *)
CFront ==
  /\ cpc = "front"
  /\ cbuf' = front(indices)
  /\ cpc' = "hold"
  /\ copied' = {}
  /\ UNCHANGED <<indices, data, pvars, cold, copy, asked, since, pushes, log>>

(* read() without do_pop looks at the front buffer again. *)
CReadAgain ==
  /\ cpc \in {"idle", "hold"}
  /\ cpc' = "front"
  /\ UNCHANGED <<indices, data, pvars, cbuf, cold, copied, copy, asked, since,
                 pushes, log>>

(* new_data(), called by the consumer before it pops. *)
CNewData ==
  /\ cpc \in {"idle", "hold"}
  /\ asked' = written(indices)
  /\ UNCHANGED <<indices, data, pvars, cpc, cbuf, cold, copied, copy, since,
                 pushes, log>>

(* The consumer (or the memcpy of read()) reads one member. *)
CLoad(f) ==
  /\ cpc = "hold"
  /\ f \notin copied
  /\ copy' = [copy EXCEPT ![f] = data[cbuf][f]]
  /\ copied' = copied \cup {f}
  /\ UNCHANGED <<indices, data, pvars, cpc, cbuf, cold, asked, since, pushes, log>>

-----------------------------------------------------------------------------
Provider == PNext \/ PPush \/ PSwap \/ PRetry \/ \E f \in Fields : PStore(f)
Consumer == CPop \/ CSwap \/ CRetry \/ CFront \/ CReadAgain \/ CNewData
              \/ \E f \in Fields : CLoad(f)

Next == Provider \/ Consumer

Spec == Init /\ [][Next]_vars

(* Each thread's steps are scheduled again and again.  The consumer is a   *)
(* cyclic module that pops in each of its cycles, whatever else it calls   *)
(* in between.  Nothing makes the provider push.                           *)
FairSpec ==
  /\ Spec
  /\ WF_vars(PSwap \/ PRetry)
  /\ WF_vars(CSwap \/ CRetry \/ CFront)
  /\ SF_vars(CPop)

(* Mutant of peek: the buffer of the provider. *)
PeekBack == back(indices)

(* peek(): the buffer whose pointer it returns, to whoever asks. *)
peek == flip(indices)

-----------------------------------------------------------------------------
(* Properties. *)

TypeOK ==
  /\ indices \in 0..255
  /\ data \in [Buffers -> Frames]
  /\ ppc \in {"idle", "fill", "swap"}
  /\ pbuf \in Buffers /\ pold \in 0..255 /\ retries \in Nat
  /\ cpc \in {"idle", "swap", "front", "hold"}
  /\ cbuf \in Buffers /\ cold \in 0..255
  /\ copied \subseteq Fields /\ copy \in Frames
  /\ asked \in BOOLEAN
  /\ pushes \in 0..MaxPush /\ since \in 0..MaxPush
  /\ log \in [0..MaxPush -> Frames]

(* The provider never stores into the buffer whose pointer the consumer    *)
(* got from pop(): the buffers next() and pop() hand out are different.    *)
NoDataRace == ppc = "fill" /\ cpc = "hold" => pbuf # cbuf

(* What the consumer reads through the pointer of pop(), however slowly and *)
(* whatever the provider does meanwhile, is one whole pushed frame, and no  *)
(* older than the frame that was pushed last when pop() was called.  (Hence *)
(* two pops never go back from a frame to an older one.)                    *)
NewestWholeFrame ==
  cpc = "hold" => \E n \in since..pushes : \A f \in copied : copy[f] = log[n][f]

(* swap_back's loop is wait-free: after one exchange lost to the consumer   *)
(* no other can be lost, for the consumer swaps only a frame it has not     *)
(* taken and there is none before the push is done.                         *)
PushIsWaitFree == retries <= 1

(* When new_data() has told the consumer that there is a new frame it is   *)
(* still there when the consumer pops.                                     *)
NewDataIsKept == asked => written(indices)

(* "Get a pointer to the last written data without consuming it"           *)
(* (process_data.h): until the consumer takes it.  Once it has, the flip   *)
(* buffer holds an older frame.                                            *)
PeekReturnsUnread == written(indices) => data[peek] = log[pushes]

(* When the provider falls silent the consumer ends up with its last frame. *)
LastFrameArrives ==
  \A n \in 0..MaxPush :
    <>[](pushes = n) => <>[](~written(indices) /\ data[front(indices)] = log[n])

(* The promise of process_data: the atomic register of LatestValue. *)
Abstract == INSTANCE LatestValue WITH
  scratch <- data[back(indices)],
  latest  <- IF written(indices) THEN data[flip(indices)] ELSE data[front(indices)],
  held    <- data[front(indices)],
  fresh   <- written(indices)

ImplementsLatestValue == Abstract!Spec

(* The buffers by their roles, as ProcessData has them. *)
Roles == INSTANCE TripleFrames WITH
  backFrame  <- data[back(indices)],
  flipFrame  <- data[flip(indices)],
  frontFrame <- data[front(indices)],
  fresh      <- written(indices)

-----------------------------------------------------------------------------
(* The inductive invariant from which TripleBufferProofs proves the above. *)

(* The byte names three different buffers and sets no other bit. *)
Layout(i) ==
  /\ front(i) \in Buffers /\ back(i) \in Buffers /\ flip(i) \in Buffers
  /\ front(i) # back(i) /\ front(i) # flip(i) /\ back(i) # flip(i)
  /\ i \in {front(i) + 4 * back(i) + 16 * flip(i),
            front(i) + 4 * back(i) + 16 * flip(i) + 128}

LayoutInv ==
  /\ Layout(indices)
  /\ ppc = "swap" => Layout(pold)
  /\ cpc = "swap" => Layout(cold) /\ written(cold) /\ ~asked

PointerInv ==
  /\ ppc \in {"fill", "swap"} => pushes < MaxPush
  /\ ppc = "fill" => pbuf = back(indices)
  /\ cpc = "hold" => cbuf = front(indices)

FrameInv ==
  /\ since <= pushes
  /\ IF written(indices) THEN data[flip(indices)] = log[pushes]
                         ELSE data[front(indices)] = log[pushes]
  /\ cpc # "swap" => \E n \in since..pushes : data[front(indices)] = log[n]
  /\ cpc = "hold" => \A f \in copied : copy[f] = data[cbuf][f]

RetryInv ==
  /\ PushIsWaitFree
  /\ ppc = "swap" /\ (retries = 1 \/ indices # pold) => ~written(indices)
  /\ ppc = "swap" /\ retries = 1 => indices = pold

IInv == TypeOK /\ LayoutInv /\ PointerInv /\ FrameInv /\ RetryInv /\ NewDataIsKept
=============================================================================
