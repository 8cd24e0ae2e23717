------------------------- MODULE TripleBufferProofs -------------------------
(***************************************************************************)
(* Proofs about TripleBuffer, for every set of members and every number of *)
(* pushes: type correctness, the safety properties, and that it implements *)
(* LatestValue and TripleFrames.                                           *)
(***************************************************************************)
EXTENDS TripleBuffer, TLAPS

(* swap_back exchanges back and flip, keeps front and sets the flag. *)
LEMMA SwapBackFacts ==
  ASSUME NEW i, Layout(i)
  PROVE  /\ SwapBack(i) \in 0..255
         /\ Layout(SwapBack(i))
         /\ front(SwapBack(i)) = front(i)
         /\ back(SwapBack(i)) = flip(i)
         /\ flip(SwapBack(i)) = back(i)
         /\ written(SwapBack(i))
<1>1. front(i) \in 0..2 /\ back(i) \in 0..2 /\ flip(i) \in 0..2
  BY DEF Layout, Buffers
<1>2. ASSUME NEW f \in 0..2, NEW k \in 0..2, NEW p \in 0..2
      PROVE  LET j == 128 + f + p * 4 + k * 16
             IN  /\ j \in 0..255 /\ j % 4 = f
                 /\ (j \div 4) % 4 = p /\ (j \div 16) % 4 = k /\ j \div 128 = 1
  OBVIOUS
<1> QED
  BY <1>1, <1>2 DEF Layout, Buffers, SwapBack, front, back, flip, written

(* swap_front exchanges front and flip, keeps back and clears the flag. *)
LEMMA SwapFrontFacts ==
  ASSUME NEW i, Layout(i)
  PROVE  /\ SwapFront(i) \in 0..255
         /\ Layout(SwapFront(i))
         /\ front(SwapFront(i)) = flip(i)
         /\ back(SwapFront(i)) = back(i)
         /\ flip(SwapFront(i)) = front(i)
         /\ ~written(SwapFront(i))
<1>1. front(i) \in 0..2 /\ back(i) \in 0..2 /\ flip(i) \in 0..2
  BY DEF Layout, Buffers
<1>2. ASSUME NEW f \in 0..2, NEW k \in 0..2, NEW p \in 0..2
      PROVE  LET j == f * 16 + k * 4 + p
             IN  /\ j \in 0..255 /\ j % 4 = p
                 /\ (j \div 4) % 4 = k /\ (j \div 16) % 4 = f /\ j \div 128 # 1
  OBVIOUS
<1> QED
  BY <1>1, <1>2 DEF Layout, Buffers, SwapFront, front, back, flip, written

(* Initially no frame has been pushed and each buffer has one owner. *)
LEMMA InitIInv == Init => IInv
<1> SUFFICES ASSUME Init PROVE IInv
  OBVIOUS
<1> USE MaxPushAssumption, FieldsAssumption
<1>1. front(indices) = 0 /\ back(indices) = 1 /\ flip(indices) = 2
      /\ ~written(indices) /\ indices = 36
  BY DEF Init, front, back, flip, written
<1>2. TypeOK
  <2>1. Zero \in Frames
    BY DEF Frames, Values, Zero
  <2>2. data \in [Buffers -> Frames] /\ log \in [0..MaxPush -> Frames]
    BY <2>1 DEF Init
  <2>3. copied \subseteq Fields /\ copy \in Frames /\ asked \in BOOLEAN
    BY <2>1 DEF Init
  <2>4. pushes \in 0..MaxPush /\ since \in 0..MaxPush /\ indices \in 0..255
    BY DEF Init
  <2> QED
    BY <2>2, <2>3, <2>4 DEF Init, TypeOK, Buffers
<1>3. LayoutInv
  BY <1>1 DEF Init, LayoutInv, Layout, Buffers
<1>4. PointerInv
  BY DEF Init, PointerInv
<1>5. FrameInv
  <2>1. data[0] = Zero /\ log[0] = Zero /\ data[2] = Zero
    BY DEF Init, Buffers
  <2> QED
    BY <1>1, <2>1 DEF Init, FrameInv
<1>6. RetryInv /\ NewDataIsKept
  BY DEF Init, RetryInv, PushIsWaitFree, NewDataIsKept
<1> QED
  BY <1>2, <1>3, <1>4, <1>5, <1>6 DEF IInv

(* Every step keeps the types. *)
LEMMA TypeStep == IInv /\ [Next]_vars => TypeOK'
<1> SUFFICES ASSUME IInv, [Next]_vars PROVE TypeOK'
  OBVIOUS
<1> USE MaxPushAssumption, FieldsAssumption DEF IInv, TypeOK
<1>1. CASE PNext
  BY <1>1 DEF PNext, LayoutInv, Layout, cvars
<1>2. ASSUME NEW f \in Fields, PStore(f) PROVE TypeOK'
  <2>1. pushes + 1 \in Values
    BY <1>2 DEF PStore, PointerInv, Values
  <2>2. data' \in [Buffers -> Frames]
    BY <1>2, <2>1 DEF PStore, Frames
  <2> QED
    BY <1>2, <2>2 DEF PStore, pvars, cvars
<1>3. CASE PPush
  BY <1>3 DEF PPush, cvars
<1>4. CASE PSwap
  <2>1. SwapBack(pold) \in 0..255
    BY <1>4, SwapBackFacts DEF PSwap, LayoutInv
  <2>2. data[back(indices)] \in Frames /\ pushes < MaxPush
    BY <1>4 DEF PSwap, LayoutInv, Layout, PointerInv
  <2> QED
    BY <1>4, <2>1, <2>2 DEF PSwap, cvars
<1>5. CASE PRetry
  BY <1>5 DEF PRetry, cvars
<1>6. CASE CPop
  BY <1>6 DEF CPop, pvars
<1>7. CASE CSwap
  <2>1. SwapFront(cold) \in 0..255
    BY <1>7, SwapFrontFacts DEF CSwap, LayoutInv
  <2> QED
    BY <1>7, <2>1 DEF CSwap, pvars
<1>8. CASE CRetry
  BY <1>8 DEF CRetry, pvars
<1>9. CASE CFront
  BY <1>9 DEF CFront, pvars, LayoutInv, Layout
<1>10. CASE CReadAgain
  BY <1>10 DEF CReadAgain, pvars
<1>11. CASE CNewData
  BY <1>11 DEF CNewData, pvars, written
<1>12. ASSUME NEW f \in Fields, CLoad(f) PROVE TypeOK'
  <2>1. data[cbuf][f] \in Values
    BY DEF Frames
  <2>2. copy' \in Frames
    BY <1>12, <2>1 DEF CLoad, Frames
  <2> QED
    BY <1>12, <2>2 DEF CLoad, pvars
<1>13. CASE UNCHANGED vars
  BY <1>13 DEF vars, pvars, cvars
<1> QED
  BY <1>1, <1>2, <1>3, <1>4, <1>5, <1>6, <1>7, <1>8, <1>9, <1>10, <1>11, <1>12,
     <1>13 DEF Next, Provider, Consumer

(* Every step of the provider keeps the invariant. *)
LEMMA ProviderStep == IInv /\ Provider => IInv'
<1> SUFFICES ASSUME IInv, Provider PROVE IInv'
  OBVIOUS
<1> USE DEF IInv, NewDataIsKept
<1>0. TypeOK'
  BY TypeStep DEF Next
<1>1. CASE PNext
  BY <1>0, <1>1 DEF PNext, cvars, LayoutInv, PointerInv, FrameInv, RetryInv,
     PushIsWaitFree
<1>2. ASSUME NEW f \in Fields, PStore(f) PROVE IInv'
  <2> USE <1>2 DEF PStore
  <2>1. UNCHANGED <<indices, ppc, pbuf, pold, retries, cpc, cbuf, cold, copied,
                    copy, asked, since, pushes, log>>
    BY DEF pvars, cvars
  <2>2. \A b \in Buffers : b # back(indices) => data'[b] = data[b]
    BY DEF TypeOK, PointerInv
  <2>3. data'[front(indices)] = data[front(indices)]
        /\ data'[flip(indices)] = data[flip(indices)]
    BY <2>2 DEF LayoutInv, Layout
  <2>4. FrameInv'
    BY <2>1, <2>3 DEF FrameInv, PointerInv
  <2> QED
    BY <1>0, <2>1, <2>4 DEF LayoutInv, PointerInv, RetryInv, PushIsWaitFree
<1>3. CASE PPush
  BY <1>0, <1>3 DEF PPush, cvars, LayoutInv, PointerInv, FrameInv, RetryInv,
     PushIsWaitFree
<1>4. CASE PSwap
  <2> USE <1>4 DEF PSwap
  <2>1. /\ Layout(indices')
        /\ front(indices') = front(indices)
        /\ flip(indices') = back(indices)
        /\ written(indices')
    BY SwapBackFacts DEF LayoutInv
  <2>2. UNCHANGED <<data, pbuf, pold, retries, cpc, cbuf, cold, copied, copy,
                    asked, since>>
    BY DEF cvars
  <2>3. log'[pushes'] = data[back(indices)]
        /\ \A n \in 0..pushes : log'[n] = log[n]
    BY MaxPushAssumption DEF TypeOK, PointerInv
  <2>4. FrameInv'
    <3>1. since' <= pushes'
      BY <2>2 DEF FrameInv, TypeOK
    <3>2. data'[flip(indices')] = log'[pushes']
      BY <2>1, <2>2, <2>3
    <3>3. cpc' # "swap" =>
            \E n \in since'..pushes' : data'[front(indices')] = log'[n]
      <4> SUFFICES ASSUME cpc # "swap"
                   PROVE  \E n \in since..pushes + 1 : data[front(indices)] = log'[n]
        BY <2>1, <2>2
      <4>1. PICK n \in since..pushes : data[front(indices)] = log[n]
        BY DEF FrameInv
      <4> QED
        BY <4>1, <2>3 DEF TypeOK
    <3> QED
      BY <3>1, <3>2, <3>3, <2>1, <2>2 DEF FrameInv
  <2> QED
    BY <1>0, <2>1, <2>2, <2>4 DEF LayoutInv, PointerInv, RetryInv, PushIsWaitFree
<1>5. CASE PRetry
  <2> USE <1>5 DEF PRetry
  <2>1. ~written(indices) /\ retries = 0
    BY DEF RetryInv, PushIsWaitFree, TypeOK
  <2> QED
    BY <1>0, <2>1 DEF cvars, LayoutInv, PointerInv, FrameInv, RetryInv,
       PushIsWaitFree
<1> QED
  BY <1>1, <1>2, <1>3, <1>4, <1>5 DEF Provider

(* Every step of the consumer keeps the invariant. *)
LEMMA ConsumerStep == IInv /\ Consumer => IInv'
<1> SUFFICES ASSUME IInv, Consumer PROVE IInv'
  OBVIOUS
<1> USE DEF IInv, NewDataIsKept
<1>0. TypeOK'
  BY TypeStep DEF Next
<1>1. CASE CPop
  <2> USE <1>1 DEF CPop
  <2>1. UNCHANGED <<indices, data, ppc, pbuf, pold, retries, cbuf, copied, copy,
                    pushes, log>>
    BY DEF pvars
  <2>2. FrameInv'
    <3>1. CASE written(indices)
      BY <2>1, <3>1 DEF FrameInv, TypeOK
    <3>2. CASE ~written(indices)
      BY <2>1, <3>2 DEF FrameInv, TypeOK
    <3> QED
      BY <3>1, <3>2
  <2> QED
    BY <1>0, <2>1, <2>2 DEF LayoutInv, PointerInv, RetryInv, PushIsWaitFree
<1>2. CASE CSwap
  <2> USE <1>2 DEF CSwap
  <2>1. /\ Layout(indices')
        /\ front(indices') = flip(indices)
        /\ back(indices') = back(indices)
        /\ ~written(indices')
    BY SwapFrontFacts DEF LayoutInv
  <2>2. UNCHANGED <<data, ppc, pbuf, pold, retries, cbuf, cold, copied, copy,
                    asked, since, pushes, log>>
    BY DEF pvars
  <2>3. written(indices) /\ ~asked
    BY DEF LayoutInv
  <2>4. data'[front(indices')] = log'[pushes']
    BY <2>1, <2>2, <2>3 DEF FrameInv
  <2>5. FrameInv'
    BY <2>1, <2>2, <2>4 DEF FrameInv, TypeOK
  <2>6. RetryInv'
    BY <2>1, <2>2, <2>3 DEF RetryInv, PushIsWaitFree, TypeOK
  <2> QED
    BY <1>0, <2>1, <2>2, <2>3, <2>5, <2>6 DEF LayoutInv, PointerInv
<1>3. CASE CRetry
  <2> USE <1>3 DEF CRetry
  <2>1. UNCHANGED <<indices, data, ppc, pbuf, pold, retries, cbuf, copied, copy,
                    asked, since, pushes, log>>
    BY DEF pvars
  <2>2. FrameInv'
    BY <2>1 DEF FrameInv, TypeOK
  <2> QED
    BY <1>0, <2>1, <2>2 DEF LayoutInv, PointerInv, RetryInv, PushIsWaitFree
<1>4. CASE CFront
  BY <1>0, <1>4 DEF CFront, pvars, LayoutInv, PointerInv, FrameInv, RetryInv,
     PushIsWaitFree
<1>5. CASE CReadAgain
  BY <1>0, <1>5 DEF CReadAgain, pvars, LayoutInv, PointerInv, FrameInv, RetryInv,
     PushIsWaitFree
<1>6. CASE CNewData
  BY <1>0, <1>6 DEF CNewData, pvars, LayoutInv, PointerInv, FrameInv, RetryInv,
     PushIsWaitFree
<1>7. ASSUME NEW f \in Fields, CLoad(f) PROVE IInv'
  <2> USE <1>7 DEF CLoad
  <2>1. UNCHANGED <<indices, data, ppc, pbuf, pold, retries, cpc, cbuf, cold,
                    asked, since, pushes, log>>
    BY DEF pvars
  <2>2. \A g \in copied' : copy'[g] = data'[cbuf'][g]
    BY <2>1 DEF FrameInv, TypeOK, Frames
  <2>3. FrameInv'
    BY <2>1, <2>2 DEF FrameInv
  <2> QED
    BY <1>0, <2>1, <2>3 DEF LayoutInv, PointerInv, RetryInv, PushIsWaitFree
<1> QED
  BY <1>1, <1>2, <1>3, <1>4, <1>5, <1>6, <1>7 DEF Consumer

(* The inductive invariant is inductive. *)
LEMMA NextIInv == IInv /\ [Next]_vars => IInv'
<1>1. IInv /\ UNCHANGED vars => IInv'
  BY DEF vars, pvars, cvars, IInv, TypeOK, LayoutInv, PointerInv, FrameInv,
     RetryInv, PushIsWaitFree, NewDataIsKept
<1> QED
  BY <1>1, ProviderStep, ConsumerStep DEF Next

(* The inductive invariant holds in every reachable state. *)
THEOREM Invariance == Spec => []IInv
  BY InitIInv, NextIInv, PTL DEF Spec

(* Every variable keeps its type; in particular the byte stays a byte and  *)
(* no pointer leaves the three buffers.                                    *)
THEOREM TypeCorrect == Spec => []TypeOK
<1>1. IInv => TypeOK
  BY DEF IInv
<1> QED
  BY <1>1, Invariance, PTL

(* next() and pop() never hand out the same buffer. *)
THEOREM NoDataRaceHolds == Spec => []NoDataRace
<1>1. IInv => NoDataRace
  BY DEF IInv, PointerInv, LayoutInv, Layout, NoDataRace
<1> QED
  BY <1>1, Invariance, PTL

(* What the consumer reads is one whole frame, as new as its pop(). *)
THEOREM NewestWholeFrameHolds == Spec => []NewestWholeFrame
<1>1. IInv => NewestWholeFrame
  BY DEF IInv, PointerInv, FrameInv, NewestWholeFrame
<1> QED
  BY <1>1, Invariance, PTL

(* A push loses at most one exchange to the consumer. *)
THEOREM PushIsWaitFreeHolds == Spec => []PushIsWaitFree
<1>1. IInv => PushIsWaitFree
  BY DEF IInv, RetryInv
<1> QED
  BY <1>1, Invariance, PTL

(* The answer of new_data() does not become stale before the pop. *)
THEOREM NewDataIsKeptHolds == Spec => []NewDataIsKept
<1>1. IInv => NewDataIsKept
  BY DEF IInv
<1> QED
  BY <1>1, Invariance, PTL

(* What peek() returns is the last frame pushed, until it is taken. *)
THEOREM PeekReturnsUnreadHolds == Spec => []PeekReturnsUnread
<1>1. IInv => PeekReturnsUnread
  BY DEF IInv, FrameInv, PeekReturnsUnread, peek
<1> QED
  BY <1>1, Invariance, PTL

-----------------------------------------------------------------------------
(* Refinement. *)

(* Initially the register holds the zero frame. *)
LEMMA InitRefines == Init => Abstract!Init
<1> SUFFICES ASSUME Init PROVE Abstract!Init
  OBVIOUS
<1> USE MaxPushAssumption
<1>1. front(indices) = 0 /\ back(indices) = 1 /\ flip(indices) = 2
      /\ ~written(indices)
  BY DEF Init, front, back, flip, written
<1>2. data[0] = Zero /\ data[1] = Zero /\ data[2] = Zero
  BY DEF Init, Buffers
<1>3. Zero \in Abstract!Frames
  BY DEF Zero, Values, Abstract!Frames
<1>4. written(indices) = FALSE
  BY <1>1 DEF written
<1> QED
  BY <1>1, <1>2, <1>3, <1>4 DEF Abstract!Init

(* Storing a member of the frame is Store, the successful exchanges are    *)
(* Push and Pop, and every other step is invisible.                        *)
LEMMA StepRefines == IInv /\ [Next]_vars => [Abstract!Next]_(Abstract!vars)
<1> SUFFICES ASSUME IInv, [Next]_vars
             PROVE  Abstract!Next \/ UNCHANGED Abstract!vars
  OBVIOUS
<1> USE DEF IInv
<1>1. CASE UNCHANGED <<indices, data>>
  BY <1>1 DEF Abstract!vars, front, back, flip, written
<1>2. ASSUME NEW f \in Fields, PStore(f) PROVE Abstract!Next
  <2> USE <1>2 DEF PStore
  <2>1. pbuf = back(indices) /\ indices' = indices
    BY DEF PointerInv
  <2>2. data'[back(indices)] = [data[back(indices)] EXCEPT ![f] = pushes + 1]
        /\ data'[front(indices)] = data[front(indices)]
        /\ data'[flip(indices)] = data[flip(indices)]
    BY <2>1 DEF LayoutInv, Layout, TypeOK
  <2>3. pushes + 1 \in Values
    BY MaxPushAssumption DEF PointerInv, TypeOK, Values
  <2>4. Abstract!Store(f, pushes + 1)
    BY <2>1, <2>2 DEF Abstract!Store, front, back, flip, written
  <2> QED
    BY <2>3, <2>4 DEF Abstract!Next
<1>3. CASE PSwap
  <2> USE <1>3 DEF PSwap
  <2>1. /\ front(indices') = front(indices)
        /\ back(indices') = flip(indices)
        /\ flip(indices') = back(indices)
        /\ written(indices')
    BY SwapBackFacts DEF LayoutInv
  <2>2. data' = data /\ data[flip(indices)] \in Abstract!Frames
    BY DEF TypeOK, LayoutInv, Layout, Frames, Abstract!Frames
  <2>3. written(indices') = TRUE
    BY <2>1 DEF written
  <2>4. Abstract!Push
    BY <2>1, <2>2, <2>3 DEF Abstract!Push
  <2> QED
    BY <2>4 DEF Abstract!Next
<1>4. CASE CSwap
  <2> USE <1>4 DEF CSwap
  <2>1. /\ front(indices') = flip(indices)
        /\ back(indices') = back(indices)
        /\ ~written(indices')
    BY SwapFrontFacts DEF LayoutInv
  <2>2. data' = data /\ written(indices)
    BY DEF LayoutInv
  <2>3. written(indices') = FALSE
    BY <2>1 DEF written
  <2>4. Abstract!Pop
    BY <2>1, <2>2, <2>3 DEF Abstract!Pop
  <2> QED
    BY <2>4 DEF Abstract!Next
<1> QED
  BY <1>1, <1>2, <1>3, <1>4 DEF Next, Provider, Consumer, PNext, PPush, PRetry,
     CPop, CRetry, CFront, CReadAgain, CNewData, CLoad, vars

(* The three buffers behave like one register that is read and written     *)
(* atomically.                                                             *)
THEOREM Refinement == Spec => ImplementsLatestValue
<1>1. Init => Abstract!Init
  BY InitRefines
<1>2. IInv /\ [Next]_vars => [Abstract!Next]_(Abstract!vars)
  BY StepRefines
<1> QED
  BY <1>1, <1>2, Invariance, PTL DEF Spec, ImplementsLatestValue, Abstract!Spec

(* The same of the three frames by their roles, each of which one end has, *)
(* or neither: initially *)
LEMMA InitHasRoles == Init => Roles!Init
<1> SUFFICES ASSUME Init PROVE Roles!Init
  OBVIOUS
<1>1. front(indices) = 0 /\ back(indices) = 1 /\ flip(indices) = 2
      /\ ~written(indices)
  BY DEF Init, front, back, flip, written
<1>2. data[0] = Zero /\ data[1] = Zero /\ data[2] = Zero
  BY DEF Init, Buffers
<1>3. Zero \in [Fields -> Values]
  BY MaxPushAssumption DEF Zero, Values
<1>4. written(indices) = FALSE
  BY <1>1 DEF written
<1> QED
  BY <1>1, <1>2, <1>3, <1>4 DEF Roles!Init

(* and in each step: an exchange that succeeds is one of TripleFrames.     *)
LEMMA StepHasRoles == IInv /\ [Next]_vars => [Roles!Next]_(Roles!vars)
<1> SUFFICES ASSUME IInv, [Next]_vars
             PROVE  Roles!Next \/ UNCHANGED Roles!vars
  OBVIOUS
<1> USE DEF IInv
<1>1. CASE UNCHANGED <<indices, data>>
  BY <1>1 DEF Roles!vars, front, back, flip, written
<1>2. ASSUME NEW f \in Fields, PStore(f) PROVE Roles!Next
  <2> USE <1>2 DEF PStore
  <2>1. pbuf = back(indices) /\ indices' = indices
    BY DEF PointerInv
  <2>2. data'[back(indices)] = [data[back(indices)] EXCEPT ![f] = pushes + 1]
        /\ data'[front(indices)] = data[front(indices)]
        /\ data'[flip(indices)] = data[flip(indices)]
    BY <2>1 DEF LayoutInv, Layout, TypeOK
  <2>3. pushes + 1 \in Values
    BY MaxPushAssumption DEF PointerInv, TypeOK, Values
  <2>4. Roles!Store(f, pushes + 1)
    BY <2>1, <2>2 DEF Roles!Store, front, back, flip, written
  <2> QED
    BY <2>3, <2>4 DEF Roles!Next
<1>3. CASE PSwap
  <2>1. /\ front(indices') = front(indices)
        /\ back(indices') = flip(indices) /\ flip(indices') = back(indices)
        /\ written(indices') /\ data' = data
    BY <1>3, SwapBackFacts DEF PSwap, LayoutInv
  <2>2. written(indices') = TRUE
    BY <2>1 DEF written
  <2>3. Roles!Push
    BY <2>1, <2>2 DEF Roles!Push
  <2> QED
    BY <2>3 DEF Roles!Next
<1>4. CASE CSwap
  <2>1. /\ front(indices') = flip(indices) /\ flip(indices') = front(indices)
        /\ back(indices') = back(indices)
        /\ ~written(indices') /\ data' = data /\ written(indices)
    BY <1>4, SwapFrontFacts DEF CSwap, LayoutInv
  <2>2. written(indices') = FALSE
    BY <2>1 DEF written
  <2>3. Roles!Pop
    BY <2>1, <2>2 DEF Roles!Pop
  <2> QED
    BY <2>3 DEF Roles!Next
<1> QED
  BY <1>1, <1>2, <1>3, <1>4 DEF Next, Provider, Consumer, PNext, PPush, PRetry,
     CPop, CRetry, CFront, CReadAgain, CNewData, CLoad, vars

(* The compare-and-swap loops exchange the frames as if in one step each,  *)
(* so that ProcessData may take them to be atomic.                         *)
THEOREM ImplementsTripleFrames == Spec => Roles!Spec
<1>1. Init => Roles!Init
  BY InitHasRoles
<1>2. IInv /\ [Next]_vars => [Roles!Next]_(Roles!vars)
  BY StepHasRoles
<1> QED
  BY <1>1, <1>2, Invariance, PTL DEF Spec, Roles!Spec
=============================================================================
