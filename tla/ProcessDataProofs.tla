------------------------- MODULE ProcessDataProofs -------------------------
(***************************************************************************)
(* Proofs about ProcessData and the part of it that says who may write,    *)
(* PdAccess: for any number of process data, providers and members, any    *)
(* description and any overrides, as long as an object is registered with  *)
(* one process data at a time and calls do not overlap where the code has  *)
(* no lock; README.md shows that both hypotheses are needed.  The last     *)
(* theorem ties the frames to TripleFrames, and so to TripleBuffer.        *)
(***************************************************************************)
EXTENDS ProcessData, TLAPS

-----------------------------------------------------------------------------
(* Who may write. *)

(* The initial state: nobody is registered. *)
LEMMA AccessInit == Init => IInv
<1> SUFFICES ASSUME Init PROVE IInv
  OBVIOUS
<1>1. TypeOK
  BY DEF Init, TypeOK
<1>2. OneRegistering
  BY DEF Init, OneRegistering, Registering
<1>3. OwnedInv /\ StepInv
  BY DEF Init, OwnedInv, StepInv
<1>4. ProviderInv
  BY NoOneAssumption DEF Init, ProviderInv
<1> QED
  BY <1>1, <1>2, <1>3, <1>4 DEF IInv

(* Whose hash is that of the provider is the provider.                     *)
LEMMA MatchIsOwner ==
  ASSUME ~Shared, ~Overlap, IInv, NEW c \in Providers, NEW p \in Pds, Alone, HashesMatch(c, p)
  PROVE  p \in owned[c]
<1> DEFINE d == provider[p]
<1>1. d \in Providers /\ hash[d] = hash[c]
  BY DEF IInv, HashesMatch, TypeOK
<1>2. p \in owned[d]
  BY <1>1 DEF IInv, ProviderInv, Alone, Registering
<1>3. hash[d] = d
  BY <1>1, <1>2 DEF IInv, OwnedInv
<1>4. d = c
  BY <1>1, <1>3, AddressAssumption DEF IInv, TypeOK
<1> QED
  BY <1>2, <1>4

(* Every step of set_provider, reset_provider, next and push preserves it. *)
LEMMA AccessNext ==
  ASSUME ~Shared, ~Overlap, IInv, [Next]_vars
  PROVE  IInv'
<1> USE DEF IInv
<1>0. CASE UNCHANGED vars
  BY <1>0 DEF vars, TypeOK, OneRegistering, Registering, OwnedInv, ProviderInv, StepInv
<1>1. ASSUME NEW c \in Providers, NEW p \in Pds, SetCheck(c, p)
      PROVE  IInv'
  <2> USE <1>1 DEF SetCheck
  <2>1. TypeOK'
    BY DEF TypeOK, Goto
  <2>2. OneRegistering'
    BY DEF TypeOK, OneRegistering, Registering, Alone, Goto
  <2>3. OwnedInv'
    BY DEF TypeOK, OwnedInv, Goto
  <2>4. ProviderInv'
    BY DEF TypeOK, ProviderInv, Goto
  <2>5. StepInv'
    BY DEF TypeOK, StepInv, Goto
  <2> QED
    BY <2>1, <2>2, <2>3, <2>4, <2>5
<1>2. ASSUME NEW c \in Providers, SetStore(c)
      PROVE  IInv'
  <2> USE <1>2 DEF SetStore
  <2>0. provider[pd[c]] \in {NoOne, c}
    BY DEF StepInv
  <2>1. TypeOK'
    BY DEF TypeOK, Goto
  <2>2. OneRegistering'
    BY DEF TypeOK, OneRegistering, Registering, Goto
  <2>3. OwnedInv'
    BY <2>0, NoOneAssumption DEF TypeOK, OwnedInv, StepInv, Goto
  <2>4. ProviderInv'
    BY <2>0 DEF TypeOK, ProviderInv, Goto
  <2>5. StepInv'
    BY DEF TypeOK, StepInv, OneRegistering, Registering, Goto
  <2> QED
    BY <2>1, <2>2, <2>3, <2>4, <2>5
<1>3. ASSUME NEW c \in Providers, SetHash(c)
      PROVE  IInv'
  <2> USE <1>3 DEF SetHash
  <2>1. TypeOK'
    BY DEF TypeOK, Goto
  <2>2. OneRegistering'
    BY DEF TypeOK, OneRegistering, Registering, Goto
  <2>3. OwnedInv'
    BY DEF TypeOK, OwnedInv, StepInv, Goto
  <2>4. ProviderInv'
    BY DEF TypeOK, ProviderInv, Goto
  <2>5. StepInv'
    BY DEF TypeOK, StepInv, OneRegistering, Registering, Goto
  <2> QED
    BY <2>1, <2>2, <2>3, <2>4, <2>5
<1>4. ASSUME NEW c \in Providers, NEW p \in Pds, ResetCheck(c, p)
      PROVE  IInv'
  <2> USE <1>4 DEF ResetCheck
  <2>0. HashesMatch(c, p) => p \in owned[c]
    BY MatchIsOwner
  <2>1. CASE ~HashesMatch(c, p) /\ provider[p] # NoOne
    <3>1. p \notin owned[c]
      BY <2>1 DEF OwnedInv, HashesMatch
    <3>2. UNCHANGED <<provider, hash, pc, pd, owned>>
      BY <2>1, <3>1 DEF TypeOK, HashesMatch
    <3> QED
      BY <3>2 DEF TypeOK, OneRegistering, Registering, OwnedInv, ProviderInv, StepInv
  <2>2. CASE HashesMatch(c, p) \/ provider[p] = NoOne
    <3>1. /\ pc' = [pc EXCEPT ![c] = IF HashesMatch(c, p) THEN "clear" ELSE "crash"]
          /\ pd' = [pd EXCEPT ![c] = p] /\ UNCHANGED <<provider, hash, owned>>
      BY <2>2 DEF Goto, HashesMatch
    <3>2. TypeOK'
      BY <3>1 DEF TypeOK
    <3>3. OneRegistering'
      BY <3>1 DEF TypeOK, OneRegistering, Registering, Alone
    <3>4. OwnedInv'
      BY <3>1 DEF TypeOK, OwnedInv
    <3>5. ProviderInv'
      BY <3>1 DEF TypeOK, ProviderInv
    <3>6. StepInv'
      BY <2>0, <3>1 DEF TypeOK, StepInv
    <3> QED
      BY <3>2, <3>3, <3>4, <3>5, <3>6
  <2> QED
    BY <2>1, <2>2
<1>5. ASSUME NEW c \in Providers, ResetHash(c)
      PROVE  IInv'
  <2> USE <1>5 DEF ResetHash
  <2>0. owned[c] = {pd[c]}
    BY DEF TypeOK, OwnedInv, StepInv
  <2>1. TypeOK'
    BY DEF TypeOK, Goto
  <2>2. OneRegistering'
    BY DEF TypeOK, OneRegistering, Registering, Goto
  <2>3. OwnedInv'
    BY <2>0 DEF TypeOK, OwnedInv, Goto
  <2>4. ProviderInv'
    BY DEF TypeOK, ProviderInv, Goto
  <2>5. StepInv'
    BY <2>0 DEF TypeOK, StepInv, OwnedInv, OneRegistering, Registering, Goto
  <2> QED
    BY <2>1, <2>2, <2>3, <2>4, <2>5
<1>6. ASSUME NEW c \in Providers, ResetProvider(c)
      PROVE  IInv'
  <2> USE <1>6 DEF ResetProvider
  <2>1. TypeOK'
    BY DEF TypeOK, Goto
  <2>2. OneRegistering'
    BY DEF TypeOK, OneRegistering, Registering, Goto
  <2>3. OwnedInv'
    BY DEF TypeOK, OwnedInv, StepInv, Goto
  <2>4. ProviderInv'
    BY NoOneAssumption DEF TypeOK, ProviderInv, Goto
  <2>5. StepInv'
    BY DEF TypeOK, StepInv, OneRegistering, Registering, Goto
  <2> QED
    BY <2>1, <2>2, <2>3, <2>4, <2>5
<1>7. ASSUME NEW c \in Providers, NEW p \in Pds, Next_(c, p)
      PROVE  IInv'
  <2> USE <1>7 DEF Next_
  <2>0. p \in owned[c]
    <3> DEFINE d == provider[p]
    <3>1. d \in Providers /\ hash[d] = hash[c]
      BY DEF HashesMatch, TypeOK
    <3>2. p \in owned[d]
      BY <3>1 DEF ProviderInv, Alone, Registering
    <3>3. hash[d] = d
      BY <3>1, <3>2 DEF OwnedInv
    <3>4. d = c
      BY <3>1, <3>3, AddressAssumption DEF TypeOK
    <3> QED
      BY <3>2, <3>4
  <2>1. TypeOK'
    BY DEF TypeOK, Goto
  <2>2. OneRegistering'
    BY DEF TypeOK, OneRegistering, Registering, Goto
  <2>3. OwnedInv'
    BY <2>0 DEF TypeOK, OwnedInv, Goto
  <2>4. ProviderInv'
    BY DEF TypeOK, ProviderInv, Goto
  <2>5. StepInv'
    BY DEF TypeOK, StepInv, Goto
  <2> QED
    BY <2>1, <2>2, <2>3, <2>4, <2>5
<1>8. ASSUME NEW c \in Providers, Push(c)
      PROVE  IInv'
  <2> USE <1>8 DEF Push
  <2>1. TypeOK' /\ OneRegistering'
    BY DEF TypeOK, OneRegistering, Registering, Goto
  <2>2. OwnedInv' /\ ProviderInv' /\ StepInv'
    BY DEF TypeOK, OwnedInv, ProviderInv, StepInv, Goto
  <2> QED
    BY <2>1, <2>2
<1> QED
  BY <1>0, <1>1, <1>2, <1>3, <1>4, <1>5, <1>6, <1>7, <1>8 DEF Next, Crashed

(* The invariant of the registrations holds throughout every behaviour.    *)
THEOREM AccessInvariance ==
  ASSUME ~Shared, ~Overlap
  PROVE  Spec => []IInv
<1>1. IInv /\ [Next]_vars => IInv'
  BY AccessNext
<1> QED
  BY AccessInit, <1>1, PTL DEF Spec

(* Every step of a provider, a consumer or a service is a step of PdAccess, *)
(* or leaves the registrations alone.                                      *)
LEMMA DataStepIsAccessStep == [DataNext]_allvars => [Next]_vars
<1> SUFFICES ASSUME [DataNext]_allvars PROVE [Next]_vars
  OBVIOUS
<1>0. CASE UNCHANGED allvars
  BY <1>0 DEF allvars
<1>5. CASE Crashed /\ UNCHANGED allvars
  BY <1>5 DEF allvars
<1>1. ASSUME ~Crashed, NEW c \in Providers, Register(c)
      PROVE  [Next]_vars
  BY <1>1 DEF Register, Next, Crashed
<1>2. ASSUME ~Crashed, NEW c \in Providers, Provide(c)
      PROVE  [Next]_vars
  <2>1. CASE LetGo(c) \/ Publish(c) \/ PushThrows(c)
    <3>1. Push(c)
      BY <2>1 DEF LetGo, Publish, PushThrows, Leave
    <3> QED
      BY <3>1, <1>2 DEF Next
  <2>2. CASE PushFrame(c) \/ Inject(c) \/ \E m \in Members, v \in Values : Fill(c, m, v)
    BY <2>2 DEF PushFrame, Inject, Fill
  <2>3. CASE \E p \in Pds : Begin(c, p) \/ SetPtr(c, p)
    <3>1. (\E p \in Pds : Next_(c, p)) \/ UNCHANGED vars
      BY <2>3 DEF Begin, SetPtr
    <3> QED
      BY <3>1, <1>2 DEF Next
  <2> QED
    BY <1>2, <2>1, <2>2, <2>3 DEF Provide
<1>3. ASSUME NEW p \in Pds, Pop(p)
      PROVE  [Next]_vars
  BY <1>3 DEF Pop
<1>4. ASSUME NEW p \in Pds, NEW m \in Members, Serve(p, m)
      PROVE  [Next]_vars
  BY <1>4 DEF Serve, DelInjection, AddInjection, AddUninitialized, SetOverride
<1> QED
  BY <1>0, <1>1, <1>2, <1>3, <1>4, <1>5 DEF DataNext

(* A process data with its frames and overrides is used as PdAccess says.  *)
THEOREM ImplementsAccess == DataSpec => Spec
<1>1. DataInit => Init
  BY DEF DataInit
<1> QED
  BY <1>1, DataStepIsAccessStep, PTL DEF DataSpec, Spec

(* No two threads fill the buffer of the same process data at once.        *)
THEOREM OneWriterHolds ==
  ASSUME ~Shared, ~Overlap
  PROVE  (Spec => []OneWriter) /\ (DataSpec => []OneWriter)
<1>1. IInv => OneWriter
  BY DEF IInv, TypeOK, OwnedInv, OneWriter
<1> QED
  BY AccessInvariance, ImplementsAccess, <1>1, PTL

(* A registered thread keeps its permission until it withdraws.            *)
THEOREM OwnerMayWriteHolds ==
  ASSUME ~Shared, ~Overlap
  PROVE  (Spec => []OwnerMayWrite) /\ (DataSpec => []OwnerMayWrite)
<1>1. IInv => OwnerMayWrite
  BY NoOneAssumption DEF IInv, TypeOK, OwnedInv, OwnerMayWrite, HashesMatch
<1> QED
  BY AccessInvariance, ImplementsAccess, <1>1, PTL

-----------------------------------------------------------------------------
(* What the consumer gets. *)

(* The number of values of a member that the description lists.            *)
LEMMA SizeIsNat ==
  ASSUME DataTypeOK, NEW p \in Pds, NEW m \in Members, Places(p, m) # {}
  PROVE  Size(p, m) \in Nat
<1> DEFINE i == CHOOSE i \in Places(p, m) : TRUE
<1>1. i \in DOMAIN form[p].members
  BY DEF Places
<1>2. form[p].members[i][2] \in Nat
  BY <1>1, MemberAssumption DEF DataTypeOK
<1> QED
  BY <1>2 DEF Size

(* Who writes is alone with the process data.                              *)
LEMMA WriterIsAlone ==
  ASSUME IInv, NEW c \in Providers, NEW d \in Providers, NEW p \in Pds,
         p \in owned[c], pc[d] = "write", pd[d] = p
  PROVE  c = d
BY DEF IInv, OwnedInv

(* Initially no frame is due. *)
LEMMA DataInitIInv == DataInit => DataIInv
<1> SUFFICES ASSUME DataInit PROVE DataIInv
  OBVIOUS
<1> USE DEF DataInit
<1>1. IInv
  BY AccessInit
<1>2. DataTypeOK
  BY DEF DataTypeOK, Buffers, Nothing
<1>3. PlacesInv /\ PushingInv /\ FrameIsDue
  BY DEF PlacesInv, PushingInv, FrameIsDue, Nothing
<1>4. BackInv /\ LiveInv
  BY DEF Init, BackInv, LiveInv
<1> QED
  BY <1>1, <1>2, <1>3, <1>4 DEF DataIInv

(* What keeps the back frame of a writer as it is.                         *)
LEMMA BackKept ==
  ASSUME NEW d \in Providers, NEW p \in Pds, NEW m \in Members, Back(d, p, m),
         form' = form, pd_injections'[p] = pd_injections[p],
         data'[p].back[m] = data[p].back[m], input'[p] = input[p],
         d \in pushing' <=> d \in pushing, rest'[d] = rest[d]
  PROVE  Back(d, p, m)'
<1>1. Size(p, m)' = Size(p, m)
  BY DEF Size, Places
<1>2. IsForced(p, m)' <=> IsForced(p, m)
  BY <1>1 DEF IsForced, svc_list_pd_injections
<1>3. Wanted(p, m)' = Wanted(p, m)
  BY <1>1 DEF Wanted
<1> QED
  BY <1>2, <1>3 DEF Back

(* A step that changes neither a frame nor an override, and after which    *)
(* nobody writes who did not write before.                                 *)
LEMMA FramesAlone ==
  ASSUME DataIInv, IInv', UNCHANGED datavars,
         \A d \in Providers : pc'[d] = "write" => pc[d] = "write" /\ pd'[d] = pd[d],
         \A d \in pushing : pc'[d] = "write"
  PROVE  DataIInv'
<1> USE DEF DataIInv, datavars, memory
<1>1. DataTypeOK'
  BY DEF DataTypeOK
<1>2. PlacesInv' /\ FrameIsDue'
  BY DEF PlacesInv, Places, FrameIsDue, Seen, Live, IsLive, Kind
<1>3. PushingInv'
  BY DEF PushingInv, svc_list_pd_injections, DataTypeOK
<1>4. BackInv'
  <2> SUFFICES ASSUME NEW c \in Providers, NEW m \in Members, NEW q \in Pds,
                      pc'[c] = "write", pd'[c] = q
               PROVE  Back(c, q, m)'
    BY DEF BackInv
  <2>1. Back(c, q, m) /\ pd[c] = q
    BY DEF BackInv, IInv, TypeOK
  <2> QED
    BY <2>1, BackKept
<1>5. LiveInv'
  BY DEF LiveInv, IsLive, Kind
<1> QED
  BY <1>1, <1>2, <1>3, <1>4, <1>5

(* next() gives the provider a frame into which nothing is written yet.    *)
LEMMA BeginStep ==
  ASSUME ~Shared, ~Overlap, DataIInv, IInv', NEW c \in Providers, NEW p \in Pds, Begin(c, p)
  PROVE  DataIInv'
<1> USE DEF Begin, Next_, memory
<1>0. /\ pc' = [pc EXCEPT ![c] = "write"] /\ pd' = [pd EXCEPT ![c] = p]
      /\ pc[c] = "idle" /\ IInv /\ DataTypeOK /\ TypeOK
      /\ \A q \in Pds : q # p => input'[q] = input[q] /\ due'[q] = due[q]
      /\ UNCHANGED <<form, data, written, pd_injections, pushing, rest, deleted>>
  BY DEF Goto, DataIInv, DataTypeOK, IInv
<1>1. DataTypeOK'
  BY <1>0 DEF DataTypeOK, Nothing
<1>2. PlacesInv'
  BY <1>0 DEF DataIInv, PlacesInv, Places
<1>3. c \notin pushing
  BY <1>0 DEF DataIInv, PushingInv
<1>4. PushingInv'
  BY <1>0, <1>3 DEF DataIInv, PushingInv, svc_list_pd_injections, TypeOK
<1>5. \A d \in Providers : pc[d] = "write" => pd[d] # p /\ d # c
  BY <1>0, MatchIsOwner, WriterIsAlone
<1>6. \A d \in Providers : pc[d] = "write" => pd[d] \in Pds
  BY <1>0 DEF TypeOK
<1>7. BackInv'
  <2> SUFFICES ASSUME NEW d \in Providers, NEW m \in Members, NEW q \in Pds,
                      pc'[d] = "write", pd'[d] = q
               PROVE  Back(d, q, m)'
    BY DEF BackInv
  <2>1. CASE d = c
    <3>1. q = p /\ input'[p][m] = NoValue
      BY <2>1, <1>0 DEF TypeOK, DataTypeOK, Nothing
    <3> QED
      BY <2>1, <3>1, <1>0, <1>3 DEF Back
  <2>2. CASE d # c
    <3>1. pc[d] = "write" /\ q = pd[d] /\ input'[q] = input[q] /\ Back(d, q, m)
      BY <2>2, <1>0, <1>5, <1>6 DEF TypeOK, DataIInv, BackInv
    <3> QED
      BY <3>1, <1>0, <1>6, BackKept
  <2> QED
    BY <2>1, <2>2
<1>8. LiveInv'
  <2> SUFFICES ASSUME NEW d \in Providers, pc'[d] = "write", IsLive(pd[d])'
               PROVE  due'[pd'[d]] = Nothing
    BY DEF LiveInv, Nothing
  <2>1. CASE d = c
    BY <2>1, <1>0 DEF IsLive, Kind, TypeOK, DataTypeOK
  <2>2. CASE d # c
    BY <2>2, <1>0, <1>5, <1>6 DEF IsLive, Kind, TypeOK, DataIInv, LiveInv
  <2> QED
    BY <2>1, <2>2
<1>9. FrameIsDue'
  <2> SUFFICES ASSUME NEW q \in Pds, NEW m \in Members, due'[q][m] # NoValue
               PROVE  Seen(q)'[m] = due'[q][m]
    BY DEF FrameIsDue
  <2>1. due'[q] = due[q]
    BY <1>0 DEF DataTypeOK, Nothing
  <2> QED
    BY <2>1, <1>0 DEF DataIInv, FrameIsDue, Seen, Live, IsLive, Kind
<1> QED
  BY <1>1, <1>2, <1>4, <1>7, <1>8, <1>9 DEF DataIInv

(* A member is written into the frame of the writer, which the consumer of *)
(* a triple_buffer does not see, and of which nothing is due otherwise.    *)
LEMMA FillStep ==
  ASSUME DataIInv, IInv', NEW c \in Providers, NEW n \in Members, NEW v \in Values, Fill(c, n, v)
  PROVE  DataIInv'
<1> DEFINE p == pd[c]
<1>0. /\ pc[c] = "write" /\ c \notin pushing /\ p \in Pds /\ v \in Nat
      /\ TypeOK /\ OneWriter /\ DataTypeOK
      /\ UNCHANGED <<provider, hash, pc, pd, owned, form, written, pd_injections, pushing, rest, deleted, due>>
      /\ data' = [data EXCEPT ![p].back[n] = v]
      /\ input' = [input EXCEPT ![p][n] = v]
  BY MemberAssumption DEF Fill, Writing, vars, DataIInv, IInv, TypeOK, OwnedInv, OneWriter
<1>1. DataTypeOK'
  BY <1>0 DEF DataTypeOK, Buffers
<1>2. PlacesInv' /\ PushingInv' /\ LiveInv'
  BY <1>0 DEF DataIInv, PlacesInv, Places, PushingInv, svc_list_pd_injections, LiveInv, IsLive, Kind
<1>3. BackInv'
  <2> SUFFICES ASSUME NEW d \in Providers, NEW m \in Members, NEW q \in Pds,
                      pc[d] = "write", pd'[d] = q
               PROVE  Back(d, q, m)'
    BY <1>0 DEF BackInv
  <2>0. Back(d, q, m) /\ q = pd[d]
    BY <1>0 DEF DataIInv, BackInv, TypeOK
  <2>1. CASE d = c
    <3>1. input'[p][m] = (IF m = n THEN v ELSE input[p][m])
      BY <1>0 DEF DataTypeOK
    <3>2. data'[p].back[m] = (IF m = n THEN v ELSE data[p].back[m])
      BY <1>0 DEF DataTypeOK, Buffers
    <3> QED
      BY <2>0, <2>1, <3>1, <3>2, <1>0 DEF Back
  <2>2. CASE d # c
    <3>1. q # p
      BY <1>0, <2>0, <2>2 DEF OneWriter
    <3>2. data'[q] = data[q] /\ input'[q] = input[q]
      BY <1>0, <2>0, <3>1 DEF DataTypeOK
    <3> QED
      BY <2>0, <3>2, <1>0, BackKept
  <2> QED
    BY <2>1, <2>2
<1>4. FrameIsDue'
  <2> SUFFICES ASSUME NEW q \in Pds, NEW m \in Members, due[q][m] # NoValue
               PROVE  Seen(q)'[m] = due[q][m]
    BY <1>0 DEF FrameIsDue
  <2>0. Seen(q)[m] = due[q][m]
    BY DEF DataIInv, FrameIsDue
  <2>1. CASE q = p /\ IsLive(p)
    BY <2>1, <1>0 DEF DataIInv, LiveInv, Nothing
  <2>2. CASE q = p /\ ~IsLive(p)
    <3>1. data'[p].flip = data[p].flip /\ data'[p].front = data[p].front
      BY <1>0 DEF DataTypeOK, Buffers
    <3> QED
      BY <2>0, <2>2, <3>1, <1>0 DEF Seen, IsLive, Kind
  <2>3. CASE q # p
    <3>1. data'[q] = data[q]
      BY <1>0, <2>3 DEF DataTypeOK
    <3> QED
      BY <2>0, <3>1, <1>0 DEF Seen, Live, IsLive, Kind
  <2> QED
    BY <2>1, <2>2, <2>3
<1> QED
  BY <1>1, <1>2, <1>3, <1>4 DEF DataIInv

(* push notes the overrides it has to apply.                               *)
LEMMA PushFrameStep ==
  ASSUME DataIInv, IInv', NEW c \in Providers, PushFrame(c)
  PROVE  DataIInv'
<1>0. /\ pc[c] = "write" /\ c \notin pushing /\ pd[c] \in Pds /\ TypeOK /\ DataTypeOK
      /\ pushing' = pushing \cup {c}
      /\ rest' = [rest EXCEPT ![c] = svc_list_pd_injections(pd[c])]
      /\ UNCHANGED <<provider, hash, pc, pd, owned, form, data, written, pd_injections, input, deleted, due>>
  BY DEF PushFrame, Writing, vars, memory, DataIInv, IInv, TypeOK
<1>1. DataTypeOK'
  BY <1>0 DEF DataTypeOK, svc_list_pd_injections
<1>2. PlacesInv' /\ LiveInv' /\ FrameIsDue'
  BY <1>0 DEF DataIInv, PlacesInv, Places, LiveInv, FrameIsDue, Seen, Live, IsLive, Kind
<1>3. PushingInv'
  <2>1. rest'[c] = svc_list_pd_injections(pd[c]) /\ \A d \in Providers : d # c => rest'[d] = rest[d]
    BY <1>0 DEF DataTypeOK
  <2> QED
    BY <1>0, <2>1 DEF DataIInv, PushingInv, svc_list_pd_injections, DataTypeOK
<1>4. BackInv'
  <2> SUFFICES ASSUME NEW d \in Providers, NEW m \in Members, NEW q \in Pds,
                      pc'[d] = "write", pd'[d] = q
               PROVE  Back(d, q, m)'
    BY DEF BackInv
  <2>0. Back(d, q, m) /\ q = pd[d]
    BY <1>0 DEF DataIInv, BackInv
  <2>1. CASE d = c
    <3>1. rest'[c] = svc_list_pd_injections(q) /\ rest[c] = {}
      BY <1>0, <2>0, <2>1 DEF DataTypeOK, DataIInv, PushingInv
    <3>2. Size(q, m)' = Size(q, m)
      BY <1>0 DEF Size, Places
    <3>3. IsForced(q, m)' => m \in rest'[c]
      BY <1>0, <3>1 DEF IsForced, svc_list_pd_injections
    <3> QED
      BY <2>0, <2>1, <3>1, <3>3, <1>0 DEF Back
  <2>2. CASE d # c
    <3>1. (d \in pushing' <=> d \in pushing) /\ rest'[d] = rest[d]
      BY <1>0, <2>2 DEF DataTypeOK
    <3> QED
      BY <2>0, <3>1, <1>0, BackKept
  <2> QED
    BY <2>1, <2>2
<1> QED
  BY <1>1, <1>2, <1>3, <1>4 DEF DataIInv

(* push applies an override: the member holds it then, or its type is not  *)
(* known; no other member changes.                                         *)
LEMMA InjectStep ==
  ASSUME DataIInv, IInv', NEW c \in Providers, Inject(c)
  PROVE  DataIInv'
<1> PICK n \in rest[c] :
      LET p == pd[c]
          e == pd_injections[p][n]
      IN /\ pd_injections' = [pd_injections EXCEPT ![p][n].initialized = TRUE]
         /\ data' = IF Size(p, n) = 0 THEN data
                    ELSE [data EXCEPT ![p].back[n] = Converted(p, n, e.value)]
         /\ rest' = [rest EXCEPT ![c] = @ \ {n}]
  BY DEF Inject
<1> DEFINE p == pd[c]
           e == pd_injections[p][n]
<1>0. /\ pc[c] = "write" /\ c \in pushing /\ p \in Pds /\ n \in Members
      /\ TypeOK /\ OneWriter /\ DataTypeOK
      /\ e \in Overrides /\ e # NoValue /\ Places(p, n) # {}
      /\ UNCHANGED <<provider, hash, pc, pd, owned, form, written, pushing, input, deleted, due>>
  BY DEF Inject, vars, DataIInv, IInv, TypeOK, OwnedInv, OneWriter, PushingInv, DataTypeOK,
         svc_list_pd_injections, PlacesInv
<1>1. Size(p, n) \in Nat
  BY <1>0, SizeIsNat
<1>2. \A q \in Pds, m \in Members : Size(q, m)' = Size(q, m)
  BY <1>0 DEF Size, Places
<1>3. /\ pd_injections'[p][n] = [e EXCEPT !.initialized = TRUE]
      /\ pd_injections'[p][n] \in Overrides /\ pd_injections'[p][n] # NoValue
      /\ pd_injections'[p][n].value = e.value
  BY <1>0, MemberAssumption DEF DataTypeOK, Overrides
<1>4. \A q \in Pds, m \in Members :
        ~(q = p /\ m = n) => pd_injections'[q][m] = pd_injections[q][m]
  BY <1>0 DEF DataTypeOK
<1>5. \A q \in Pds, m \in Members :
        /\ IsForced(q, m)' <=> IsForced(q, m)
        /\ Wanted(q, m)' = Wanted(q, m)
        /\ m \in svc_list_pd_injections(q)' <=> m \in svc_list_pd_injections(q)
  BY <1>0, <1>2, <1>3, <1>4 DEF IsForced, Wanted, svc_list_pd_injections
<1>6. Size(p, n) # 0 => Converted(p, n, e.value) = Wanted(p, n) /\ Wanted(p, n) \in Nat
  BY <1>0, <1>1 DEF Converted, Wanted, Overrides
<1>7. /\ data' \in [Pds -> Buffers]
      /\ \A q \in Pds : q # p => data'[q] = data[q]
      /\ data'[p].flip = data[p].flip /\ data'[p].front = data[p].front
      /\ \A m \in Members : data'[p].back[m] =
           IF m = n /\ Size(p, n) # 0 THEN Wanted(p, n) ELSE data[p].back[m]
  <2>1. CASE Size(p, n) = 0
    BY <2>1, <1>0 DEF DataTypeOK, Buffers
  <2>2. CASE Size(p, n) # 0
    <3>1. data' = [data EXCEPT ![p].back[n] = Wanted(p, n)]
      BY <2>2, <1>6
    <3>2. data[p] \in Buffers /\ data'[p] = [data[p] EXCEPT !.back[n] = Wanted(p, n)]
      BY <3>1, <1>0 DEF DataTypeOK
    <3>3. /\ data'[p] \in Buffers
          /\ data'[p].flip = data[p].flip /\ data'[p].front = data[p].front
          /\ data'[p].back = [data[p].back EXCEPT ![n] = Wanted(p, n)]
      BY <3>2, <2>2, <1>0, <1>6 DEF Buffers
    <3> QED
      BY <3>1, <3>2, <3>3, <2>2, <1>0 DEF DataTypeOK, Buffers
  <2> QED
    BY <2>1, <2>2
<1>8. /\ rest'[c] = rest[c] \ {n}
      /\ \A d \in Providers : d # c => rest'[d] = rest[d]
  BY <1>0 DEF DataTypeOK
<1>9. DataTypeOK'
  <2>1. pd_injections' \in [Pds -> [Members -> Overrides \cup {NoValue}]]
    BY <1>0, <1>3 DEF DataTypeOK
  <2>2. rest' \in [Providers -> SUBSET Members]
    BY <1>0 DEF DataTypeOK
  <2> QED
    BY <1>0, <1>7, <2>1, <2>2 DEF DataTypeOK
<1>10. PlacesInv'
  BY <1>0, <1>4 DEF DataIInv, PlacesInv, Places
<1>11. PushingInv'
  BY <1>0, <1>5, <1>8 DEF DataIInv, PushingInv, DataTypeOK, TypeOK
<1>12. LiveInv'
  BY <1>0 DEF DataIInv, LiveInv, IsLive, Kind
<1>13. BackInv'
  <2> SUFFICES ASSUME NEW d \in Providers, NEW m \in Members, NEW q \in Pds,
                      pc'[d] = "write", pd'[d] = q
               PROVE  Back(d, q, m)'
    BY DEF BackInv
  <2>0. Back(d, q, m) /\ q = pd[d]
    BY <1>0 DEF DataIInv, BackInv
  <2>1. CASE d = c /\ m = n
    <3>1. IsForced(p, n) <=> Size(p, n) # 0
      BY <1>0, <1>1 DEF IsForced, svc_list_pd_injections
    <3> QED
      BY <2>0, <2>1, <3>1, <1>0, <1>5, <1>7, <1>8 DEF Back
  <2>2. CASE d = c /\ m # n
    BY <2>0, <2>2, <1>0, <1>5, <1>7, <1>8 DEF Back
  <2>3. CASE d # c
    <3>1. q # p
      BY <1>0, <2>0, <2>3 DEF OneWriter
    <3>2. data'[q] = data[q] /\ rest'[d] = rest[d] /\ pushing' = pushing /\ input' = input
      BY <1>0, <2>3, <3>1, <1>7, <1>8
    <3> QED
      BY <2>0, <3>2, <1>5 DEF Back
  <2> QED
    BY <2>1, <2>2, <2>3
<1>14. FrameIsDue'
  <2> SUFFICES ASSUME NEW q \in Pds, NEW m \in Members, due[q][m] # NoValue
               PROVE  Seen(q)'[m] = due[q][m]
    BY <1>0 DEF FrameIsDue
  <2>0. Seen(q)[m] = due[q][m]
    BY DEF DataIInv, FrameIsDue
  <2>1. CASE q = p /\ IsLive(p)
    BY <2>1, <1>0 DEF DataIInv, LiveInv, Nothing
  <2>2. CASE q = p /\ ~IsLive(p)
    BY <2>0, <2>2, <1>0, <1>7 DEF Seen, IsLive, Kind
  <2>3. CASE q # p
    BY <2>0, <2>3, <1>0, <1>7 DEF Seen, Live, IsLive, Kind
  <2> QED
    BY <2>1, <2>2, <2>3
<1> QED
  BY <1>9, <1>10, <1>11, <1>12, <1>13, <1>14 DEF DataIInv

(* What is in a frame so far are numbers.                                  *)
LEMMA SoFarType ==
  ASSUME DataTypeOK, PlacesInv, NEW c \in Providers, NEW p \in Pds
  PROVE  SoFar(c, p) \in [Members -> Nat \cup {NoValue}]
<1>1. ASSUME NEW m \in Members, IsForced(p, m)
      PROVE  Wanted(p, m) \in Nat
  <2>1. Size(p, m) \in Nat /\ Size(p, m) > 0
    BY <1>1, SizeIsNat DEF IsForced, svc_list_pd_injections, PlacesInv
  <2>2. pd_injections[p][m].value \in Nat
    BY <1>1 DEF IsForced, svc_list_pd_injections, DataTypeOK, Overrides
  <2> QED
    BY <2>1, <2>2 DEF Wanted
<1>2. \A m \in Members : input[p][m] \in Nat \cup {NoValue}
  BY DEF DataTypeOK
<1> QED
  BY <1>1, <1>2 DEF SoFar

(* It is what the frame of a provider inside push holds.                   *)
LEMMA BackSoFar ==
  ASSUME NEW c \in pushing, NEW p \in Pds, NEW m \in Members, Back(c, p, m),
         SoFar(c, p)[m] # NoValue
  PROVE  data[p].back[m] = SoFar(c, p)[m]
BY DEF Back, SoFar

(* write() without push: what the provider wrote into memory the consumer  *)
(* has access to is what it gets.                                          *)
LEMMA LetGoStep ==
  ASSUME DataIInv, IInv', NEW c \in Providers, LetGo(c)
  PROVE  DataIInv'
<1> DEFINE p == pd[c]
<1>0. /\ c \notin pushing /\ pc[c] = "write" /\ p \in Pds /\ pc' = [pc EXCEPT ![c] = "idle"]
      /\ TypeOK /\ OneWriter /\ DataTypeOK
      /\ due' = IF IsLive(p) THEN [due EXCEPT ![p] = input[p]] ELSE due
      /\ UNCHANGED <<pd, form, data, written, pd_injections, pushing, rest, input, deleted>>
  BY DEF LetGo, Writing, Push, Goto, memory, DataIInv, IInv, TypeOK, OwnedInv, OneWriter
<1>1. \A q \in Pds : due'[q] = IF q = p /\ IsLive(p) THEN input[p] ELSE due[q]
  BY <1>0 DEF DataTypeOK
<1>2. DataTypeOK'
  BY <1>0 DEF DataTypeOK
<1>3. \A d \in Providers : pc'[d] = "write" => d # c /\ pc[d] = "write" /\ pd[d] # p /\ pd[d] \in Pds
  BY <1>0 DEF OneWriter, TypeOK
<1>4. PlacesInv'
  BY <1>0 DEF DataIInv, PlacesInv, Places
<1>5. PushingInv'
  BY <1>0 DEF DataIInv, PushingInv, svc_list_pd_injections, TypeOK
<1>6. LiveInv'
  BY <1>0, <1>1, <1>3 DEF DataIInv, LiveInv, IsLive, Kind
<1>7. BackInv'
  <2> SUFFICES ASSUME NEW d \in Providers, NEW m \in Members, NEW q \in Pds,
                      pc'[d] = "write", pd'[d] = q
               PROVE  Back(d, q, m)'
    BY DEF BackInv
  <2> QED
    BY <1>0, <1>3, BackKept DEF DataIInv, BackInv
<1>8. FrameIsDue'
  <2> SUFFICES ASSUME NEW q \in Pds, NEW m \in Members, due'[q][m] # NoValue
               PROVE  Seen(q)'[m] = due'[q][m]
    BY DEF FrameIsDue
  <2>0. Seen(q)' = Seen(q)
    BY <1>0 DEF Seen, Live, IsLive, Kind
  <2>1. CASE q = p /\ IsLive(p)
    <3>1. Back(c, p, m)
      BY <1>0 DEF DataIInv, BackInv
    <3> QED
      BY <2>0, <2>1, <3>1, <1>0, <1>1 DEF Back, Seen, Live
  <2>2. CASE ~(q = p /\ IsLive(p))
    BY <2>0, <2>2, <1>1 DEF DataIInv, FrameIsDue
  <2> QED
    BY <2>1, <2>2
<1> QED
  BY <1>2, <1>4, <1>5, <1>6, <1>7, <1>8 DEF DataIInv

(* A push that throws leaves the frame where it is.                        *)
LEMMA PushThrowsStep ==
  ASSUME DataIInv, IInv', NEW c \in Providers, PushThrows(c)
  PROVE  DataIInv'
<1> DEFINE p == pd[c]
<1>0. /\ c \in pushing /\ pc[c] = "write" /\ p \in Pds
      /\ pc' = [pc EXCEPT ![c] = "idle"] /\ TypeOK /\ OneWriter /\ DataTypeOK
      /\ pushing' = pushing \ {c} /\ rest' = [rest EXCEPT ![c] = {}]
      /\ due' = IF IsLive(p) THEN [due EXCEPT ![p] = SoFar(c, p)] ELSE due
      /\ UNCHANGED <<pd, form, data, written, pd_injections, input, deleted>>
  BY DEF PushThrows, Leave, Push, Goto, memory, DataIInv, IInv, TypeOK, OwnedInv, OneWriter,
         PushingInv
<1>1. DataTypeOK'
  <2>1. SoFar(c, p) \in [Members -> Nat \cup {NoValue}]
    BY <1>0, SoFarType DEF DataIInv
  <2> QED
    BY <1>0, <2>1 DEF DataTypeOK
<1>2. PlacesInv'
  BY <1>0 DEF DataIInv, PlacesInv, Places
<1>8. \A q \in Pds : due'[q] = IF q = p /\ IsLive(p) THEN SoFar(c, p) ELSE due[q]
  BY <1>0 DEF DataTypeOK
<1>9. FrameIsDue'
  <2> SUFFICES ASSUME NEW q \in Pds, NEW m \in Members, due'[q][m] # NoValue
               PROVE  Seen(q)'[m] = due'[q][m]
    BY DEF FrameIsDue
  <2>0. Seen(q)' = Seen(q)
    BY <1>0 DEF Seen, Live, IsLive, Kind
  <2>1. CASE q = p /\ IsLive(p)
    <3>1. Back(c, p, m)
      BY <1>0 DEF DataIInv, BackInv
    <3> QED
      BY <2>0, <2>1, <3>1, <1>0, <1>8, BackSoFar DEF Seen, Live
  <2>2. CASE ~(q = p /\ IsLive(p))
    BY <2>0, <2>2, <1>8 DEF DataIInv, FrameIsDue
  <2> QED
    BY <2>1, <2>2
<1>3. \A d \in Providers : d # c => pc'[d] = pc[d] /\ rest'[d] = rest[d]
  BY <1>0 DEF TypeOK, DataTypeOK
<1>4. pc'[c] = "idle" /\ rest'[c] = {}
  BY <1>0 DEF TypeOK, DataTypeOK
<1>5. PushingInv'
  BY <1>0, <1>3, <1>4 DEF DataIInv, PushingInv, svc_list_pd_injections, DataTypeOK
<1>6. LiveInv'
  <2>1. \A d \in Providers : pc'[d] = "write" => pc[d] = "write" /\ pd[d] # p /\ pd[d] \in Pds
    BY <1>0, <1>3, <1>4 DEF OneWriter, TypeOK
  <2> QED
    BY <1>0, <1>8, <2>1 DEF DataIInv, LiveInv, IsLive, Kind
<1>7. BackInv'
  <2> SUFFICES ASSUME NEW d \in Providers, NEW m \in Members, NEW q \in Pds,
                      pc'[d] = "write", pd'[d] = q
               PROVE  Back(d, q, m)'
    BY DEF BackInv
  <2>1. d # c /\ Back(d, q, m)
    BY <1>0, <1>3, <1>4 DEF DataIInv, BackInv
  <2> QED
    BY <2>1, <1>0, <1>3, BackKept
<1> QED
  BY <1>1, <1>2, <1>5, <1>6, <1>7, <1>9 DEF DataIInv

(* A published frame is the one the consumer gets, with what is due.       *)
LEMMA PublishStep ==
  ASSUME DataIInv, IInv', NEW c \in Providers, Publish(c)
  PROVE  DataIInv'
<1> DEFINE p == pd[c]
           d2 == SoFar(c, p)
<1>0. /\ c \in pushing /\ rest[c] = {} /\ pc[c] = "write" /\ p \in Pds
      /\ pc' = [pc EXCEPT ![c] = "idle"] /\ TypeOK /\ OneWriter /\ DataTypeOK
      /\ pushing' = pushing \ {c} /\ rest' = [rest EXCEPT ![c] = {}]
      /\ due' = [due EXCEPT ![p] = d2]
      /\ UNCHANGED <<pd, form, pd_injections, input, deleted>>
  BY DEF Publish, Leave, Push, Goto, DataIInv, IInv, TypeOK, OwnedInv, OneWriter, PushingInv
<1>1. /\ data' \in [Pds -> Buffers] /\ written' \in [Pds -> BOOLEAN]
      /\ \A q \in Pds : q # p => data'[q] = data[q] /\ written'[q] = written[q]
      /\ Seen(p)' = data[p].back
  <2>1. CASE IsLive(p)
    <3>1. UNCHANGED <<data, written>>
      BY <2>1 DEF Publish, memory
    <3> QED
      BY <3>1, <2>1, <1>0 DEF Seen, Live, IsLive, Kind, DataTypeOK
  <2>2. CASE ~IsLive(p)
    <3>1. /\ data' = [data EXCEPT ![p].back = data[p].flip, ![p].flip = data[p].back]
          /\ written' = [written EXCEPT ![p] = TRUE]
      BY <2>2 DEF Publish
    <3>2. /\ data[p] \in Buffers
          /\ data'[p] = [data[p] EXCEPT !.back = data[p].flip, !.flip = data[p].back]
      BY <3>1, <1>0 DEF DataTypeOK
    <3>3. data'[p] \in Buffers /\ data'[p].flip = data[p].back
      BY <3>2 DEF Buffers
    <3>4. written'[p]
      BY <3>1, <1>0 DEF DataTypeOK
    <3>5. data' \in [Pds -> Buffers] /\ \A q \in Pds : q # p => data'[q] = data[q]
      BY <3>1, <3>3, <1>0 DEF DataTypeOK
    <3>6. written' \in [Pds -> BOOLEAN] /\ \A q \in Pds : q # p => written'[q] = written[q]
      BY <3>1, <1>0 DEF DataTypeOK
    <3>7. Seen(p)' = data[p].back
      BY <3>3, <3>4, <2>2, <1>0 DEF Seen, IsLive, Kind
    <3> QED
      BY <3>5, <3>6, <3>7
  <2> QED
    BY <2>1, <2>2
<1>3. d2 \in [Members -> Nat \cup {NoValue}]
  BY <1>0, SoFarType DEF DataIInv
<1>4. due'[p] = d2 /\ \A q \in Pds : q # p => due'[q] = due[q]
  BY <1>0 DEF DataTypeOK
<1>5. DataTypeOK'
  <2>1. due' \in [Pds -> [Members -> Nat \cup {NoValue}]]
    BY <1>0, <1>3 DEF DataTypeOK
  <2>2. pushing' \subseteq Providers /\ rest' \in [Providers -> SUBSET Members]
    BY <1>0 DEF DataTypeOK
  <2> QED
    BY <2>1, <2>2, <1>0, <1>1 DEF DataTypeOK
<1>6. PlacesInv'
  BY <1>0 DEF DataIInv, PlacesInv, Places
<1>7. \A d \in Providers : d # c => pc'[d] = pc[d] /\ rest'[d] = rest[d]
  BY <1>0 DEF TypeOK, DataTypeOK
<1>8. pc'[c] = "idle" /\ rest'[c] = {}
  BY <1>0 DEF TypeOK, DataTypeOK
<1>9. PushingInv'
  BY <1>0, <1>7, <1>8 DEF DataIInv, PushingInv, svc_list_pd_injections, DataTypeOK
<1>10. \A d \in Providers : pc'[d] = "write" => d # c /\ pc[d] = "write" /\ pd[d] # p /\ pd[d] \in Pds
  BY <1>0, <1>7, <1>8 DEF OneWriter, TypeOK
<1>11. LiveInv'
  BY <1>0, <1>4, <1>10 DEF DataIInv, LiveInv, IsLive, Kind
<1>12. BackInv'
  <2> SUFFICES ASSUME NEW d \in Providers, NEW m \in Members, NEW q \in Pds,
                      pc'[d] = "write", pd'[d] = q
               PROVE  Back(d, q, m)'
    BY DEF BackInv
  <2>1. d # c /\ q # p /\ Back(d, q, m)
    BY <1>0, <1>10 DEF DataIInv, BackInv
  <2> QED
    BY <2>1, <1>0, <1>1, <1>7, BackKept
<1>13. FrameIsDue'
  <2> SUFFICES ASSUME NEW q \in Pds, NEW m \in Members, due'[q][m] # NoValue
               PROVE  Seen(q)'[m] = due'[q][m]
    BY DEF FrameIsDue
  <2>1. CASE q = p
    <3>1. Back(c, p, m)
      BY <1>0 DEF DataIInv, BackInv
    <3>2. data[p].back[m] = d2[m]
      BY <2>1, <3>1, <1>0, <1>4, BackSoFar
    <3> QED
      <4>1. Seen(q)' = data[p].back
        BY <2>1, <1>0, <1>1 DEF Seen, Live, IsLive, Kind
      <4> QED
        BY <4>1, <2>1, <3>2, <1>4
  <2>2. CASE q # p
    <3>1. Seen(q)[m] = due[q][m]
      BY <2>2, <1>4 DEF DataIInv, FrameIsDue
    <3> QED
      BY <2>2, <3>1, <1>0, <1>1, <1>4 DEF Seen, Live, IsLive, Kind
  <2> QED
    BY <2>1, <2>2
<1> QED
  BY <1>5, <1>6, <1>9, <1>11, <1>12, <1>13 DEF DataIInv

(* set_ptr is called when nobody writes, and nothing is due then.          *)
LEMMA SetPtrStep ==
  ASSUME ~Shared, ~Overlap, DataIInv, IInv', NEW c \in Providers, NEW p \in Pds, SetPtr(c, p)
  PROVE  DataIInv'
<1> PICK v \in Values : data' = [data EXCEPT ![p].back = [m \in Members |-> v]]
  BY DEF SetPtr
<1>0. /\ pc[c] = "idle" /\ IInv /\ TypeOK /\ DataTypeOK /\ v \in Nat /\ IsLive(p)
      /\ due' = [due EXCEPT ![p] = Nothing]
      /\ UNCHANGED <<provider, hash, pc, pd, owned, form, written, pd_injections, pushing, rest, input, deleted>>
  BY MemberAssumption DEF SetPtr, vars, DataIInv, IInv, IsLive, Kind
<1>1. \A d \in Providers : pc[d] = "write" => pd[d] # p
  BY <1>0, MatchIsOwner, WriterIsAlone DEF SetPtr
<1>2. \A q \in Pds : q # p => data'[q] = data[q] /\ due'[q] = due[q]
  BY <1>0 DEF DataTypeOK
<1>3. due'[p] = Nothing
  BY <1>0 DEF DataTypeOK
<1>4. DataTypeOK'
  BY <1>0 DEF DataTypeOK, Buffers, Nothing
<1>5. PlacesInv' /\ PushingInv'
  BY <1>0 DEF DataIInv, PlacesInv, Places, PushingInv, svc_list_pd_injections
<1>6. LiveInv'
  BY <1>0, <1>1, <1>2 DEF DataIInv, LiveInv, IsLive, Kind, TypeOK, Nothing
<1>7. BackInv'
  <2> SUFFICES ASSUME NEW d \in Providers, NEW m \in Members, NEW q \in Pds,
                      pc'[d] = "write", pd'[d] = q
               PROVE  Back(d, q, m)'
    BY DEF BackInv
  <2>1. q # p /\ Back(d, q, m)
    BY <1>0, <1>1 DEF DataIInv, BackInv
  <2> QED
    BY <2>1, <1>0, <1>2, BackKept
<1>8. FrameIsDue'
  <2> SUFFICES ASSUME NEW q \in Pds, NEW m \in Members, due'[q][m] # NoValue
               PROVE  Seen(q)'[m] = due'[q][m]
    BY DEF FrameIsDue
  <2>1. q # p
    BY <1>3 DEF Nothing
  <2> QED
    BY <2>1, <1>0, <1>2 DEF DataIInv, FrameIsDue, Seen, Live, IsLive, Kind
<1> QED
  BY <1>4, <1>5, <1>6, <1>7, <1>8 DEF DataIInv

(* pop changes which frame is the front one, not what the consumer gets.   *)
LEMMA PopStep ==
  ASSUME DataIInv, IInv', NEW p \in Pds, Pop(p)
  PROVE  DataIInv'
<1>0. /\ ~IsLive(p) /\ written[p] /\ TypeOK /\ DataTypeOK
      /\ data' = [data EXCEPT ![p].front = data[p].flip, ![p].flip = data[p].front]
      /\ written' = [written EXCEPT ![p] = FALSE]
      /\ UNCHANGED <<provider, hash, pc, pd, owned, form, pd_injections, pushing, rest, input, deleted, due>>
  BY DEF Pop, vars, DataIInv, IInv
<1>1. data[p] \in Buffers /\ data'[p] = [data[p] EXCEPT !.front = data[p].flip, !.flip = data[p].front]
  BY <1>0 DEF DataTypeOK
<1>2. data'[p] \in Buffers /\ data'[p].front = data[p].flip /\ data'[p].back = data[p].back
  BY <1>1 DEF Buffers
<1>3. ~written'[p] /\ \A q \in Pds : q # p => data'[q] = data[q] /\ written'[q] = written[q]
  BY <1>0 DEF DataTypeOK
<1>4. DataTypeOK'
  BY <1>0, <1>2 DEF DataTypeOK
<1>5. PlacesInv' /\ PushingInv' /\ LiveInv'
  BY <1>0 DEF DataIInv, PlacesInv, Places, PushingInv, svc_list_pd_injections, LiveInv, IsLive, Kind
<1>6. BackInv'
  <2> SUFFICES ASSUME NEW d \in Providers, NEW m \in Members, NEW q \in Pds,
                      pc'[d] = "write", pd'[d] = q
               PROVE  Back(d, q, m)'
    BY DEF BackInv
  <2>1. data'[q].back = data[q].back
    BY <1>2, <1>3
  <2> QED
    BY <2>1, <1>0, BackKept DEF DataIInv, BackInv
<1>7. FrameIsDue'
  <2> SUFFICES ASSUME NEW q \in Pds
               PROVE  Seen(q)' = Seen(q)
    BY <1>0 DEF DataIInv, FrameIsDue
  <2>1. CASE q = p
    BY <2>1, <1>0, <1>2, <1>3 DEF Seen, IsLive, Kind
  <2>2. CASE q # p
    <3>1. data'[q] = data[q] /\ written'[q] = written[q] /\ form' = form
      BY <2>2, <1>0, <1>3
    <3> QED
      BY <3>1 DEF Seen, Live, IsLive, Kind
  <2> QED
    BY <2>1, <2>2
<1> QED
  BY <1>4, <1>5, <1>6, <1>7 DEF DataIInv

(* An override is set between pushes only (~Overlap): no frame changes.    *)
LEMMA SetOverrideStep ==
  ASSUME ~Overlap, DataIInv, IInv', NEW p \in Pds, NEW m \in Members, NEW n \in Asked,
         NEW b \in BOOLEAN, Serviced, Places(p, m) # {}, SetOverride(p, m, n, b)
  PROVE  DataIInv'
<1> DEFINE e == [value |-> n, initialized |-> b]
<1>0. /\ TypeOK /\ DataTypeOK /\ pushing = {} /\ e \in Overrides
      /\ pd_injections' = [pd_injections EXCEPT ![p][m] = e]
      /\ deleted' = [deleted EXCEPT ![p] = @ \ {m}]
      /\ UNCHANGED <<provider, hash, pc, pd, owned, form, data, written, pushing, rest, input, due>>
  BY MemberAssumption DEF SetOverride, Serviced, vars, memory, DataIInv, IInv, Overrides
<1>1. DataTypeOK'
  <2>1. pd_injections' \in [Pds -> [Members -> Overrides \cup {NoValue}]]
    BY <1>0 DEF DataTypeOK
  <2>2. deleted' \in [Pds -> SUBSET Members]
    BY <1>0 DEF DataTypeOK
  <2> QED
    BY <2>1, <2>2, <1>0 DEF DataTypeOK
<1>2. PlacesInv'
  <2>1. \A q \in Pds, k \in Members : ~(q = p /\ k = m) => pd_injections'[q][k] = pd_injections[q][k]
    BY <1>0 DEF DataTypeOK
  <2> QED
    BY <2>1, <1>0 DEF DataIInv, PlacesInv, Places
<1>3. PushingInv' /\ LiveInv' /\ FrameIsDue'
  BY <1>0 DEF DataIInv, PushingInv, LiveInv, FrameIsDue, Seen, Live, IsLive, Kind
<1>4. BackInv'
  BY <1>0 DEF DataIInv, BackInv, Back
<1> QED
  BY <1>1, <1>2, <1>3, <1>4 DEF DataIInv

(* del_injection changes nothing.                                          *)
LEMMA DelInjectionStep ==
  ASSUME DataIInv, IInv', NEW p \in Pds, NEW m \in Members, DelInjection(p, m)
  PROVE  DataIInv'
<1>0. /\ TypeOK /\ DataTypeOK
      /\ deleted' = [deleted EXCEPT ![p] = @ \cup {m}]
      /\ UNCHANGED <<provider, hash, pc, pd, owned, form, data, written, pd_injections, pushing, rest, input, due>>
  BY DEF DelInjection, vars, memory, DataIInv, IInv
<1>1. DataTypeOK'
  BY <1>0 DEF DataTypeOK
<1>2. PlacesInv' /\ PushingInv' /\ LiveInv' /\ FrameIsDue'
  BY <1>0 DEF DataIInv, PlacesInv, Places, PushingInv, svc_list_pd_injections, LiveInv, FrameIsDue,
              Seen, Live, IsLive, Kind
<1>3. BackInv'
  <2> SUFFICES ASSUME NEW d \in Providers, NEW k \in Members, NEW q \in Pds,
                      pc'[d] = "write", pd'[d] = q
               PROVE  Back(d, q, k)'
    BY DEF BackInv
  <2> QED
    BY <1>0, BackKept DEF DataIInv, BackInv
<1> QED
  BY <1>1, <1>2, <1>3 DEF DataIInv

(* A registration changes no frame.                                        *)
LEMMA RegisterStep ==
  ASSUME DataIInv, IInv', NEW c \in Providers, Register(c)
  PROVE  DataIInv'
<1>0. TypeOK /\ UNCHANGED datavars /\ \A d \in pushing : pc[d] = "write"
  BY DEF Register, DataIInv, IInv, PushingInv
<1>1. /\ \A d \in Providers : pc'[d] = "write" => pc[d] = "write" /\ pd'[d] = pd[d]
      /\ \A d \in Providers : pc[d] = "write" => pc'[d] = "write" \/ d \notin pushing
  <2>2. CASE SetStore(c) \/ SetHash(c) \/ ResetHash(c) \/ ResetProvider(c)
    BY <2>2, <1>0 DEF SetStore, SetHash, ResetHash, ResetProvider, Goto, TypeOK
  <2>3. CASE \E p \in Pds : SetCheck(c, p) \/ ResetCheck(c, p)
    BY <2>3, <1>0 DEF SetCheck, ResetCheck, Goto, TypeOK
  <2> QED
    BY <2>2, <2>3 DEF Register
<1>2. pushing \subseteq Providers
  BY DEF DataIInv, DataTypeOK
<1> QED
  BY <1>0, <1>1, <1>2, FramesAlone

(* Every step preserves the invariant.                                     *)
LEMMA DataNextIInv ==
  ASSUME ~Shared, ~Overlap, DataIInv, [DataNext]_allvars
  PROVE  DataIInv'
<1>0. IInv'
  BY AccessNext, DataStepIsAccessStep DEF DataIInv
<1>1. CASE UNCHANGED allvars
  <2>1. \A d \in pushing : pc[d] = "write"
    BY DEF DataIInv, PushingInv
  <2>2. UNCHANGED <<pc, pd, datavars>>
    BY <1>1 DEF allvars, vars
  <2> QED
    BY <1>0, <2>1, <2>2, FramesAlone
<1>2. ASSUME NEW c \in Providers, Register(c) \/ Provide(c)
      PROVE  DataIInv'
  <2>0. CASE Register(c)
    BY <2>0, <1>0, RegisterStep
  <2>1. CASE LetGo(c)
    BY <2>1, <1>0, LetGoStep
  <2>2. CASE PushFrame(c)
    BY <2>2, <1>0, PushFrameStep
  <2>3. CASE Inject(c)
    BY <2>3, <1>0, InjectStep
  <2>4. CASE PushThrows(c)
    BY <2>4, <1>0, PushThrowsStep
  <2>5. CASE Publish(c)
    BY <2>5, <1>0, PublishStep
  <2>6. CASE \E m \in Members, v \in Values : Fill(c, m, v)
    BY <2>6, <1>0, FillStep
  <2>7. CASE \E p \in Pds : Begin(c, p) \/ SetPtr(c, p)
    BY <2>7, <1>0, BeginStep, SetPtrStep
  <2> QED
    BY <1>2, <2>0, <2>1, <2>2, <2>3, <2>4, <2>5, <2>6, <2>7 DEF Provide
<1>3. ASSUME NEW p \in Pds, Pop(p)
      PROVE  DataIInv'
  BY <1>3, <1>0, PopStep
<1>4. ASSUME NEW p \in Pds, NEW m \in Members, Serve(p, m)
      PROVE  DataIInv'
  <2>1. CASE DelInjection(p, m)
    BY <2>1, <1>0, DelInjectionStep
  <2>2. ASSUME NEW n \in Asked, AddInjection(p, m, n)
        PROVE  DataIInv'
    BY <2>2, <1>0, SetOverrideStep DEF AddInjection, Found
  <2>3. ASSUME NEW n \in Asked, AddUninitialized(p, m, n)
        PROVE  DataIInv'
    BY <2>3, <1>0, SetOverrideStep DEF AddUninitialized
  <2> QED
    BY <1>4, <2>1, <2>2, <2>3 DEF Serve
<1> QED
  BY <1>1, <1>2, <1>3, <1>4 DEF DataNext, Crashed

(* The invariant of frames, overrides and registrations.                   *)
THEOREM DataInvariance ==
  ASSUME ~Shared, ~Overlap
  PROVE  DataSpec => []DataIInv
<1>1. DataIInv /\ [DataNext]_allvars => DataIInv'
  BY DataNextIInv
<1> QED
  BY DataInitIInv, <1>1, PTL DEF DataSpec

(* Type correctness of the registrations, the frames and the overrides.    *)
THEOREM TypeCorrect ==
  ASSUME ~Shared, ~Overlap
  PROVE  DataSpec => [](TypeOK /\ DataTypeOK)
<1>1. DataIInv => TypeOK /\ DataTypeOK
  BY DEF DataIInv, IInv
<1> QED
  BY DataInvariance, <1>1, PTL

(* What the consumer gets by push() carries the overrides in force when the *)
(* frame was pushed, and otherwise what the provider wrote into that frame; *)
(* what it gets by a write() to a single or pointer buffer carries none.    *)
THEOREM FrameIsDueHolds ==
  ASSUME ~Shared, ~Overlap
  PROVE  DataSpec => []FrameIsDue
<1>1. DataIInv => FrameIsDue
  BY DEF DataIInv
<1> QED
  BY DataInvariance, <1>1, PTL

-----------------------------------------------------------------------------
(* The memory of a triple_buffer: three frames, exchanged in one step.     *)

(* All frames are alike at construction. *)
LEMMA MemoryInit ==
  ASSUME DataInit, NEW p \in Pds
  PROVE  Memory(p)!Init
BY DEF DataInit, Memory!Init

(* A member of the back frame is written. *)
LEMMA StoredIsStore ==
  ASSUME DataTypeOK, NEW p \in Pds, NEW q \in Pds, NEW m \in Members, NEW v \in Nat,
         data' = [data EXCEPT ![q].back[m] = v], UNCHANGED written
  PROVE  Memory(p)!Next \/ UNCHANGED Memory(p)!vars
<1>1. CASE q # p
  BY <1>1 DEF DataTypeOK, Memory!vars
<1>2. CASE q = p
  <2>1. /\ data'[p].back = [data[p].back EXCEPT ![m] = v]
        /\ data'[p].flip = data[p].flip /\ data'[p].front = data[p].front
    BY <1>2 DEF DataTypeOK, Buffers
  <2>2. Memory(p)!Store(m, v)
    BY <2>1 DEF Memory!Store
  <2> QED
    BY <2>2 DEF Memory!Next
<1> QED
  BY <1>1, <1>2

(* Each step of ProcessData stores into the back frame of p, exchanges two *)
(* of its frames or leaves all three alone.                                *)
LEMMA MemoryStep ==
  ASSUME DataIInv, NEW p \in Pds, Kind(p) = "triple", [DataNext]_allvars
  PROVE  Memory(p)!Next \/ UNCHANGED Memory(p)!vars
<1>0. /\ TypeOK /\ DataTypeOK /\ \A q \in Pds : data[q] \in Buffers
      /\ \A c \in Providers : pc[c] = "write" => pd[c] \in Pds
      /\ \A c \in pushing : c \in Providers /\ pc[c] = "write" /\ pd[c] \in Pds
  BY DEF DataIInv, IInv, TypeOK, OwnedInv, OneWriter, PushingInv, DataTypeOK
<1>1. CASE UNCHANGED memory
  BY <1>1 DEF memory, Memory!vars
<1>2. ASSUME NEW c \in Providers, NEW m \in Members, NEW v \in Values, Fill(c, m, v)
      PROVE  Memory(p)!Next \/ UNCHANGED Memory(p)!vars
  BY <1>0, <1>2, StoredIsStore, MemberAssumption DEF Fill, Writing
<1>3. ASSUME NEW c \in Providers, Inject(c)
      PROVE  Memory(p)!Next \/ UNCHANGED Memory(p)!vars
  <2> DEFINE q == pd[c]
  <2>1. PICK n \in rest[c] :
          /\ UNCHANGED written
          /\ data' = IF Size(q, n) = 0 THEN data
                     ELSE [data EXCEPT ![q].back[n] = Converted(q, n, pd_injections[q][n].value)]
    BY <1>3 DEF Inject
  <2>2. q \in Pds /\ n \in Members /\ pd_injections[q][n] \in Overrides /\ Places(q, n) # {}
    BY <1>0, <1>3 DEF Inject, DataIInv, PushingInv, DataTypeOK, svc_list_pd_injections, PlacesInv
  <2>3. CASE Size(q, n) = 0
    BY <2>1, <2>3 DEF Memory!vars
  <2>4. CASE Size(q, n) # 0
    <3>1. Converted(q, n, pd_injections[q][n].value) \in Nat
      BY <1>0, <2>2, <2>4, SizeIsNat DEF Converted, Overrides
    <3> QED
      BY <1>0, <2>1, <2>2, <2>4, <3>1, StoredIsStore
  <2> QED
    BY <2>3, <2>4
<1>4. ASSUME NEW c \in Providers, Publish(c)
      PROVE  Memory(p)!Next \/ UNCHANGED Memory(p)!vars
  <2>1. pd[c] \in Pds /\ (IsLive(pd[c]) => UNCHANGED memory)
    BY <1>0, <1>4 DEF Publish
  <2>2. CASE pd[c] # p
    <3>1. data'[p] = data[p] /\ written'[p] = written[p]
      BY <1>0, <1>4, <2>1, <2>2 DEF Publish, memory, DataTypeOK
    <3> QED
      BY <3>1 DEF Memory!vars
  <2>3. CASE pd[c] = p
    <3>1. /\ data' = [data EXCEPT ![p].back = data[p].flip, ![p].flip = data[p].back]
          /\ written' = [written EXCEPT ![p] = TRUE]
      BY <1>4, <2>3 DEF Publish, IsLive
    <3>2. /\ data'[p].back = data[p].flip /\ data'[p].flip = data[p].back
          /\ data'[p].front = data[p].front /\ written'[p] = TRUE
      BY <1>0, <3>1 DEF DataTypeOK, Buffers
    <3>3. Memory(p)!Push
      BY <3>2 DEF Memory!Push
    <3> QED
      BY <3>3 DEF Memory!Next
  <2> QED
    BY <2>2, <2>3
<1>5. ASSUME NEW c \in Providers, NEW q \in Pds, SetPtr(c, q)
      PROVE  UNCHANGED Memory(p)!vars
  <2>1. q # p
    BY <1>5 DEF SetPtr
  <2>2. data'[p] = data[p] /\ written'[p] = written[p]
    BY <1>0, <1>5, <2>1 DEF SetPtr, DataTypeOK
  <2> QED
    BY <2>2 DEF Memory!vars
<1>6. ASSUME NEW q \in Pds, Pop(q)
      PROVE  Memory(p)!Next \/ UNCHANGED Memory(p)!vars
  <2>1. CASE q # p
    <3>1. data'[p] = data[p] /\ written'[p] = written[p]
      BY <1>0, <1>6, <2>1 DEF Pop, DataTypeOK
    <3> QED
      BY <3>1 DEF Memory!vars
  <2>2. CASE q = p
    <3>1. /\ data'[p].front = data[p].flip /\ data'[p].flip = data[p].front
          /\ data'[p].back = data[p].back /\ written[p] /\ written'[p] = FALSE
      BY <1>0, <1>6, <2>2 DEF Pop, DataTypeOK, Buffers
    <3>2. Memory(p)!Pop
      BY <3>1 DEF Memory!Pop
    <3> QED
      BY <3>2 DEF Memory!Next
  <2> QED
    BY <2>1, <2>2
<1> QED
  BY <1>1, <1>2, <1>3, <1>4, <1>5, <1>6
     DEF DataNext, Register, Provide, Serve, Begin, LetGo, PushFrame, PushThrows, AddInjection,
         AddUninitialized, SetOverride, DelInjection, allvars, datavars

(* Whoever is registered, whatever overrides are in force and whichever    *)
(* pushes fail: the memory of a triple buffer is only ever written and     *)
(* exchanged as TripleFrames says, which the lock-free code implements.    *)
THEOREM ImplementsTripleFrames ==
  ASSUME ~Shared, ~Overlap, NEW p \in Pds
  PROVE  DataSpec /\ Kind(p) = "triple" => Memory(p)!Spec
<1> DEFINE Triple == Kind(p) = "triple"
           MInit == Memory(p)!Init
           MNext == Memory(p)!Next
           MVars == Memory(p)!vars
<1>1. DataInit => MInit
  BY MemoryInit
<1>2. Triple /\ [DataNext]_allvars => Triple'
  <2> SUFFICES ASSUME Kind(p) = "triple", [DataNext]_allvars
               PROVE  UNCHANGED form
    BY DEF Kind
  <2> QED
    BY DEF DataNext, Register, Provide, Serve, Begin, LetGo, PushFrame, PushThrows, AddInjection,
           AddUninitialized, SetOverride, DelInjection, allvars, datavars, Fill, Inject, Publish,
           SetPtr, Pop
<1>3. DataIInv /\ Triple /\ [DataNext]_allvars => [MNext]_MVars
  BY MemoryStep
<1>4. DataSpec => []DataIInv
  BY DataInvariance
<1>5. MInit /\ [][MNext]_MVars => Memory(p)!Spec
  BY DEF Memory!Spec
<1>6. DataSpec /\ Triple => MInit /\ [][MNext]_MVars
  <2> HIDE DEF Triple, MInit, MNext, MVars
  <2> QED
    BY <1>1, <1>2, <1>3, <1>4, PTL DEF DataSpec
<1> QED
  BY <1>5, <1>6
=============================================================================
