-------------------------- MODULE ModuleBaseProofs --------------------------
(***************************************************************************)
(* Proofs about ModuleStates and ModuleBase: a request runs hooks that     *)
(* bring the module exactly where it asks, hence the state tells what the  *)
(* hooks have done, a call that returns 0 has reached its target, and two  *)
(* hooks never run at the same time, for any number of callers.            *)
(***************************************************************************)
EXTENDS ModuleBase, SequenceTheorems, TLAPS

LEMMA Ladders ==
  ASSUME NEW s \in States \ {error}
  PROVE  Rung(s) \in 1 .. 4 /\ Ladder[Rung(s)] = Norm(s)
BY DEF States, Rung, Ladder, Norm, init, preop, safeop, op, boot, error

LEMMA LadderRuns == \A i \in 1 .. 4 : Ladder[i] \in Runs
BY DEF Ladder, Runs

LEMMA FunctionIsSeq ==
  ASSUME NEW S, NEW n \in Nat, NEW f \in [1 .. n -> S]
  PROVE  f \in Seq(S) /\ Len(f) = n
OBVIOUS

(* The hooks of a request are a sequence of steps that start where the     *)
(* module is and end where the request asks, each where the one before it  *)
(* has ended; when there are none the module is as low or as high.         *)
LEMMA HooksReach ==
  ASSUME NEW s \in States, NEW r \in States \ {error}
  PROVE  /\ Hooks(s, r) \in Seq(Runs \X Runs) /\ Linked(Hooks(s, r))
         /\ Hooks(s, r) # <<>> => Last(Hooks(s, r))[2] = Norm(r) /\ Head(Hooks(s, r))[1] = Norm(s)
         /\ Hooks(s, r) = <<>> /\ s # error => Norm(s) = Norm(r)
<1>1. CASE s = error
  BY <1>1, EmptySeq DEF Hooks, Linked
<1> SUFFICES ASSUME s # error PROVE
         /\ Hooks(s, r) \in Seq(Runs \X Runs) /\ Linked(Hooks(s, r))
         /\ Hooks(s, r) # <<>> => Last(Hooks(s, r))[2] = Norm(r) /\ Head(Hooks(s, r))[1] = Norm(s)
         /\ Hooks(s, r) = <<>> => Norm(s) = Norm(r)
  BY <1>1
<1> DEFINE a == Rung(s)
           b == Rung(r)
<1>2. a \in 1 .. 4 /\ b \in 1 .. 4 /\ Ladder[a] = Norm(s) /\ Ladder[b] = Norm(r)
  BY Ladders
<1>3. error \notin {s, r}
  OBVIOUS
<1> HIDE DEF a, b
<1>4. CASE a < b
  <2>1. Hooks(s, r) = [i \in 1 .. b - a |-> <<Ladder[a + i - 1], Ladder[a + i]>>]
    BY <1>3, <1>4 DEF Hooks, ClimbHooks, a, b
  <2>2. b - a \in Nat /\ b - a # 0
    BY <1>2, <1>4
  <2>3. \A i \in 1 .. b - a : a + i - 1 \in 1 .. 4 /\ a + i \in 1 .. 4
    BY <1>2
  <2>4. Hooks(s, r) \in [1 .. b - a -> Runs \X Runs]
    BY <2>1, <2>3, LadderRuns
  <2>5. Hooks(s, r) \in Seq(Runs \X Runs) /\ Len(Hooks(s, r)) = b - a
    BY <2>2, <2>4, FunctionIsSeq
  <2>6. Last(Hooks(s, r)) = <<Ladder[a + (b - a) - 1], Ladder[a + (b - a)]>>
    BY <2>1, <2>2, <2>5 DEF Last
  <2>7. a + (b - a) = b
    BY <1>2
  <2>8. Linked(Hooks(s, r))
    <3> SUFFICES ASSUME NEW i \in 1 .. (b - a) - 1
                 PROVE  Hooks(s, r)[i][2] = Hooks(s, r)[i + 1][1]
      BY <2>5 DEF Linked
    <3>1. i \in 1 .. b - a /\ i + 1 \in 1 .. b - a /\ a + (i + 1) - 1 = a + i
      BY <1>2, <2>2
    <3> QED BY <2>1, <3>1
  <2>9. Hooks(s, r) # <<>> /\ Head(Hooks(s, r))[1] = Norm(s)
    <3>1. Hooks(s, r) # <<>> /\ Head(Hooks(s, r)) = Hooks(s, r)[1] /\ 1 \in 1 .. b - a
      BY <2>2, <2>5, EmptySeq
    <3>2. a + 1 - 1 = a
      BY <1>2
    <3> QED BY <2>1, <3>1, <3>2, <1>2
  <2> QED BY <2>2, <2>5, <2>6, <2>7, <2>8, <2>9, <1>2
<1>5. CASE ~(a < b)
  <2>1. Hooks(s, r) = [i \in 1 .. a - b |-> <<Ladder[a - i + 1], Ladder[a - i]>>]
    BY <1>3, <1>5 DEF Hooks, DescentHooks, a, b
  <2>2. a - b \in Nat
    BY <1>2, <1>5
  <2>3. \A i \in 1 .. a - b : a - i + 1 \in 1 .. 4 /\ a - i \in 1 .. 4
    BY <1>2
  <2>4. Hooks(s, r) \in [1 .. a - b -> Runs \X Runs]
    BY <2>1, <2>3, LadderRuns
  <2>5. Hooks(s, r) \in Seq(Runs \X Runs) /\ Len(Hooks(s, r)) = a - b
    BY <2>2, <2>4, FunctionIsSeq
  <2>6. ASSUME Hooks(s, r) # <<>> PROVE Last(Hooks(s, r))[2] = Norm(r)
    <3>1. a - b \in 1 .. a - b
      BY <2>2, <2>5, <2>6, EmptySeq
    <3>2. Last(Hooks(s, r)) = <<Ladder[a - (a - b) + 1], Ladder[a - (a - b)]>>
      BY <3>1, <2>1, <2>5 DEF Last
    <3>3. a - (a - b) = b
      BY <1>2
    <3> QED BY <3>2, <3>3, <1>2
  <2>7. ASSUME Hooks(s, r) = <<>> PROVE Norm(s) = Norm(r)
    BY <2>7, <2>2, <2>5, <1>2, EmptySeq
  <2>8. Linked(Hooks(s, r))
    <3> SUFFICES ASSUME NEW i \in 1 .. (a - b) - 1
                 PROVE  Hooks(s, r)[i][2] = Hooks(s, r)[i + 1][1]
      BY <2>5 DEF Linked
    <3>1. i \in 1 .. a - b /\ i + 1 \in 1 .. a - b /\ a - (i + 1) + 1 = a - i
      BY <1>2, <2>2
    <3> QED BY <2>1, <3>1
  <2>9. ASSUME Hooks(s, r) # <<>> PROVE Head(Hooks(s, r))[1] = Norm(s)
    <3>1. Head(Hooks(s, r)) = Hooks(s, r)[1] /\ 1 \in 1 .. a - b
      BY <2>2, <2>5, <2>9, EmptySeq
    <3>2. a - 1 + 1 = a
      BY <1>2
    <3> QED BY <2>1, <3>1, <3>2, <1>2
  <2> QED BY <2>5, <2>6, <2>7, <2>8, <2>9
<1> QED BY <1>4, <1>5

LEMMA ClimbEnds ==
  ASSUME NEW s \in Runs, NEW to \in Runs
  PROVE  /\ Climb(s, to) \in Seq(Asked)
         /\ s < to => Climb(s, to) # <<>> /\ Last(Climb(s, to)) = to
         /\ ~(s < to) => Climb(s, to) = <<>>
<1> DEFINE a == Rung(s) + 1
           b == Rung(to)
<1>1. a \in 2 .. 5 /\ b \in 1 .. 4 /\ Ladder[b] = to /\ (s < to <=> a <= b)
  BY DEF Runs, Rung, Ladder, init, preop, safeop, op
<1> HIDE DEF a, b
<1>2. \A i \in a .. b : Ladder[i] \in Asked
  <2>1. \A i \in a .. b : i \in 1 .. 4
    BY <1>1
  <2>2. Runs \subseteq Asked
    BY DEF Runs, Asked, States, init, preop, safeop, op, boot, error
  <2> QED BY <2>1, <2>2, LadderRuns
<1>3. Climb(s, to) = SubSeq(Ladder, a, b)
  BY DEF Climb, a, b
<1>4. /\ Climb(s, to) \in Seq(Asked)
      /\ Len(Climb(s, to)) = IF a <= b THEN b - a + 1 ELSE 0
      /\ \A i \in 1 .. b - a + 1 : Climb(s, to)[i] = Ladder[a + i - 1]
  BY <1>1, <1>2, <1>3, SubSeqProperties
<1>5. ASSUME s < to PROVE Climb(s, to) # <<>> /\ Last(Climb(s, to)) = to
  <2>1. Len(Climb(s, to)) = b - a + 1 /\ b - a + 1 \in 1 .. b - a + 1
    BY <1>1, <1>4, <1>5
  <2>2. Last(Climb(s, to)) = Ladder[a + (b - a + 1) - 1]
    BY <2>1, <1>4 DEF Last
  <2>3. a + (b - a + 1) - 1 = b /\ b - a + 1 # 0
    BY <1>1, <2>1
  <2> QED BY <2>1, <2>2, <2>3, <1>1, EmptySeq
<1>6. ASSUME ~(s < to) PROVE Climb(s, to) = <<>>
  BY <1>1, <1>3, <1>6, SubSeqEmpty
<1> QED BY <1>4, <1>5, <1>6

LEMMA DescentEnds ==
  ASSUME NEW s \in Runs, NEW to \in {init, preop, boot},
         to = boot \/ to < s
  PROVE  Descent(s, to) \in Seq(Asked) /\ Descent(s, to) # <<>> /\ Last(Descent(s, to)) = to
<1> DEFINE path == <<preop, init, boot>>
           a == CASE s = init -> 3 [] s = preop -> 2 [] OTHER -> 1
           b == CASE to = preop -> 1 [] to = init -> 2 [] OTHER -> 3
<1>1. a \in 1 .. 3 /\ b \in a .. 3 /\ path[b] = to
  BY DEF Runs, init, preop, safeop, op, boot
<1>2. \A i \in 1 .. 3 : path[i] \in Asked
  BY DEF Asked, States, init, preop, boot, error
<1>3. Descent(s, to) = SubSeq(path, a, b)
  BY DEF Descent
<1> HIDE DEF a, b, path
<1>4. \A i \in a .. b : path[i] \in Asked
  BY <1>1, <1>2
<1>5. /\ Descent(s, to) \in Seq(Asked)
      /\ Len(Descent(s, to)) = IF a <= b THEN b - a + 1 ELSE 0
      /\ \A i \in 1 .. b - a + 1 : Descent(s, to)[i] = path[a + i - 1]
  BY <1>1, <1>3, <1>4, SubSeqProperties
<1>6. Len(Descent(s, to)) = b - a + 1 /\ b - a + 1 \in 1 .. b - a + 1
  BY <1>1, <1>5
<1>7. Last(Descent(s, to)) = path[a + (b - a + 1) - 1]
  BY <1>5, <1>6 DEF Last
<1>8. a + (b - a + 1) - 1 = b /\ b - a + 1 # 0
  BY <1>1, <1>6
<1> QED BY <1>1, <1>5, <1>6, <1>7, <1>8, EmptySeq

(* The requests of a transition end with the state that was asked for. *)
LEMMA RequestsEnd ==
  ASSUME NEW s \in States, NEW to \in States, Known(s, to)
  PROVE  Requests(s, to) \in Seq(Asked) /\ Requests(s, to) # <<>> /\ Last(Requests(s, to)) = to
<1>1. to \in Asked
  BY DEF Known, Asked, States, init, preop, safeop, op, boot, error
<1>2. <<to>> \in Seq(Asked) /\ <<to>> # <<>> /\ Last(<<to>>) = to
  BY <1>1 DEF Last
<1>3. CASE s = error \/ (s = to /\ s # boot) \/ (s = op /\ to = safeop)
  <2>1. Requests(s, to) = <<to>>
    BY <1>3 DEF Requests, op, boot
  <2> QED BY <1>2, <2>1
<1>4. CASE s = boot
  <2>1. to \in Runs /\ init \in Runs /\ init \in Asked
    BY <1>4 DEF Known, Runs, Asked, States, init, preop, safeop, op, boot, error
  <2>2. Requests(s, to) = <<init>> \o Climb(init, to)
    BY <1>4, <2>1 DEF Requests, Runs, init, preop, safeop, op, boot, error
  <2>3. Climb(init, to) \in Seq(Asked) /\ <<init>> \in Seq(Asked) /\ Len(<<init>>) = 1
    BY <2>1, ClimbEnds
  <2>4. /\ Requests(s, to) \in Seq(Asked)
        /\ Len(Requests(s, to)) = 1 + Len(Climb(init, to))
        /\ \A i \in 1 .. 1 + Len(Climb(init, to)) :
             Requests(s, to)[i] = IF i <= 1 THEN <<init>>[i] ELSE Climb(init, to)[i - 1]
    BY <2>2, <2>3, ConcatProperties
  <2>5. Len(Climb(init, to)) \in Nat
    BY <2>3, LenProperties
  <2>6. Requests(s, to) # <<>>
    BY <2>4, <2>5, EmptySeq
  <2>7. Last(Requests(s, to)) = to
    <3>1. CASE init < to
      <4>1. Len(Climb(init, to)) \in Nat \ {0} /\ Last(Climb(init, to)) = to
        BY <2>1, <2>3, <3>1, ClimbEnds, EmptySeq
      <4> QED BY <4>1, <2>4 DEF Last
    <3>2. CASE ~(init < to)
      <4>1. Climb(init, to) = <<>>
        BY <2>1, <3>2, ClimbEnds
      <4>2. to = init
        BY <2>1, <3>2 DEF Runs, init, preop, safeop, op
      <4> QED BY <4>1, <4>2, <2>2 DEF Last
    <3> QED BY <3>1, <3>2
  <2> QED BY <2>4, <2>6, <2>7
<1>5. CASE s \in Runs /\ to \in Runs /\ s < to
  <2>1. Requests(s, to) = Climb(s, to)
    BY <1>5 DEF Requests, Runs, init, preop, safeop, op, boot, error
  <2> QED BY <1>5, <2>1, ClimbEnds
<1>6. CASE s \in Runs /\ to \in {init, preop, boot} /\ (to = boot \/ to < s)
  <2>1. Requests(s, to) = Descent(s, to)
    BY <1>6 DEF Requests, Runs, init, preop, safeop, op, boot, error
  <2> QED BY <1>6, <2>1, DescentEnds
<1> QED
  BY <1>3, <1>4, <1>5, <1>6 DEF Known, Runs, States, init, preop, safeop, op, boot, error

(* What is left of a chain after its first element ends as before. *)
LEMMA TailEnds ==
  ASSUME NEW S, NEW q \in Seq(S), q # <<>>
  PROVE  /\ Head(q) \in S /\ Tail(q) \in Seq(S)
         /\ Tail(q) = <<>> => Head(q) = Last(q)
         /\ Tail(q) # <<>> => Last(Tail(q)) = Last(q)
<1>1. /\ Head(q) = q[1] /\ Head(q) \in S /\ Tail(q) \in Seq(S)
      /\ Len(q) \in Nat \ {0} /\ Len(Tail(q)) = Len(q) - 1
      /\ \A i \in 1 .. Len(q) - 1 : Tail(q)[i] = q[i + 1]
  BY HeadTailProperties, EmptySeq
<1>2. ASSUME Tail(q) = <<>> PROVE Head(q) = Last(q)
  <2>1. Len(Tail(q)) = 0
    BY <1>2, EmptySeq
  <2>2. Len(q) = 1
    <3>1. Len(q) - 1 = 0
      BY <1>1, <2>1
    <3>2. Len(q) \in Nat
      BY <1>1
    <3> QED BY <3>1, <3>2
  <2> QED BY <1>1, <2>2 DEF Last
<1>3. ASSUME Tail(q) # <<>> PROVE Last(Tail(q)) = Last(q)
  <2>1. Len(Tail(q)) # 0
    BY <1>1, <1>3, EmptySeq
  <2>2. Len(q) - 1 \in 1 .. Len(q) - 1
    BY <1>1, <2>1
  <2>3. Last(Tail(q)) = Tail(q)[Len(q) - 1]
    BY <1>1 DEF Last
  <2>4. Tail(q)[Len(q) - 1] = q[Len(q) - 1 + 1]
    BY <1>1, <2>2
  <2>5. Len(q) - 1 + 1 = Len(q)
    BY <1>1
  <2> QED BY <2>3, <2>4, <2>5 DEF Last
<1> QED BY <1>1, <1>2, <1>3

(* The hooks after the first one follow on it. *)
LEMMA TailLinked ==
  ASSUME NEW S, NEW q \in Seq(S), q # <<>>, Linked(q)
  PROVE  Linked(Tail(q)) /\ (Tail(q) # <<>> => Head(Tail(q))[1] = Head(q)[2])
<1>1. /\ Head(q) = q[1] /\ Tail(q) \in Seq(S)
      /\ Len(q) \in Nat \ {0} /\ Len(Tail(q)) = Len(q) - 1
      /\ \A i \in 1 .. Len(q) - 1 : Tail(q)[i] = q[i + 1]
  BY HeadTailProperties, EmptySeq
<1>2. Linked(Tail(q))
  <2> SUFFICES ASSUME NEW i \in 1 .. (Len(q) - 1) - 1
               PROVE  Tail(q)[i][2] = Tail(q)[i + 1][1]
    BY <1>1 DEF Linked
  <2>1. i \in 1 .. Len(q) - 1 /\ i + 1 \in 1 .. Len(q) - 1
    BY <1>1
  <2>2. q[i + 1][2] = q[(i + 1) + 1][1]
    BY <2>1 DEF Linked
  <2> QED BY <1>1, <2>1, <2>2
<1>3. ASSUME Tail(q) # <<>> PROVE Head(Tail(q))[1] = Head(q)[2]
  <2>1. 1 \in 1 .. Len(q) - 1 /\ Head(Tail(q)) = Tail(q)[1]
    BY <1>1, <1>3, EmptySeq
  <2>2. q[1][2] = q[1 + 1][1] /\ Tail(q)[1] = q[1 + 1]
    BY <1>1, <2>1 DEF Linked
  <2> QED BY <1>1, <2>1, <2>2
<1> QED BY <1>2, <1>3

-----------------------------------------------------------------------------
LEMMA InitInv == Init => IInv
<1> SUFFICES ASSUME Init PROVE IInv
  OBVIOUS
<1>1. init \in States /\ init \in Runs /\ init # error /\ Norm(init) = init
  BY DEF States, Runs, Norm, init, boot, error
<1>2. TypeOK
  BY <1>1 DEF Init, TypeOK
<1>3. LockInv /\ CallInv
  BY CallersAssumption DEF Init, LockInv, CallInv
<1>4. LevelInv
  BY <1>1 DEF Init, LevelInv
<1> QED BY <1>2, <1>3, <1>4 DEF IInv

LEMMA CallStep ==
  ASSUME IInv, NEW t \in Callers, NEW to \in Targets, Call(t, to)
  PROVE  IInv'
<1> USE DEF IInv
<1>0. to \in States /\ state \in States /\ Asked \subseteq States /\ 0 - 1 \in {0, 0 - 1}
  BY TargetsAssumption DEF TypeOK, Asked
<1>1. CASE Known(state, to)
  <2>0. /\ pc[t] = "idle" /\ target' = [target EXCEPT ![t] = to]
        /\ pc' = [pc EXCEPT ![t] = "ask"]
        /\ requests' = [requests EXCEPT ![t] = Requests(state, to)]
        /\ UNCHANGED <<hooks, result, state, state_mtx, level, stale, clean>>
    BY <1>1 DEF Call, Goto
  <2>1. /\ Requests(state, to) \in Seq(Asked) /\ Requests(state, to) # <<>>
        /\ Last(Requests(state, to)) = to
    BY <1>0, <1>1, RequestsEnd
  <2>2. Requests(state, to) \in Seq(States)
    BY <1>0, <2>1, SeqMonotonic
  <2>3. TypeOK'
    BY <1>0, <2>0, <2>2 DEF TypeOK
  <2>4. LockInv' /\ LevelInv'
    BY <2>0 DEF TypeOK, LockInv, LevelInv
  <2>5. CallInv'
    BY <2>0, <2>1 DEF TypeOK, CallInv
  <2> QED BY <2>3, <2>4, <2>5
<1>2. CASE ~Known(state, to)
  <2>0. /\ pc[t] = "idle" /\ target' = [target EXCEPT ![t] = to]
        /\ pc' = [pc EXCEPT ![t] = "idle"]
        /\ result' = [result EXCEPT ![t] = 0 - 1]
        /\ requests' = [requests EXCEPT ![t] = <<>>]
        /\ hooks' = [hooks EXCEPT ![t] = <<>>]
        /\ UNCHANGED <<state, state_mtx, level, stale, clean>>
    BY <1>2 DEF Call, Goto, Return
  <2>1. TypeOK'
    BY <1>0, <2>0 DEF TypeOK
  <2>2. LockInv' /\ LevelInv' /\ CallInv'
    BY <2>0 DEF TypeOK, LockInv, LevelInv, CallInv
  <2> QED BY <2>1, <2>2
<1> QED BY <1>1, <1>2

LEMMA AskStep ==
  ASSUME IInv, NEW t \in Callers, Ask(t)
  PROVE  IInv'
<1> USE DEF IInv
<1> DEFINE r  == Head(requests[t])
           hs == Hooks(state, r)
<1>0. /\ pc[t] = "ask" /\ hooks' = [hooks EXCEPT ![t] = hs]
      /\ pc' = [pc EXCEPT ![t] = IF hs = <<>> THEN "final" ELSE "lock"]
      /\ stale' = stale \ {t}
      /\ UNCHANGED <<state, state_mtx, target, requests, result, level, clean>>
  BY DEF Ask, Goto
<1>1. r \in Asked /\ state \in States
  BY <1>0, TailEnds DEF CallInv, TypeOK
<1>2. /\ hs \in Seq(Runs \X Runs) /\ Linked(hs)
      /\ hs # <<>> => Last(hs)[2] = Norm(r) /\ Head(hs)[1] = Norm(state)
      /\ hs = <<>> /\ state # error => Norm(state) = Norm(r)
  BY <1>1, HooksReach DEF Asked
<1>3. hs \in Seq(Hook)
  <2>1. Runs \X Runs \subseteq Hook
    BY DEF Runs, Hook, States
  <2> QED BY <1>2, <2>1, SeqMonotonic
<1> HIDE DEF hs
<1>4. TypeOK'
  BY <1>0, <1>3 DEF TypeOK
<1>5. LockInv'
  BY <1>0 DEF TypeOK, LockInv
<1>6. CallInv'
  BY <1>0, <1>2 DEF TypeOK, CallInv
<1>7. LevelInv'
  BY <1>0, <1>2 DEF TypeOK, LevelInv
<1> QED BY <1>4, <1>5, <1>6, <1>7

LEMMA LockStep ==
  ASSUME IInv, NEW t \in Callers, Lock(t)
  PROVE  IInv'
<1> USE DEF IInv
<1>0. /\ pc[t] = "lock" /\ state_mtx = NoOne /\ state_mtx' = t
      /\ pc' = [pc EXCEPT ![t] = "hook"]
      /\ clean' = (clean /\ t \notin stale) /\ stale' = IF t \in stale THEN {} ELSE stale
      /\ UNCHANGED <<state, target, requests, hooks, result, level>>
  BY DEF Lock, Goto, Acts
<1>1. TypeOK'
  BY <1>0 DEF TypeOK
<1>2. LockInv'
  BY <1>0, CallersAssumption DEF TypeOK, LockInv
<1>3. CallInv' /\ LevelInv'
  BY <1>0 DEF TypeOK, CallInv, LevelInv
<1> QED BY <1>1, <1>2, <1>3

LEMMA HookDoneStep ==
  ASSUME IInv, NEW t \in Callers, HookDone(t)
  PROVE  IInv'
<1> USE DEF IInv
<1> DEFINE h    == Head(hooks[t])
           rest == Tail(hooks[t])
<1>0. /\ pc[t] = "hook" /\ state' = h[2] /\ level' = h[2] /\ state_mtx' = NoOne
      /\ hooks' = [hooks EXCEPT ![t] = rest]
      /\ pc' = [pc EXCEPT ![t] = IF rest = <<>> THEN "final" ELSE "lock"]
      /\ stale' = {u \in Callers \ {t} : clean /\ (u \in stale \/ pc[u] \in {"lock", "hook", "final"})}
      /\ UNCHANGED <<target, requests, result, clean>>
  BY DEF HookDone, Goto, Outdates
<1>1. /\ h \in Runs \X Runs /\ rest \in Seq(Runs \X Runs)
      /\ rest = <<>> => h[2] = Norm(Head(requests[t]))
      /\ rest # <<>> => Last(rest)[2] = Norm(Head(requests[t])) /\ Head(rest)[1] = h[2]
      /\ Linked(rest)
  BY <1>0, TailEnds, TailLinked DEF CallInv
<1>2. rest \in Seq(Hook)
  <2>1. Runs \X Runs \subseteq Hook
    BY DEF Runs, Hook, States
  <2> QED BY <1>1, <2>1, SeqMonotonic
<1>3. h[2] \in Runs /\ h[2] \in States /\ h[2] # error /\ Norm(h[2]) = h[2]
  BY <1>1 DEF Runs, States, Norm, init, preop, safeop, op, boot, error
<1> HIDE DEF h, rest
<1>4. TypeOK'
  BY <1>0, <1>2, <1>3 DEF TypeOK
<1>5. LockInv'
  BY <1>0, CallersAssumption DEF TypeOK, LockInv
<1>6. CallInv'
  BY <1>0, <1>1 DEF TypeOK, CallInv
<1>7. LevelInv'
  <2>1. \A u \in Callers \ {t} : pc[u] # "hook"
    BY <1>0, CallersAssumption DEF LockInv, TypeOK
  <2> QED BY <1>0, <1>1, <1>3, <2>1 DEF TypeOK, LevelInv
<1> QED BY <1>4, <1>5, <1>6, <1>7

LEMMA HookThrowsStep ==
  ASSUME IInv, NEW t \in Callers, HookThrows(t)
  PROVE  IInv'
<1> USE DEF IInv
<1>0. /\ pc[t] = "hook" /\ state_mtx' = NoOne /\ pc' = [pc EXCEPT ![t] = "idle"]
      /\ result' = [result EXCEPT ![t] = 0 - 1]
      /\ requests' = [requests EXCEPT ![t] = <<>>] /\ hooks' = [hooks EXCEPT ![t] = <<>>]
      /\ UNCHANGED <<state, target, level, stale, clean>>
  BY DEF HookThrows, Goto, Return
<1>1. TypeOK'
  BY <1>0 DEF TypeOK
<1>2. LockInv'
  BY <1>0, CallersAssumption DEF TypeOK, LockInv
<1>3. CallInv' /\ LevelInv'
  BY <1>0 DEF TypeOK, CallInv, LevelInv
<1> QED BY <1>1, <1>2, <1>3

LEMMA FinalStep ==
  ASSUME IInv, NEW t \in Callers, Final(t)
  PROVE  IInv'
<1> USE DEF IInv
<1> DEFINE r    == Head(requests[t])
           rest == Tail(requests[t])
<1>0. /\ pc[t] = "final" /\ state' = r
      /\ clean' = (clean /\ t \notin stale) /\ stale' = IF t \in stale THEN {} ELSE stale
      /\ UNCHANGED <<state_mtx, target, level>>
  BY DEF Final, Acts
<1>1. /\ r \in Asked /\ rest \in Seq(Asked)
      /\ rest # <<>> => Last(rest) = target[t]
  BY <1>0, TailEnds DEF CallInv
<1>2. r \in States /\ r # error /\ rest \in Seq(States)
  <2>1. Asked \subseteq States
    BY DEF Asked
  <2> QED BY <1>1, <2>1, SeqMonotonic DEF Asked
<1> HIDE DEF r, rest
<1>3. CASE rest = <<>>
  <2>0. /\ pc' = [pc EXCEPT ![t] = "idle"] /\ result' = [result EXCEPT ![t] = 0]
        /\ requests' = [requests EXCEPT ![t] = <<>>] /\ hooks' = [hooks EXCEPT ![t] = <<>>]
    BY <1>3 DEF Final, Goto, Return, rest
  <2>1. TypeOK'
    BY <1>0, <1>2, <2>0 DEF TypeOK
  <2>2. LockInv' /\ CallInv'
    BY <1>0, <2>0 DEF TypeOK, LockInv, CallInv
  <2>3. LevelInv'
    BY <1>0, <1>2, <2>0 DEF TypeOK, LevelInv, r
  <2> QED BY <2>1, <2>2, <2>3
<1>4. CASE rest # <<>>
  <2>0. /\ pc' = [pc EXCEPT ![t] = "ask"] /\ requests' = [requests EXCEPT ![t] = rest]
        /\ UNCHANGED <<hooks, result>>
    BY <1>4 DEF Final, Goto, rest
  <2>1. TypeOK'
    BY <1>0, <1>2, <2>0 DEF TypeOK
  <2>2. LockInv' /\ CallInv'
    BY <1>0, <1>1, <1>4, <2>0 DEF TypeOK, LockInv, CallInv
  <2>3. LevelInv'
    BY <1>0, <1>2, <2>0 DEF TypeOK, LevelInv, r
  <2> QED BY <2>1, <2>2, <2>3
<1> QED BY <1>3, <1>4

LEMMA SignalStep == IInv /\ SignalError => IInv'
BY DEF IInv, SignalError, TypeOK, LockInv, CallInv, LevelInv, States

(* IInv is inductive. *)
LEMMA NextInv == IInv /\ [Next]_vars => IInv'
<1> SUFFICES ASSUME IInv, [Next]_vars PROVE IInv'
  OBVIOUS
<1>1. CASE Next
  BY <1>1, CallStep, AskStep, LockStep, HookDoneStep, HookThrowsStep, FinalStep, SignalStep
     DEF Next, Step
<1>2. CASE UNCHANGED vars
  BY <1>2 DEF vars, IInv, TypeOK, LockInv, CallInv, LevelInv
<1> QED BY <1>1, <1>2

-----------------------------------------------------------------------------
(* The inductive invariant, for any callers, targets and errors of the     *)
(* module (module_base::set_state, module::set_state).                     *)
THEOREM Invariance == Spec => []IInv
BY InitInv, NextInv, PTL DEF Spec

(* The type invariant of the state, the mutex and the calls. *)
THEOREM TypeCorrect == Spec => []TypeOK
<1>1. IInv => TypeOK
  BY DEF IInv
<1> QED BY <1>1, Invariance, PTL

(* Two hooks of the module never run at the same time (state_mtx). *)
THEOREM HooksExcludeHolds == Spec => []HooksExclude
<1>1. IInv => HooksExclude
  BY DEF IInv, LockInv, HooksExclude
<1> QED BY <1>1, Invariance, PTL

(* The state the module reports is what its hooks have reached, and a hook *)
(* runs from there, whichever hook threw and however calls overlap, until  *)
(* a call acts on a reading of the state that a hook of another call has   *)
(* outdated or the module signals an error (module_base::set_state).       *)
THEOREM StateTellsLevelHolds == Spec => []StateTellsLevel
<1>1. IInv => StateTellsLevel
  BY DEF IInv, LevelInv, StateTellsLevel
<1> QED BY <1>1, Invariance, PTL

(* A call that returns 0 has brought the module to its target              *)
(* (module::set_state).                                                    *)
THEOREM CallsKeepTheirWordHolds == Spec => CallsKeepTheirWord
<1>1. ASSUME IInv, [Next]_vars,
             NEW t \in Callers, pc[t] # "idle", pc'[t] = "idle", result'[t] = 0
      PROVE  state' = target[t]
  <2>1. PICK u \in Callers : Step(u) \/ \E to \in Targets : Call(u, to)
    BY <1>1 DEF Next, vars, SignalError
  <2>2. pc[u] = "idle" \/ u = t
    BY <1>1, <2>1 DEF IInv, TypeOK, Step, Ask, Lock, HookDone, HookThrows, Final, Call,
                      Goto, Return
  <2>3. u = t /\ ~(\E to \in Targets : Call(u, to))
    BY <1>1, <2>1, <2>2 DEF IInv, TypeOK, Step, Ask, Lock, HookDone, HookThrows, Final,
                            Call, Goto, Return
  <2>4. Final(t)
    BY <1>1, <2>1, <2>3 DEF IInv, TypeOK, Step, Ask, Lock, HookDone, HookThrows, Goto, Return
  <2>5. Tail(requests[t]) = <<>> /\ state' = Head(requests[t])
    BY <1>1, <2>4 DEF IInv, TypeOK, Final, Goto, Return
  <2>6. Head(requests[t]) = Last(requests[t]) /\ Last(requests[t]) = target[t]
    BY <1>1, <2>5, TailEnds DEF IInv, CallInv
  <2> QED BY <2>5, <2>6
<1>2. IInv /\ [Next]_vars =>
        [\A t \in Callers :
           pc[t] # "idle" /\ pc'[t] = "idle" /\ result'[t] = 0 => state' = target[t]]_vars
  BY <1>1
<1> QED BY <1>2, Invariance, PTL DEF Spec, CallsKeepTheirWord
=============================================================================
