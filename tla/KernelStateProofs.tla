------------------------- MODULE KernelStateProofs -------------------------
(***************************************************************************)
(* kernel::set_state and its callers for every set of modules, every graph *)
(* of dependencies and exclusions and any number of calls and errors: the  *)
(* type invariant, who holds module_map_mtx, that a module is removed only *)
(* when it is down, that errors of modules do not end the main loop; and,  *)
(* for calls that do not overlap, that modules that exclude each other are *)
(* not up at the same time and none is above one it depends on.            *)
(***************************************************************************)
EXTENDS KernelState, SequenceTheorems, TLAPS

-----------------------------------------------------------------------------
(* The invariant. *)

Loops  == {"depends", "dependents", "excludes"}
Frames == [mod : Modules, target : States, caller : SUBSET Modules,
           at : Loops \cup {"enter", "apply", "request"},
           rest : Seq(Modules) \cup Seq(States)]

(* What is left of a loop are modules, of module::set_state requests that  *)
(* end at the target.                                                      *)
FrameOK(f) ==
  /\ f \in Frames
  /\ f.at \in Loops => f.rest \in Seq(Modules)
  /\ f.at = "request" =>
       f.rest \in Seq(States) /\ f.rest # <<>> /\ f.rest[Len(f.rest)] = f.target

StackOK(s) == s \in Seq(Frames) /\ \A i \in 1 .. Len(s) : FrameOK(s[i])
AllDown(s) == \A i \in 1 .. Len(s) : s[i].target = init
Outermost(s) == s[Len(s)]

MainStages   == {"start", "power_up", "idle", "state_check", "shutdown", "erase", "done"}
BridgeStages == {"idle", "set_state", "remove", "lookup", "reconfigure", "configure"}
Stages(t)    == IF t = Main THEN MainStages ELSE BridgeStages

TypeOK ==
  /\ config \in Configs
  /\ state \in [Modules -> States]
  /\ configured \in SUBSET Modules
  /\ module_map \in SUBSET Modules
  /\ module_map_mtx \in Threads \cup {NoOne}
  /\ stack \in [Threads -> Seq(Frames)]
  /\ \A t \in Threads : StackOK(stack[t])
  /\ thrown \in [Threads -> BOOLEAN]
  /\ pc \in [Threads -> MainStages \cup BridgeStages]
  /\ \A t \in Threads : pc[t] \in Stages(t)
  /\ todo \in [Threads -> Seq(Modules)]
  /\ arg \in [Threads -> Modules]
  /\ calls \in Nat /\ errors \in Nat

(* power_up, state_check and remove_module hold the lock, nobody else. *)
Holding(t) == IF t = Main THEN {"power_up", "state_check"} ELSE {"remove"}

LockInv == \A t \in Threads : pc[t] \in Holding(t) <=> module_map_mtx = t

(* Where no set_state call is active; and where the thread lowers modules  *)
(* only, and so do all calls nested in its call.                           *)
Resting(t)  == IF t = Main THEN {"start", "idle", "erase", "done"}
                           ELSE {"idle", "lookup", "configure"}
Lowering(t) == IF t = Main THEN {"state_check", "shutdown"} ELSE {"remove", "reconfigure"}

StackInv ==
  \A t \in Threads : /\ pc[t] \in Resting(t) => stack[t] = <<>>
                     /\ pc[t] \in Lowering(t) => AllDown(stack[t])

DoneInv == pc[Main] = "done" => module_map = {}

IInv == TypeOK /\ LockInv /\ StackInv /\ DoneInv

(* No two services are executed at the same time. *)
OneCaller == \A t, u \in Bridges : t = u

(* The module remove_module is about stays the one the outermost call is   *)
(* about, and has come down when that returns.                             *)
Ending == pc[Main] \in {"shutdown", "erase", "done"}

RemoveInv ==
  \A t \in Bridges : pc[t] = "remove" /\ ~Ending =>
    /\ stack[t] # <<>> => /\ Outermost(stack[t]).mod = arg[t]
                          /\ Outermost(stack[t]).target = init
    /\ stack[t] = <<>> => thrown[t] \/ state[arg[t]] \in {init, error}

-----------------------------------------------------------------------------
(* The requests and hooks of a transition (ModuleStates). *)

LEMMA StatesAreNumbers ==
  /\ States = {1, 2, 4, 8, 16, 32768}
  /\ init = 1 /\ preop = 2 /\ safeop = 4 /\ op = 8 /\ boot = 16 /\ error = 32768
BY DEF States, init, preop, safeop, op, boot, error

LEMMA RungOf ==
  ASSUME NEW s \in States
  PROVE  /\ Rung(s) \in 1 .. 4
         /\ s = preop => Rung(s) = 2
         /\ s = safeop => Rung(s) = 3
         /\ s = op => Rung(s) = 4
         /\ s \in {init, boot, error} => Rung(s) = 1
BY StatesAreNumbers DEF Rung

LEMMA LadderOf ==
  /\ Ladder \in Seq(States) /\ Len(Ladder) = 4
  /\ Ladder[1] = init /\ Ladder[2] = preop /\ Ladder[3] = safeop /\ Ladder[4] = op
BY StatesAreNumbers DEF Ladder

LEMMA PartOfLadder ==
  ASSUME NEW m \in 1 .. 4, NEW n \in 1 .. 4, m <= n
  PROVE  /\ SubSeq(Ladder, m, n) \in Seq(States) /\ Len(SubSeq(Ladder, m, n)) = n - m + 1
         /\ n - m + 1 \in Nat \ {0} /\ SubSeq(Ladder, m, n)[n - m + 1] = Ladder[n]
<1>1. m \in Int /\ n \in Int /\ \A i \in m .. n : Ladder[i] \in States
  <2>1. \A i \in 1 .. 4 : Ladder[i] \in States
    <3>1. \A i \in 1 .. 4 : i = 1 \/ i = 2 \/ i = 3 \/ i = 4
      OBVIOUS
    <3>2. init \in States /\ preop \in States /\ safeop \in States /\ op \in States
      BY StatesAreNumbers
    <3> QED BY <3>1, <3>2, LadderOf
  <2> QED BY <2>1
<1>2. n - m + 1 \in 1 .. n - m + 1 /\ m + (n - m + 1) - 1 = n
  OBVIOUS
<1>3. /\ SubSeq(Ladder, m, n) \in Seq(States)
      /\ Len(SubSeq(Ladder, m, n)) = IF m <= n THEN n - m + 1 ELSE 0
      /\ \A i \in 1 .. n - m + 1 : SubSeq(Ladder, m, n)[i] = Ladder[m + i - 1]
  BY <1>1, SubSeqProperties
<1> QED BY <1>2, <1>3

(* The requests of module::set_state lead to the target. *)
LEMMA RequestsEnd ==
  ASSUME NEW from \in States, NEW to \in States, Known(from, to)
  PROVE  /\ Requests(from, to) \in Seq(States) /\ Requests(from, to) # <<>>
         /\ Requests(from, to)[Len(Requests(from, to))] = to
<1> DEFINE r == Requests(from, to)
<1>1. CASE from = error \/ from = to \/ (from = op /\ to = safeop)
  BY <1>1 DEF Requests
<1>2. CASE ~(from = error \/ from = to \/ (from = op /\ to = safeop)) /\ from = boot
  <2>1. to \in {init, preop, safeop, op}
    BY <1>2, StatesAreNumbers DEF Known
  <2>2. r = <<init>> \o SubSeq(Ladder, 2, Rung(to))
    <3>1. Rung(init) + 1 = 2
      BY RungOf, StatesAreNumbers
    <3> QED BY <1>2, <3>1 DEF Requests, Climb
  <2>3. CASE to = init
    BY <2>2, <2>3, RungOf, LadderOf, StatesAreNumbers
  <2>4. CASE to # init
    <3>1. /\ Rung(to) \in 2 .. 4 /\ Ladder[Rung(to)] = to
      BY <2>1, <2>4, RungOf, LadderOf, StatesAreNumbers
    <3>2. /\ SubSeq(Ladder, 2, Rung(to)) \in Seq(States)
          /\ Len(SubSeq(Ladder, 2, Rung(to))) = Rung(to) - 1
          /\ SubSeq(Ladder, 2, Rung(to))[Rung(to) - 1] = Ladder[Rung(to)]
      <4>1. /\ 2 \in 1 .. Len(Ladder) /\ Rung(to) \in 2 .. Len(Ladder)
            /\ Rung(to) - 2 + 1 = Rung(to) - 1
        BY <3>1, LadderOf
      <4>3. /\ SubSeq(Ladder, 2, Rung(to)) \in Seq(States)
            /\ Len(SubSeq(Ladder, 2, Rung(to))) = Rung(to) - 2 + 1
            /\ SubSeq(Ladder, 2, Rung(to))[Rung(to) - 2 + 1] = Ladder[Rung(to)]
        <5>1. 2 \in 1 .. 4 /\ Rung(to) \in 1 .. 4 /\ 2 <= Rung(to)
          BY <3>1
        <5> QED BY <5>1, PartOfLadder
      <4> QED BY <4>1, <4>3
    <3> QED BY <2>2, <3>1, <3>2, StatesAreNumbers
  <2> QED BY <2>3, <2>4
<1>3. CASE /\ ~(from = error \/ from = to \/ (from = op /\ to = safeop)) /\ from # boot
           /\ from < to /\ to # boot
  <2>1. from \in {init, preop, safeop, op} /\ to \in {init, preop, safeop, op}
    BY <1>3, StatesAreNumbers DEF Known
  <2>2. r = SubSeq(Ladder, Rung(from) + 1, Rung(to))
    BY <1>3 DEF Requests, Climb
  <2>3. /\ Rung(from) \in 1 .. 3 /\ Rung(to) \in 1 .. 4 /\ Rung(from) < Rung(to)
        /\ Ladder[Rung(to)] = to
    BY <1>3, <2>1, RungOf, LadderOf, StatesAreNumbers
  <2>4. /\ r \in Seq(States) /\ Len(r) = Rung(to) - Rung(from)
        /\ r[Rung(to) - Rung(from)] = Ladder[Rung(to)]
    <3> DEFINE m == Rung(from) + 1
    <3>1. /\ m \in 1 .. Len(Ladder) /\ Rung(to) \in m .. Len(Ladder)
          /\ Rung(to) - m + 1 = Rung(to) - Rung(from)
      BY <2>3, LadderOf
    <3>2. r = SubSeq(Ladder, m, Rung(to))
      BY <2>2
    <3> HIDE DEF m, r
    <3>3. /\ SubSeq(Ladder, m, Rung(to)) \in Seq(States)
          /\ Len(SubSeq(Ladder, m, Rung(to))) = Rung(to) - m + 1
          /\ SubSeq(Ladder, m, Rung(to))[Rung(to) - m + 1] = Ladder[Rung(to)]
      <4>1. m \in 1 .. 4 /\ Rung(to) \in 1 .. 4 /\ m <= Rung(to)
        BY <2>3 DEF m
      <4> QED BY <4>1, PartOfLadder
    <3> QED BY <3>1, <3>2, <3>3
  <2>5. Rung(to) - Rung(from) \in Nat \ {0}
    BY <2>3
  <2> QED BY <2>3, <2>4, <2>5
<1>4. CASE /\ ~(from = error \/ from = to \/ (from = op /\ to = safeop)) /\ from # boot
           /\ ~(from < to /\ to # boot)
  <2> DEFINE D == <<preop, init, boot>>
             a == CASE from = init -> 3 [] from = preop -> 2 [] OTHER -> 1
             b == CASE to = preop -> 1 [] to = init -> 2 [] OTHER -> 3
  <2>1. r = SubSeq(D, a, b)
    BY <1>4 DEF Requests, Descent
  <2>2. /\ D \in Seq(States) /\ Len(D) = 3 /\ D[1] = preop /\ D[2] = init /\ D[3] = boot
    BY StatesAreNumbers
  <2>3. a \in 1 .. 3 /\ b \in 1 .. 3 /\ a <= b /\ D[b] = to
    BY <1>4, <2>2, StatesAreNumbers DEF Known
  <2> HIDE DEF D, a, b
  <2>4. /\ SubSeq(D, a, b) \in Seq(States) /\ Len(SubSeq(D, a, b)) = b - a + 1
        /\ b - a + 1 \in 1 .. Len(SubSeq(D, a, b))
    <3>1. a \in Int /\ b \in Int /\ b - a + 1 \in Nat \ {0}
      BY <2>3
    <3>2. \A i \in a .. b : i \in 1 .. 3
      BY <2>3
    <3>3. SubSeq(D, a, b) \in Seq(States)
      BY <2>2, <3>1, <3>2
    <3>4. Len(SubSeq(D, a, b)) = b - a + 1
      BY <2>2, <2>3, <3>1
    <3> QED BY <3>1, <3>3, <3>4
  <2>5. SubSeq(D, a, b)[b - a + 1] = D[a + (b - a + 1) - 1]
    BY <2>2, <2>3, <2>4
  <2>6. a + (b - a + 1) - 1 = b
    BY <2>3
  <2>7. r[Len(r)] = to
    BY <2>1, <2>3, <2>4, <2>5, <2>6
  <2> HIDE DEF r
  <2>8. r # <<>> /\ r \in Seq(States)
    <3>1. Len(r) # 0
      BY <2>1, <2>4
    <3> QED BY <3>1, <2>1, <2>4
  <2> QED BY <2>7, <2>8 DEF r
<1> QED BY <1>1, <1>2, <1>3, <1>4

(* The states between the hooks of a request. *)
LEMMA HooksPass ==
  ASSUME NEW from \in States, NEW to \in States, NEW k \in DOMAIN Hooks(from, to)
  PROVE  Hooks(from, to)[k][1] \in States
<1>1. Rung(from) \in 1 .. 4 /\ Rung(to) \in 1 .. 4
  BY RungOf
<1>2. \A i \in 1 .. 4 : Ladder[i] \in States
  BY LadderOf, ElementOfSeq
<1>3. error \notin {from, to}
  BY DEF Hooks
<1>4. CASE Rung(from) < Rung(to)
  <2>1. Hooks(from, to) = ClimbHooks(from, to)
    BY <1>3, <1>4 DEF Hooks
  <2>2. k \in 1 .. Rung(to) - Rung(from)
    BY <2>1, <1>1 DEF ClimbHooks
  <2>3. ClimbHooks(from, to)[k][1] = Ladder[Rung(from) + k - 1]
    BY <2>2 DEF ClimbHooks
  <2>4. Rung(from) + k - 1 \in 1 .. 4
    BY <1>1, <2>2
  <2> QED BY <2>1, <2>3, <2>4, <1>2
<1>5. CASE ~(Rung(from) < Rung(to))
  <2>1. Hooks(from, to) = DescentHooks(from, to)
    BY <1>3, <1>5 DEF Hooks
  <2>2. k \in 1 .. Rung(from) - Rung(to)
    BY <2>1, <1>1 DEF DescentHooks
  <2>3. DescentHooks(from, to)[k][1] = Ladder[Rung(from) - k + 1]
    BY <2>2 DEF DescentHooks
  <2>4. Rung(from) - k + 1 \in 1 .. 4
    BY <1>1, <2>2
  <2> QED BY <2>1, <2>3, <2>4, <1>2
<1> QED BY <1>4, <1>5

-----------------------------------------------------------------------------
(* The stack of set_state calls. *)

Same(f, g) == f.mod = g.mod /\ f.target = g.target

LEMMA Popped ==
  ASSUME NEW s, StackOK(s), s # <<>>
  PROVE  /\ StackOK(Tail(s)) /\ (AllDown(s) => AllDown(Tail(s)))
         /\ Tail(s) # <<>> => Outermost(Tail(s)) = Outermost(s)
         /\ Tail(s) = <<>> => Outermost(s) = s[1]
         /\ Head(s) = s[1] /\ FrameOK(s[1]) /\ 1 \in 1 .. Len(s)
<1>1. /\ s \in Seq(Frames) /\ Len(s) \in Nat \ {0} /\ Head(s) = s[1]
      /\ Tail(s) \in Seq(Frames) /\ Len(Tail(s)) = Len(s) - 1
      /\ \A i \in 1 .. Len(s) - 1 : Tail(s)[i] = s[i + 1]
  BY DEF StackOK
<1>2. \A i \in 1 .. Len(s) - 1 : i + 1 \in 1 .. Len(s)
  BY <1>1
<1>3. StackOK(Tail(s)) /\ (AllDown(s) => AllDown(Tail(s)))
  BY <1>1, <1>2 DEF StackOK, AllDown
<1>4. Tail(s) # <<>> => Outermost(Tail(s)) = Outermost(s)
  <2>1. Tail(s) # <<>> => Len(s) - 1 \in 1 .. Len(s) - 1
    BY <1>1
  <2>2. Len(s) - 1 + 1 = Len(s)
    BY <1>1
  <2> QED BY <1>1, <2>1, <2>2 DEF Outermost
<1>5. Tail(s) = <<>> => Len(s) = 1
  <2>1. Tail(s) = <<>> => Len(Tail(s)) = 0
    BY <1>1, EmptySeq
  <2> QED BY <1>1, <2>1
<1>6. FrameOK(s[1]) /\ 1 \in 1 .. Len(s)
  BY <1>1 DEF StackOK
<1> QED BY <1>1, <1>3, <1>4, <1>5, <1>6 DEF Outermost

LEMMA Pushed ==
  ASSUME NEW r, StackOK(r), NEW x, FrameOK(x)
  PROVE  /\ StackOK(<<x>> \o r) /\ <<x>> \o r # <<>>
         /\ x.target = init /\ AllDown(r) => AllDown(<<x>> \o r)
         /\ r # <<>> => Outermost(<<x>> \o r) = Outermost(r)
         /\ r = <<>> => Outermost(<<x>> \o r) = x
<1> DEFINE q == <<x>> \o r
<1>1. /\ r \in Seq(Frames) /\ x \in Frames /\ Len(r) \in Nat
      /\ q \in Seq(Frames) /\ Len(q) = Len(r) + 1 /\ q[1] = x
      /\ \A i \in 1 .. Len(r) : q[i + 1] = r[i]
  BY DEF StackOK, FrameOK
<1> HIDE DEF q
<1>2. \A i \in 1 .. Len(q) : i = 1 \/ (i - 1 \in 1 .. Len(r) /\ q[i] = r[i - 1])
  BY <1>1
<1>3. StackOK(q) /\ (x.target = init /\ AllDown(r) => AllDown(q))
  BY <1>1, <1>2 DEF StackOK, AllDown
<1>4. r # <<>> => Outermost(q) = Outermost(r)
  <2>1. r # <<>> => Len(r) \in 1 .. Len(r)
    BY <1>1
  <2> QED BY <1>1, <2>1 DEF Outermost
<1>5. r = <<>> => Outermost(q) = x
  BY <1>1 DEF Outermost
<1>6. q # <<>>
  BY <1>1
<1> QED BY <1>3, <1>4, <1>5, <1>6 DEF q

(* What a step of set_state does to the stack of its thread. *)
Moves(s, r) ==
  /\ StackOK(r)
  /\ AllDown(s) => AllDown(r)
  /\ r # <<>> => Same(Outermost(s), Outermost(r))

LEMMA Replaced ==
  ASSUME NEW s, StackOK(s), s # <<>>, NEW x, FrameOK(x), Same(s[1], x)
  PROVE  Moves(s, <<x>> \o Tail(s)) /\ <<x>> \o Tail(s) # <<>>
<1>1. /\ StackOK(Tail(s)) /\ (AllDown(s) => AllDown(Tail(s)))
      /\ Tail(s) # <<>> => Outermost(Tail(s)) = Outermost(s)
      /\ Tail(s) = <<>> => Outermost(s) = s[1]
      /\ 1 \in 1 .. Len(s)
  BY Popped
<1>2. AllDown(s) => x.target = init
  BY <1>1 DEF AllDown, Same
<1>3. /\ StackOK(<<x>> \o Tail(s)) /\ <<x>> \o Tail(s) # <<>>
      /\ x.target = init /\ AllDown(Tail(s)) => AllDown(<<x>> \o Tail(s))
      /\ Tail(s) # <<>> => Outermost(<<x>> \o Tail(s)) = Outermost(Tail(s))
      /\ Tail(s) = <<>> => Outermost(<<x>> \o Tail(s)) = x
  BY <1>1, Pushed
<1>4. Same(Outermost(s), Outermost(<<x>> \o Tail(s)))
  BY <1>1, <1>3 DEF Same
<1> QED BY <1>1, <1>2, <1>3, <1>4 DEF Moves

LEMMA Nested ==
  ASSUME NEW s, StackOK(s), s # <<>>, NEW x, FrameOK(x), Same(s[1], x),
         NEW y, FrameOK(y), y.target \in {init, s[1].target}
  PROVE  Moves(s, <<y, x>> \o Tail(s)) /\ <<y, x>> \o Tail(s) # <<>>
<1> DEFINE r == <<x>> \o Tail(s)
<1>1. Moves(s, r) /\ r # <<>> /\ StackOK(r)
  BY Replaced DEF Moves
<1>2. Tail(s) \in Seq(Frames) /\ x \in Frames /\ y \in Frames
  BY Popped DEF StackOK, FrameOK
<1>3. <<y, x>> \o Tail(s) = <<y>> \o r
  BY <1>2
<1> HIDE DEF r
<1>4. /\ StackOK(<<y>> \o r) /\ <<y>> \o r # <<>>
      /\ y.target = init /\ AllDown(r) => AllDown(<<y>> \o r)
      /\ Outermost(<<y>> \o r) = Outermost(r)
  BY <1>1, Pushed
<1>5. AllDown(s) => y.target = init
  BY Popped DEF AllDown
<1> QED BY <1>1, <1>3, <1>4, <1>5 DEF Moves

-----------------------------------------------------------------------------
(* The steps of set_state. *)

StackStep(t) ==
  /\ stack[t] # <<>>
  /\ stack' = [stack EXCEPT ![t] = stack'[t]]
  /\ Moves(stack[t], stack'[t])
  /\ UNCHANGED <<pc, todo, arg, configured, module_map, module_map_mtx, calls, errors>>

LEMMA TopOf ==
  ASSUME TypeOK, NEW t \in Threads, stack[t] # <<>>
  PROVE  /\ StackOK(stack[t]) /\ Top(t) = stack[t][1] /\ FrameOK(Top(t)) /\ Top(t) \in Frames
         /\ Top(t).mod \in Modules /\ Top(t).target \in States
         /\ Top(t).caller \in SUBSET Modules
<1>1. StackOK(stack[t])
  BY DEF TypeOK
<1>2. Top(t) = stack[t][1] /\ FrameOK(Top(t))
  BY <1>1, Popped DEF Top
<1>3. Top(t) \in Frames
  BY <1>2 DEF FrameOK
<1> QED BY <1>1, <1>2, <1>3 DEF Frames

LEMMA SetStackStep ==
  ASSUME TypeOK, NEW t \in Threads, NEW s, SetStack(t, s)
  PROVE  /\ stack'[t] = s /\ stack' = [stack EXCEPT ![t] = s] /\ thrown' = thrown
         /\ UNCHANGED <<pc, todo, arg, configured, module_map, module_map_mtx, calls, errors>>
BY DEF SetStack, TypeOK

LEMMA GoOnStep ==
  ASSUME TypeOK, NEW t \in Threads, stack[t] # <<>>, NEW at, NEW rest, GoOn(t, at, rest),
         FrameOK([Top(t) EXCEPT !.at = at, !.rest = rest])
  PROVE  StackStep(t) /\ thrown' = thrown /\ stack'[t] # <<>>
<1> DEFINE f == Top(t)
           x == [f EXCEPT !.at = at, !.rest = rest]
           s == <<x>> \o Tail(stack[t])
<1>1. StackOK(stack[t]) /\ f = stack[t][1] /\ f \in Frames
  BY TopOf
<1>2. Same(f, x)
  BY <1>1 DEF Same, Frames
<1>3. Moves(stack[t], s) /\ s # <<>>
  BY <1>1, <1>2, Replaced
<1>4. /\ stack'[t] = s /\ stack' = [stack EXCEPT ![t] = s] /\ thrown' = thrown
      /\ UNCHANGED <<pc, todo, arg, configured, module_map, module_map_mtx, calls, errors>>
  <2>1. SetStack(t, s)
    BY DEF GoOn
  <2> HIDE DEF s
  <2> QED BY <2>1, SetStackStep
<1> HIDE DEF s
<1> QED BY <1>3, <1>4 DEF StackStep

(* A nested call, of a frame x that goes on later. *)
LEMMA NestStep ==
  ASSUME TypeOK, NEW t \in Threads, stack[t] # <<>>,
         NEW x, FrameOK(x), Same(Top(t), x),
         NEW m \in Modules, NEW target \in {init, Top(t).target},
         NEW caller \in SUBSET Modules,
         SetStack(t, <<Frame(m, target, caller), x>> \o Tail(stack[t]))
  PROVE  StackStep(t) /\ thrown' = thrown /\ stack'[t] # <<>>
<1> DEFINE y == Frame(m, target, caller)
           s == <<y, x>> \o Tail(stack[t])
<1>1. StackOK(stack[t]) /\ Top(t) = stack[t][1] /\ Top(t).target \in States
  BY TopOf
<1>2. FrameOK(y) /\ y.target \in {init, stack[t][1].target}
  <2>1. target \in States
    BY <1>1, StatesAreNumbers
  <2>2. <<>> \in Seq(Modules)
    OBVIOUS
  <2>3. y \in Frames
    BY <2>1, <2>2 DEF Frame, Frames
  <2> QED BY <1>1, <2>3 DEF FrameOK, Loops, Frame
<1>3. Moves(stack[t], s) /\ s # <<>>
  <2> HIDE DEF y
  <2> QED BY <1>1, <1>2, Nested
<1>4. SetStack(t, s)
  OBVIOUS
<1> HIDE DEF s
<1>5. /\ stack'[t] = s /\ stack' = [stack EXCEPT ![t] = s] /\ thrown' = thrown
      /\ UNCHANGED <<pc, todo, arg, configured, module_map, module_map_mtx, calls, errors>>
  BY <1>4, SetStackStep
<1> QED BY <1>3, <1>5 DEF StackStep

LEMMA ReturnStep ==
  ASSUME TypeOK, NEW t \in Threads, stack[t] # <<>>, Return(t)
  PROVE  /\ StackStep(t) /\ thrown' = thrown
         /\ stack'[t] = <<>> => Outermost(stack[t]) = Top(t)
<1> DEFINE s == Tail(stack[t])
<1>1. StackOK(stack[t]) /\ Top(t) = stack[t][1]
  BY TopOf
<1>2. /\ StackOK(s) /\ (AllDown(stack[t]) => AllDown(s))
      /\ s # <<>> => Outermost(s) = Outermost(stack[t])
      /\ s = <<>> => Outermost(stack[t]) = stack[t][1]
  BY <1>1, Popped
<1>3. SetStack(t, s)
  BY DEF Return
<1> HIDE DEF s
<1>4. /\ stack'[t] = s /\ stack' = [stack EXCEPT ![t] = s] /\ thrown' = thrown
      /\ UNCHANGED <<pc, todo, arg, configured, module_map, module_map_mtx, calls, errors>>
  BY <1>3, SetStackStep
<1> QED BY <1>1, <1>2, <1>4 DEF StackStep, Moves, Same

LEMMA ThrowStep ==
  ASSUME TypeOK, NEW t \in Threads, stack[t] # <<>>, Throw(t)
  PROVE  StackStep(t) /\ thrown' = [thrown EXCEPT ![t] = TRUE] /\ thrown'[t]
<1>1. /\ stack' = [stack EXCEPT ![t] = <<>>] /\ stack'[t] = <<>>
      /\ thrown' = [thrown EXCEPT ![t] = TRUE] /\ thrown'[t]
  BY DEF Throw, TypeOK
<1>2. StackOK(<<>>) /\ AllDown(<<>>)
  BY DEF StackOK, AllDown
<1> QED BY <1>1, <1>2 DEF StackStep, Moves, Throw

(* What the callers rely on: only module states, the thread's stack and     *)
(* thrown change; a call that returned has brought its module to init, if   *)
(* init was its target; and without hooks that throw and while every module *)
(* is there a call that lowers modules does not throw.                      *)
Peaceful(t) ==
  MayFail = {} /\ module_map = Modules /\ configured = Modules /\ AllDown(stack[t])

SetStateResult(t) ==
  /\ StackStep(t)
  /\ state' \in [Modules -> States]
  /\ thrown' = thrown \/ (thrown' = [thrown EXCEPT ![t] = TRUE] /\ thrown'[t] /\ ~Peaceful(t))
  /\ stack'[t] = <<>> /\ ~thrown'[t] /\ Outermost(stack[t]).target = init
       => state'[Outermost(stack[t]).mod] = init

(* Steps of set_state that go on, *)
LEMMA StepGoesOn ==
  ASSUME TypeOK, NEW t \in Threads, StackStep(t), thrown' = thrown, stack'[t] # <<>>,
         UNCHANGED state
  PROVE  SetStateResult(t)
BY DEF SetStateResult, TypeOK

(* and that throw. *)
LEMMA StepThrows ==
  ASSUME TypeOK, NEW t \in Threads, stack[t] # <<>>, Throw(t), ~Peaceful(t),
         state' \in [Modules -> States]
  PROVE  SetStateResult(t)
BY ThrowStep DEF SetStateResult

LEMMA OrderIsSeq == Order \in Seq(Modules)
BY OrderAssumption

LEMMA ConfigOf ==
  ASSUME TypeOK, NEW m \in Modules
  PROVE  /\ depends[m] \in Seq(Modules) /\ excludes[m] \in Seq(Modules)
         /\ power_up[m] \in States \ {error} /\ MayFail \in SUBSET Modules
<1>1. config \in Configs
  BY DEF TypeOK
<1>2. /\ config.depends[m] \in Seq(Modules \ {m}) /\ config.excludes[m] \in Seq(Modules \ {m})
      /\ config.power_up[m] \in States \ {error} /\ config.mayFail \subseteq Modules
  BY <1>1, ConfigAssumption
<1>3. \A q \in Seq(Modules \ {m}) : q \in Seq(Modules)
  OBVIOUS
<1> QED BY <1>2, <1>3 DEF depends, excludes, power_up, MayFail

LEMMA RestOf ==
  ASSUME TypeOK, NEW t \in Threads, NEW at \in Loops, At(t, at)
  PROVE  /\ stack[t] # <<>> /\ Top(t).at = at /\ Top(t).rest \in Seq(Modules)
         /\ Top(t).rest # <<>> =>
              Head(Top(t).rest) \in Modules /\ Tail(Top(t).rest) \in Seq(Modules)
<1>1. stack[t] # <<>> /\ Top(t).at = at
  BY DEF At
<1>2. Top(t).rest \in Seq(Modules)
  BY <1>1, TopOf DEF FrameOK
<1> QED BY <1>1, <1>2

(* A frame at another place of set_state. *)
LEMMA FrameAt ==
  ASSUME NEW f \in Frames, NEW rest \in Seq(Modules),
         NEW at \in Loops \cup {"enter", "apply"}
  PROVE  /\ FrameOK([f EXCEPT !.at = at, !.rest = rest])
         /\ Same(f, [f EXCEPT !.at = at, !.rest = rest])
<1> DEFINE g == [f EXCEPT !.at = at, !.rest = rest]
<1>1. g \in Frames /\ g.at = at /\ g.rest = rest /\ g.mod = f.mod /\ g.target = f.target
  BY DEF Frames
<1>2. at # "request"
  BY DEF Loops
<1> QED BY <1>1, <1>2 DEF FrameOK, Same

LEMMA FrameLater ==
  ASSUME NEW f \in Frames, FrameOK(f), f.at \in Loops, NEW rest \in Seq(Modules),
         NEW caller \in SUBSET Modules
  PROVE  /\ FrameOK([f EXCEPT !.rest = rest, !.caller = caller])
         /\ Same(f, [f EXCEPT !.rest = rest, !.caller = caller])
         /\ FrameOK([f EXCEPT !.rest = rest]) /\ Same(f, [f EXCEPT !.rest = rest])
<1> DEFINE g == [f EXCEPT !.rest = rest, !.caller = caller]
           h == [f EXCEPT !.rest = rest]
<1>1. g \in Frames /\ g.at = f.at /\ g.rest = rest /\ g.mod = f.mod /\ g.target = f.target
  BY DEF Frames
<1>2. h \in Frames /\ h.at = f.at /\ h.rest = rest /\ h.mod = f.mod /\ h.target = f.target
  BY DEF Frames
<1>3. f.at # "request"
  BY DEF Loops
<1> QED BY <1>1, <1>2, <1>3 DEF FrameOK, Same

LEMMA PairOf ==
  ASSUME NEW S, NEW x \in S, NEW y \in S
  PROVE  <<x>> \o <<y>> = <<x, y>>
<1>1. <<x>> \in Seq(S) /\ <<y>> \in Seq(S) /\ <<x, y>> \in Seq(S)
  OBVIOUS
<1>2. /\ <<x>> \o <<y>> \in Seq(S) /\ Len(<<x>> \o <<y>>) = 2
      /\ \A i \in 1 .. 2 : (<<x>> \o <<y>>)[i] = IF i <= 1 THEN x ELSE <<y>>[i - 1]
  BY <1>1
<1>3. \A i \in 1 .. 2 : i = 1 \/ i = 2
  OBVIOUS
<1>4. \A i \in 1 .. 2 : (<<x>> \o <<y>>)[i] = <<x, y>>[i]
  BY <1>2, <1>3
<1> QED BY <1>1, <1>2, <1>4, SeqEqual

LEMMA EnterStep ==
  ASSUME TypeOK, NEW t \in Threads, Enter(t)
  PROVE  SetStateResult(t)
<1> DEFINE f == Top(t)
           begun == [f EXCEPT !.at = "depends", !.rest = depends[f.mod]]
<1>1. /\ stack[t] # <<>> /\ UNCHANGED state /\ state \in [Modules -> States]
  BY DEF Enter, At, TypeOK
<1>2. f \in Frames /\ f.mod \in Modules /\ f.target \in States /\ StackOK(stack[t])
  BY <1>1, TopOf
<1>3. FrameOK(begun) /\ Same(f, begun)
  BY <1>2, ConfigOf, FrameAt DEF Loops
<1>4. CASE ~Readable(f.mod)
  <2>1. Throw(t)
    BY <1>4 DEF Enter
  <2>2. ~Peaceful(t)
    BY <1>2, <1>4 DEF Peaceful, Readable, HasHandle
  <2> QED BY <1>1, <2>1, <2>2, StepThrows
<1>5. CASE Readable(f.mod) /\ state[f.mod] = f.target
  <2>1. Return(t)
    BY <1>5 DEF Enter
  <2>2. /\ StackStep(t) /\ thrown' = thrown
        /\ stack'[t] = <<>> => Outermost(stack[t]) = f
    BY <1>1, <2>1, ReturnStep
  <2> HIDE DEF f
  <2> QED BY <1>1, <1>5, <2>2 DEF SetStateResult
<1>6. CASE Readable(f.mod) /\ state[f.mod] # f.target /\ f.target = boot
  <2>1. SetStack(t, <<Frame(f.mod, init, {})>> \o <<begun>> \o Tail(stack[t]))
    BY <1>6 DEF Enter
  <2>3. <<Frame(f.mod, init, {})>> \o <<begun>> = <<Frame(f.mod, init, {}), begun>>
    <3> DEFINE x == Frame(f.mod, init, {})
    <3>1. begun \in Frames
      BY <1>3 DEF FrameOK
    <3>2. x \in Frames
      <4>1. <<>> \in Seq(Modules) /\ init \in States
        BY StatesAreNumbers
      <4> QED BY <1>2, <4>1 DEF Frame, Frames
    <3> HIDE DEF x, begun
    <3>3. <<x>> \o <<begun>> = <<x, begun>>
      BY <3>1, <3>2, PairOf
    <3> QED BY <3>3 DEF x
  <2>4. SetStack(t, <<Frame(f.mod, init, {}), begun>> \o Tail(stack[t]))
    BY <2>1, <2>3
  <2>5. {} \in SUBSET Modules /\ init \in {init, f.target}
    OBVIOUS
  <2>6. StackStep(t) /\ thrown' = thrown /\ stack'[t] # <<>>
    <3> HIDE DEF begun
    <3> QED BY <1>1, <1>2, <1>3, <2>4, <2>5, NestStep
  <2> QED BY <1>1, <2>6, StepGoesOn
<1>7. CASE Readable(f.mod) /\ state[f.mod] # f.target /\ f.target # boot
  <2>1. SetStack(t, <<>> \o <<begun>> \o Tail(stack[t]))
    BY <1>7 DEF Enter
  <2>2. <<>> \o <<begun>> = <<begun>>
    BY ConcatEmptySeq
  <2>3. GoOn(t, "depends", depends[f.mod])
    BY <2>1, <2>2 DEF GoOn
  <2>4. StackStep(t) /\ thrown' = thrown /\ stack'[t] # <<>>
    BY <1>1, <1>3, <2>3, GoOnStep
  <2> QED BY <1>1, <2>4, StepGoesOn
<1> QED BY <1>4, <1>5, <1>6, <1>7

LEMMA DependsStep ==
  ASSUME TypeOK, NEW t \in Threads, Depends(t)
  PROVE  SetStateResult(t)
<1> DEFINE f == Top(t)
           d == Head(f.rest)
<1>1. /\ At(t, "depends") /\ UNCHANGED state /\ state \in [Modules -> States]
      /\ "depends" \in Loops
  BY DEF Depends, TypeOK, Loops
<1>2. /\ stack[t] # <<>> /\ f.at = "depends" /\ f.rest \in Seq(Modules)
      /\ f.rest # <<>> => d \in Modules /\ Tail(f.rest) \in Seq(Modules)
  BY <1>1, RestOf
<1>3. /\ f \in Frames /\ FrameOK(f) /\ f.mod \in Modules /\ f.target \in States
      /\ f.caller \in SUBSET Modules
  BY <1>2, TopOf
<1>4. ASSUME NEW at \in Loops, NEW rest \in Seq(Modules), GoOn(t, at, rest)
      PROVE  SetStateResult(t)
  <2>1. FrameOK([f EXCEPT !.at = at, !.rest = rest])
    BY <1>3, FrameAt
  <2>2. StackStep(t) /\ thrown' = thrown /\ stack'[t] # <<>>
    BY <1>2, <1>4, <2>1, GoOnStep
  <2> QED BY <1>1, <2>2, StepGoesOn
<1>5. CASE f.rest = <<>>
  <2>1. GoOn(t, "dependents", Order)
    BY <1>5 DEF Depends
  <2> QED BY <2>1, <1>4, OrderIsSeq DEF Loops
<1>6. CASE f.rest # <<>> /\ GoOn(t, "depends", Tail(f.rest))
  BY <1>1, <1>2, <1>4, <1>6
<1>7. CASE f.rest # <<>> /\ (~Readable(d) \/ ~HasHandle(f.mod)) /\ Throw(t)
  <2>1. ~Peaceful(t)
    BY <1>2, <1>3, <1>7 DEF Peaceful, Readable, HasHandle
  <2> QED BY <1>1, <1>2, <1>7, <2>1, StepThrows
<1>8. CASE f.rest # <<>> /\ f.target # init /\ Return(t)
  <2>1. /\ StackStep(t) /\ thrown' = thrown
        /\ stack'[t] = <<>> => Outermost(stack[t]) = f
    BY <1>2, <1>8, ReturnStep
  <2> HIDE DEF f
  <2> QED BY <1>1, <1>8, <2>1 DEF SetStateResult
<1>9. CASE f.rest # <<>> /\ Nest(t, Tail(f.rest), d, f.target)
  <2> DEFINE caller == f.caller \cup {f.mod}
             x == [f EXCEPT !.rest = Tail(f.rest), !.caller = caller]
  <2>1. SetStack(t, <<Frame(d, f.target, caller), x>> \o Tail(stack[t]))
    BY <1>9 DEF Nest
  <2>2. FrameOK(x) /\ Same(f, x) /\ caller \in SUBSET Modules
    BY <1>1, <1>2, <1>3, <1>9, FrameLater
  <2>3. d \in Modules /\ f.target \in {init, f.target}
    BY <1>2, <1>9
  <2> HIDE DEF x, caller
  <2>4. StackStep(t) /\ thrown' = thrown /\ stack'[t] # <<>>
    BY <1>2, <2>1, <2>2, <2>3, NestStep
  <2> QED BY <1>1, <2>4, StepGoesOn
<1>10. \/ f.rest = <<>>
       \/ f.rest # <<>> /\ GoOn(t, "depends", Tail(f.rest))
       \/ f.rest # <<>> /\ (~Readable(d) \/ ~HasHandle(f.mod)) /\ Throw(t)
       \/ f.rest # <<>> /\ f.target # init /\ Return(t)
       \/ f.rest # <<>> /\ Nest(t, Tail(f.rest), d, f.target)
  BY DEF Depends
<1> QED BY <1>5, <1>6, <1>7, <1>8, <1>9, <1>10

LEMMA DependentsStep ==
  ASSUME TypeOK, NEW t \in Threads, Dependents(t)
  PROVE  SetStateResult(t)
<1> DEFINE f == Top(t)
           m == Head(f.rest)
<1>1. /\ At(t, "dependents") /\ UNCHANGED state /\ state \in [Modules -> States]
      /\ "dependents" \in Loops /\ "excludes" \in Loops
  BY DEF Dependents, TypeOK, Loops
<1>2. /\ stack[t] # <<>> /\ f.at = "dependents" /\ f.rest \in Seq(Modules)
      /\ f.rest # <<>> => m \in Modules /\ Tail(f.rest) \in Seq(Modules)
  BY <1>1, RestOf
<1>3. /\ f \in Frames /\ FrameOK(f) /\ f.mod \in Modules /\ f.target \in States
      /\ f.caller \in SUBSET Modules
  BY <1>2, TopOf
<1>4. ASSUME NEW at \in Loops, NEW rest \in Seq(Modules), GoOn(t, at, rest)
      PROVE  SetStateResult(t)
  <2>1. FrameOK([f EXCEPT !.at = at, !.rest = rest])
    BY <1>3, FrameAt
  <2>2. StackStep(t) /\ thrown' = thrown /\ stack'[t] # <<>>
    BY <1>2, <1>4, <2>1, GoOnStep
  <2> QED BY <1>1, <2>2, StepGoesOn
<1>5. CASE f.rest = <<>>
  <2> DEFINE rest == IF f.target = init THEN <<>> ELSE excludes[f.mod]
  <2>1. GoOn(t, "excludes", rest)
    BY <1>5 DEF Dependents
  <2>2. rest \in Seq(Modules)
    BY <1>3, ConfigOf
  <2> HIDE DEF rest
  <2> QED BY <1>1, <1>4, <2>1, <2>2
<1>6. CASE f.rest # <<>> /\ GoOn(t, "dependents", Tail(f.rest))
  BY <1>1, <1>2, <1>4, <1>6
<1>7. CASE f.rest # <<>> /\ ~Readable(m) /\ Throw(t)
  <2>1. ~Peaceful(t)
    BY <1>2, <1>7 DEF Peaceful, Readable, HasHandle
  <2> QED BY <1>1, <1>2, <1>7, <2>1, StepThrows
<1>8. CASE f.rest # <<>> /\ Nest(t, Tail(f.rest), m, init)
  <2> DEFINE caller == f.caller \cup {f.mod}
             x == [f EXCEPT !.rest = Tail(f.rest), !.caller = caller]
  <2>1. SetStack(t, <<Frame(m, init, caller), x>> \o Tail(stack[t]))
    BY <1>8 DEF Nest
  <2>2. FrameOK(x) /\ Same(f, x) /\ caller \in SUBSET Modules
    BY <1>1, <1>2, <1>3, <1>8, FrameLater
  <2>3. m \in Modules /\ init \in {init, f.target}
    BY <1>2, <1>8
  <2> HIDE DEF x, caller
  <2>4. StackStep(t) /\ thrown' = thrown /\ stack'[t] # <<>>
    BY <1>2, <2>1, <2>2, <2>3, NestStep
  <2> QED BY <1>1, <2>4, StepGoesOn
<1>9. \/ f.rest = <<>>
      \/ f.rest # <<>> /\ GoOn(t, "dependents", Tail(f.rest))
      \/ f.rest # <<>> /\ ~Readable(m) /\ Throw(t)
      \/ f.rest # <<>> /\ Nest(t, Tail(f.rest), m, init)
  BY DEF Dependents
<1> QED BY <1>5, <1>6, <1>7, <1>8, <1>9

LEMMA ExcludesStep ==
  ASSUME TypeOK, NEW t \in Threads, Excludes(t)
  PROVE  SetStateResult(t)
<1> DEFINE f == Top(t)
           e == Head(f.rest)
<1>1. /\ At(t, "excludes") /\ UNCHANGED state /\ state \in [Modules -> States]
      /\ "excludes" \in Loops
  BY DEF Excludes, TypeOK, Loops
<1>2. /\ stack[t] # <<>> /\ f.at = "excludes" /\ f.rest \in Seq(Modules)
      /\ f.rest # <<>> => e \in Modules /\ Tail(f.rest) \in Seq(Modules)
  BY <1>1, RestOf
<1>3. /\ f \in Frames /\ FrameOK(f) /\ f.mod \in Modules /\ f.target \in States
      /\ f.caller \in SUBSET Modules
  BY <1>2, TopOf
<1>4. ASSUME NEW at \in Loops \cup {"enter", "apply"}, NEW rest \in Seq(Modules),
             GoOn(t, at, rest)
      PROVE  SetStateResult(t)
  <2>1. FrameOK([f EXCEPT !.at = at, !.rest = rest])
    BY <1>3, FrameAt
  <2>2. StackStep(t) /\ thrown' = thrown /\ stack'[t] # <<>>
    BY <1>2, <1>4, <2>1, GoOnStep
  <2> QED BY <1>1, <2>2, StepGoesOn
<1>5. CASE f.rest = <<>>
  <2>1. GoOn(t, "apply", <<>>)
    BY <1>5 DEF Excludes
  <2>2. <<>> \in Seq(Modules)
    OBVIOUS
  <2> QED BY <1>4, <2>1, <2>2
<1>6. CASE f.rest # <<>> /\ GoOn(t, "excludes", Tail(f.rest))
  BY <1>1, <1>2, <1>4, <1>6
<1>7. CASE f.rest # <<>> /\ ~Readable(e) /\ Throw(t)
  <2>1. ~Peaceful(t)
    BY <1>2, <1>7 DEF Peaceful, Readable, HasHandle
  <2> QED BY <1>1, <1>2, <1>7, <2>1, StepThrows
<1>8. CASE /\ f.rest # <<>>
           /\ SetStack(t, <<Frame(e, init, f.caller), [f EXCEPT !.rest = Tail(f.rest)]>>
                            \o Tail(stack[t]))
  <2> DEFINE x == [f EXCEPT !.rest = Tail(f.rest)]
  <2>1. SetStack(t, <<Frame(e, init, f.caller), x>> \o Tail(stack[t]))
    BY <1>8
  <2>2. FrameOK(x) /\ Same(f, x)
    BY <1>1, <1>2, <1>3, <1>8, FrameLater
  <2>3. e \in Modules /\ init \in {init, f.target}
    BY <1>2, <1>8
  <2> HIDE DEF x
  <2>4. StackStep(t) /\ thrown' = thrown /\ stack'[t] # <<>>
    BY <1>2, <1>3, <2>1, <2>2, <2>3, NestStep
  <2> QED BY <1>1, <2>4, StepGoesOn
<1>9. \/ f.rest = <<>>
      \/ f.rest # <<>> /\ GoOn(t, "excludes", Tail(f.rest))
      \/ f.rest # <<>> /\ ~Readable(e) /\ Throw(t)
      \/ /\ f.rest # <<>>
         /\ SetStack(t, <<Frame(e, init, f.caller), [f EXCEPT !.rest = Tail(f.rest)]>>
                          \o Tail(stack[t]))
  BY DEF Excludes
<1> QED BY <1>5, <1>6, <1>7, <1>8, <1>9

LEMMA ApplyStep ==
  ASSUME TypeOK, NEW t \in Threads, Apply(t)
  PROVE  SetStateResult(t)
<1> DEFINE f == Top(t)
<1>1. /\ stack[t] # <<>> /\ f.at = "apply" /\ UNCHANGED state
      /\ state \in [Modules -> States]
  BY DEF Apply, At, TypeOK
<1>2. f \in Frames /\ f.mod \in Modules /\ f.target \in States /\ StackOK(stack[t])
  BY <1>1, TopOf
<1>3. state[f.mod] \in States
  BY <1>1, <1>2
<1>4. CASE ~HasHandle(f.mod) \/ ~Known(state[f.mod], f.target)
  <2>1. Throw(t)
    BY <1>4 DEF Apply
  <2>2. AllDown(stack[t]) => f.target = init
    BY <1>1, <1>2, Popped, TopOf DEF AllDown
  <2>3. Known(state[f.mod], init)
    BY <1>3, StatesAreNumbers DEF Known
  <2>4. ~Peaceful(t)
    BY <1>2, <1>4, <2>2, <2>3 DEF Peaceful, HasHandle
  <2> QED BY <1>1, <2>1, <2>4, StepThrows
<1>5. CASE HasHandle(f.mod) /\ Known(state[f.mod], f.target)
  <2> DEFINE rest == Requests(state[f.mod], f.target)
             x == [f EXCEPT !.at = "request", !.rest = rest]
  <2>1. GoOn(t, "request", rest)
    BY <1>5 DEF Apply
  <2>2. rest \in Seq(States) /\ rest # <<>> /\ rest[Len(rest)] = f.target
    BY <1>2, <1>3, <1>5, RequestsEnd
  <2> HIDE DEF rest
  <2>3. x \in Frames /\ x.at = "request" /\ x.rest = rest /\ x.target = f.target
    BY <1>2, <2>2 DEF Frames
  <2>4. FrameOK(x)
    BY <2>2, <2>3 DEF FrameOK, Loops
  <2>5. StackStep(t) /\ thrown' = thrown /\ stack'[t] # <<>>
    BY <1>1, <2>1, <2>4, GoOnStep
  <2> QED BY <1>1, <2>5, StepGoesOn
<1> QED BY <1>4, <1>5

LEMMA LastOfTail ==
  ASSUME NEW S, NEW q \in Seq(S), q # <<>>
  PROVE  /\ Head(q) \in S /\ Tail(q) \in Seq(S)
         /\ Tail(q) = <<>> => Head(q) = q[Len(q)]
         /\ Tail(q) # <<>> => Tail(q)[Len(Tail(q))] = q[Len(q)]
<1>1. /\ Len(q) \in Nat \ {0} /\ Head(q) = q[1] /\ Head(q) \in S
      /\ Tail(q) \in Seq(S) /\ Len(Tail(q)) = Len(q) - 1
      /\ \A i \in 1 .. Len(q) - 1 : Tail(q)[i] = q[i + 1]
  OBVIOUS
<1>2. CASE Tail(q) = <<>>
  <2>1. Len(Tail(q)) = 0
    BY <1>2, EmptySeq
  <2>2. Len(q) - 1 = 0 /\ Len(q) \in Nat
    BY <1>1, <2>1
  <2>3. Len(q) = 1
    <3> DEFINE n == Len(q)
    <3>1. n - 1 = 0 /\ n \in Nat
      BY <2>2
    <3> HIDE DEF n
    <3>2. n = 1
      BY <3>1
    <3> QED BY <3>2 DEF n
  <2> QED BY <1>1, <1>2, <2>3
<1>3. CASE Tail(q) # <<>>
  <2>1. Len(Tail(q)) \in Nat \ {0}
    BY <1>1, <1>3, EmptySeq
  <2>2. Len(q) - 1 \in 1 .. Len(q) - 1 /\ Len(q) - 1 + 1 = Len(q)
    BY <1>1, <2>1
  <2> QED BY <1>1, <1>3, <2>2
<1> QED BY <1>1, <1>2, <1>3

LEMMA RequestStep ==
  ASSUME TypeOK, NEW t \in Threads, Request(t)
  PROVE  SetStateResult(t)
<1> DEFINE f == Top(t)
<1>1. /\ stack[t] # <<>> /\ f.at = "request" /\ state \in [Modules -> States]
      /\ state' = [state EXCEPT ![f.mod] = Head(f.rest)]
  BY DEF Request, At, TypeOK
<1>2. f \in Frames /\ FrameOK(f) /\ f.mod \in Modules /\ f.target \in States
  BY <1>1, TopOf
<1>3. f.rest \in Seq(States) /\ f.rest # <<>> /\ f.rest[Len(f.rest)] = f.target
  BY <1>1, <1>2 DEF FrameOK
<1>4. /\ Head(f.rest) \in States /\ Tail(f.rest) \in Seq(States)
      /\ Tail(f.rest) = <<>> => Head(f.rest) = f.target
      /\ Tail(f.rest) # <<>> => Tail(f.rest)[Len(Tail(f.rest))] = f.target
  BY <1>3, LastOfTail
<1>5. state' \in [Modules -> States] /\ state'[f.mod] = Head(f.rest)
  BY <1>1, <1>2, <1>4
<1>6. CASE Tail(f.rest) = <<>>
  <2>1. Return(t)
    BY <1>6 DEF Request
  <2>2. /\ StackStep(t) /\ thrown' = thrown
        /\ stack'[t] = <<>> => Outermost(stack[t]) = f
    BY <1>1, <2>1, ReturnStep
  <2> HIDE DEF f
  <2> QED BY <1>4, <1>5, <1>6, <2>2 DEF SetStateResult
<1>7. CASE Tail(f.rest) # <<>>
  <2> DEFINE x == [f EXCEPT !.at = "request", !.rest = Tail(f.rest)]
  <2>1. GoOn(t, "request", Tail(f.rest))
    BY <1>7 DEF Request
  <2>2. x \in Frames /\ x.at = "request" /\ x.rest = Tail(f.rest) /\ x.target = f.target
    BY <1>2, <1>4 DEF Frames
  <2>3. FrameOK(x)
    BY <1>4, <1>7, <2>2 DEF FrameOK, Loops
  <2>4. StackStep(t) /\ thrown' = thrown /\ stack'[t] # <<>>
    BY <1>1, <2>1, <2>3, GoOnStep
  <2> QED BY <1>5, <2>4 DEF SetStateResult
<1> QED BY <1>6, <1>7

LEMMA RequestFailsStep ==
  ASSUME TypeOK, NEW t \in Threads, RequestFails(t)
  PROVE  SetStateResult(t)
<1> DEFINE f == Top(t)
           hooks == Hooks(state[f.mod], Head(f.rest))
<1>1. /\ stack[t] # <<>> /\ f.at = "request" /\ f.mod \in MayFail /\ Throw(t)
      /\ state \in [Modules -> States]
  BY DEF RequestFails, At, TypeOK
<1>2. FrameOK(f) /\ f.mod \in Modules
  BY <1>1, TopOf
<1>3. f.rest \in Seq(States) /\ f.rest # <<>>
  BY <1>1, <1>2 DEF FrameOK
<1>4. Head(f.rest) \in States /\ state[f.mod] \in States
  BY <1>1, <1>2, <1>3
<1>5. PICK k \in DOMAIN hooks : state' = [state EXCEPT ![f.mod] = hooks[k][1]]
  BY DEF RequestFails
<1>6. hooks[k][1] \in States
  BY <1>4, HooksPass
<1>7. state' \in [Modules -> States]
  <2> HIDE DEF hooks
  <2> QED BY <1>1, <1>2, <1>5, <1>6
<1>8. ~Peaceful(t)
  BY <1>1 DEF Peaceful
<1> QED BY <1>1, <1>7, <1>8, StepThrows

LEMMA SetStateStep ==
  ASSUME TypeOK, NEW t \in Threads, SetState(t)
  PROVE  SetStateResult(t)
BY EnterStep, DependsStep, DependentsStep, ExcludesStep, ApplyStep, RequestStep,
   RequestFailsStep DEF SetState

-----------------------------------------------------------------------------
(* A step of one thread, and what keeps the invariant. *)

(* thrown is set and read by the thread itself. *)
OwnThrown(t) == thrown' = [thrown EXCEPT ![t] = thrown'[t]] /\ thrown'[t] \in BOOLEAN

Acts(t) ==
  /\ UNCHANGED config
  /\ state' \in [Modules -> States]
  /\ configured' \in SUBSET Modules /\ module_map' \in SUBSET Modules
  /\ \/ UNCHANGED module_map_mtx
     \/ module_map_mtx = NoOne /\ module_map_mtx' = t
     \/ module_map_mtx = t /\ module_map_mtx' = NoOne
  /\ stack' = [stack EXCEPT ![t] = stack'[t]] /\ StackOK(stack'[t])
  /\ OwnThrown(t)
  /\ pc' = [pc EXCEPT ![t] = pc'[t]] /\ pc'[t] \in Stages(t)
  /\ todo' \in [Threads -> Seq(Modules)]
  /\ arg' \in [Threads -> Modules]
  /\ calls' \in Nat /\ errors' \in Nat
  /\ pc'[t] \in Holding(t) <=> module_map_mtx' = t
  /\ pc'[t] \in Resting(t) => stack'[t] = <<>>
  /\ pc'[t] \in Lowering(t) => AllDown(stack'[t])
  /\ pc'[Main] = "done" => module_map' = {}

LEMMA ActsKeeps ==
  ASSUME IInv, NEW t \in Threads, Acts(t)
  PROVE  IInv'
<1>1. TypeOK /\ LockInv /\ StackInv
  BY DEF IInv
<1>2. /\ stack \in [Threads -> Seq(Frames)] /\ (\A u \in Threads : StackOK(stack[u]))
      /\ pc \in [Threads -> MainStages \cup BridgeStages]
      /\ (\A u \in Threads : pc[u] \in Stages(u))
      /\ module_map_mtx \in Threads \cup {NoOne}
  BY <1>1 DEF TypeOK
<1>3. /\ stack' = [stack EXCEPT ![t] = stack'[t]] /\ StackOK(stack'[t])
      /\ pc' = [pc EXCEPT ![t] = pc'[t]] /\ pc'[t] \in Stages(t)
      /\ \/ UNCHANGED module_map_mtx
         \/ module_map_mtx = NoOne /\ module_map_mtx' = t
         \/ module_map_mtx = t /\ module_map_mtx' = NoOne
      /\ pc'[t] \in Holding(t) <=> module_map_mtx' = t
      /\ pc'[t] \in Resting(t) => stack'[t] = <<>>
      /\ pc'[t] \in Lowering(t) => AllDown(stack'[t])
  BY DEF Acts
<1>4. \A u \in Threads : u # t => stack'[u] = stack[u] /\ pc'[u] = pc[u]
  BY <1>2, <1>3
<1>5. NoOne \notin Threads
  BY ThreadAssumption
<1>6. TypeOK'
  <2>1. stack' \in [Threads -> Seq(Frames)] /\ \A u \in Threads : StackOK(stack'[u])
    <3>1. stack'[t] \in Seq(Frames)
      BY <1>3 DEF StackOK
    <3> QED BY <1>2, <1>3, <1>4, <3>1
  <2>2. /\ pc' \in [Threads -> MainStages \cup BridgeStages]
        /\ \A u \in Threads : pc'[u] \in Stages(u)
    <3>1. pc'[t] \in MainStages \cup BridgeStages
      BY <1>3 DEF Stages
    <3> QED BY <1>2, <1>3, <1>4, <3>1
  <2>3. module_map_mtx' \in Threads \cup {NoOne}
    BY <1>2, <1>3
  <2>4. config' \in Configs
    BY <1>1 DEF TypeOK, Acts
  <2>5. thrown' \in [Threads -> BOOLEAN]
    BY <1>1 DEF TypeOK, Acts, OwnThrown
  <2> QED BY <2>1, <2>2, <2>3, <2>4, <2>5 DEF TypeOK, Acts
<1>7. LockInv'
  <2> SUFFICES ASSUME NEW u \in Threads
               PROVE  pc'[u] \in Holding(u) <=> module_map_mtx' = u
    BY DEF LockInv
  <2>1. CASE u = t
    BY <1>3, <2>1
  <2>2. CASE u # t
    <3>1. pc[u] \in Holding(u) <=> module_map_mtx = u
      BY <1>1 DEF LockInv
    <3> QED BY <1>3, <1>4, <1>5, <2>2, <3>1
  <2> QED BY <2>1, <2>2
<1>8. StackInv'
  <2> SUFFICES ASSUME NEW u \in Threads
               PROVE  /\ pc'[u] \in Resting(u) => stack'[u] = <<>>
                      /\ pc'[u] \in Lowering(u) => AllDown(stack'[u])
    BY DEF StackInv
  <2>1. CASE u = t
    BY <1>3, <2>1
  <2>2. CASE u # t
    BY <1>1, <1>4, <2>2 DEF StackInv
  <2> QED BY <2>1, <2>2
<1>9. DoneInv'
  BY DEF Acts, DoneInv
<1> QED BY <1>6, <1>7, <1>8, <1>9 DEF IInv

(* How a caller begins a call, goes on, and releases the lock. *)
LEMMA BeginStep ==
  ASSUME TypeOK, NEW t \in Threads, NEW m \in Modules, NEW target \in States,
         Begin(t, m, target)
  PROVE  /\ stack' = [stack EXCEPT ![t] = stack'[t]] /\ StackOK(stack'[t])
         /\ target = init => AllDown(stack'[t])
         /\ Same(Outermost(stack'[t]), Frame(m, target, {})) /\ stack'[t] # <<>>
         /\ thrown' = [thrown EXCEPT ![t] = FALSE] /\ OwnThrown(t)
<1> DEFINE x == Frame(m, target, {})
<1>1. x \in Frames /\ FrameOK(x) /\ x.target = target
  <2>1. <<>> \in Seq(Modules)
    OBVIOUS
  <2>2. x \in Frames
    BY <2>1 DEF Frame, Frames
  <2> QED BY <2>2 DEF FrameOK, Loops, Frame
<1>2. /\ stack' = [stack EXCEPT ![t] = <<x>>] /\ stack'[t] = <<x>>
      /\ thrown' = [thrown EXCEPT ![t] = FALSE] /\ OwnThrown(t)
  BY DEF Begin, TypeOK, OwnThrown
<1> HIDE DEF x
<1>3. /\ <<x>> \in Seq(Frames) /\ Len(<<x>>) = 1 /\ <<x>>[1] = x /\ <<x>> # <<>>
      /\ \A i \in 1 .. 1 : i = 1
  BY <1>1
<1>4. StackOK(<<x>>) /\ (target = init => AllDown(<<x>>)) /\ Outermost(<<x>>) = x
  BY <1>1, <1>3 DEF StackOK, AllDown, Outermost
<1> QED BY <1>2, <1>3, <1>4 DEF Same, x

LEMMA NoCallStep ==
  ASSUME TypeOK, NEW t \in Threads, UNCHANGED stack
  PROVE  stack' = [stack EXCEPT ![t] = stack'[t]] /\ StackOK(stack'[t])
BY DEF TypeOK

LEMMA GotoStep ==
  ASSUME TypeOK, NEW t \in Threads, NEW p \in Stages(t), Goto(t, p)
  PROVE  pc'[t] = p /\ pc' = [pc EXCEPT ![t] = pc'[t]] /\ pc'[t] \in Stages(t)
BY DEF Goto, TypeOK

LEMMA ReleaseStep ==
  ASSUME TypeOK, NEW t \in Threads, Release(t)
  PROVE  /\ UNCHANGED module_map_mtx \/ (module_map_mtx = t /\ module_map_mtx' = NoOne)
         /\ module_map_mtx' # t
BY ThreadAssumption DEF Release

LEMMA MainIsThread == Main \in Threads /\ \A t \in Bridges : t \in Threads /\ t # Main
BY ThreadAssumption DEF Threads

LEMMA TodoOf ==
  ASSUME TypeOK, NEW t \in Threads
  PROVE  /\ todo[t] \in Seq(Modules)
         /\ todo[t] # <<>> => Head(todo[t]) \in Modules /\ Tail(todo[t]) \in Seq(Modules)
<1>1. todo[t] \in Seq(Modules)
  BY DEF TypeOK
<1> QED BY <1>1

(* A step of set_state in any thread. *)
LEMMA SetStateActs ==
  ASSUME IInv, NEW t \in Threads, SetState(t), UNCHANGED config
  PROVE  Acts(t)
<1>1. TypeOK /\ LockInv /\ StackInv /\ DoneInv
  BY DEF IInv
<1>2. SetStateResult(t)
  BY <1>1, SetStateStep
<1>3. /\ stack[t] # <<>> /\ stack' = [stack EXCEPT ![t] = stack'[t]]
      /\ StackOK(stack'[t]) /\ (AllDown(stack[t]) => AllDown(stack'[t]))
      /\ UNCHANGED <<pc, todo, arg, configured, module_map, module_map_mtx, calls, errors>>
  BY <1>2 DEF SetStateResult, StackStep, Moves
<1>4. state' \in [Modules -> States] /\ OwnThrown(t)
  BY <1>1, <1>2 DEF SetStateResult, TypeOK, OwnThrown
<1>5. /\ pc' = [pc EXCEPT ![t] = pc'[t]] /\ pc'[t] = pc[t] /\ pc'[t] \in Stages(t)
      /\ pc'[t] \in Holding(t) <=> module_map_mtx' = t
      /\ pc'[t] \notin Resting(t)
      /\ pc'[t] \in Lowering(t) => AllDown(stack'[t])
      /\ pc'[Main] = "done" => module_map' = {}
  BY <1>1, <1>3 DEF TypeOK, LockInv, StackInv, DoneInv
<1> QED BY <1>1, <1>3, <1>4, <1>5 DEF Acts, TypeOK

-----------------------------------------------------------------------------
(* The steps of the main thread. *)

LEMMA LoopStep ==
  ASSUME TypeOK, NEW t \in Threads, NEW p \in Stages(t), NEW names \in Seq(Modules),
         Loop(t, p, names)
  PROVE  /\ pc'[t] = p /\ pc' = [pc EXCEPT ![t] = pc'[t]] /\ pc'[t] \in Stages(t)
         /\ todo' \in [Threads -> Seq(Modules)]
<1>1. Goto(t, p)
  BY DEF Loop
<1>2. todo' \in [Threads -> Seq(Modules)]
  BY DEF Loop, TypeOK
<1> QED BY <1>1, <1>2, GotoStep

LEMMA SetsOfMain ==
  /\ Stages(Main) = MainStages
  /\ Holding(Main) = {"power_up", "state_check"}
  /\ Resting(Main) = {"start", "idle", "erase", "done"}
  /\ Lowering(Main) = {"state_check", "shutdown"}
  /\ MainStages = {"start", "power_up", "idle", "state_check", "shutdown", "erase", "done"}
BY DEF Stages, Holding, Resting, Lowering, MainStages

LEMMA EmptyIsDown == AllDown(<<>>)
BY DEF AllDown

LEMMA LockAndLoopActs ==
  ASSUME IInv, NEW from \in {"start", "idle"}, NEW to \in {"power_up", "state_check"},
         LockAndLoop(from, to), UNCHANGED config
  PROVE  Acts(Main)
<1>1. TypeOK /\ StackInv /\ Main \in Threads
  BY MainIsThread DEF IInv
<1>2. /\ pc[Main] = from /\ module_map_mtx = NoOne /\ module_map_mtx' = Main
      /\ Loop(Main, to, Order)
      /\ thrown' = [thrown EXCEPT ![Main] = FALSE]
      /\ UNCHANGED <<state, configured, module_map, arg, stack, calls, errors>>
  BY DEF LockAndLoop, Take
<1>3. stack[Main] = <<>>
  BY <1>1, <1>2, SetsOfMain DEF StackInv
<1>4. /\ pc'[Main] = to /\ pc' = [pc EXCEPT ![Main] = pc'[Main]]
      /\ pc'[Main] \in Stages(Main) /\ todo' \in [Threads -> Seq(Modules)]
  <2>1. to \in Stages(Main)
    BY SetsOfMain
  <2> QED BY <1>1, <1>2, <2>1, OrderIsSeq, LoopStep
<1>5. stack' = [stack EXCEPT ![Main] = stack'[Main]] /\ StackOK(stack'[Main])
  BY <1>1, <1>2, NoCallStep
<1>6. /\ AllDown(stack'[Main]) /\ pc'[Main] \in Holding(Main)
      /\ pc'[Main] \notin Resting(Main) /\ pc'[Main] # "done"
  BY <1>2, <1>3, <1>4, SetsOfMain, EmptyIsDown
<1>7. OwnThrown(Main)
  BY <1>1, <1>2 DEF TypeOK, OwnThrown
<1> QED BY <1>1, <1>2, <1>4, <1>5, <1>6, <1>7 DEF Acts, TypeOK

(* The cases of the loops over the modules: the loop ends, *)
LEMMA EndsLoop ==
  ASSUME IInv, stack[Main] = <<>>,
         NEW p \in {"idle", "shutdown"}, NEW names \in Seq(Modules),
         Release(Main), Loop(Main, p, names), NoCall,
         UNCHANGED <<config, state, configured, module_map, arg, calls, errors>>
  PROVE  Acts(Main)
<1>1. TypeOK /\ Main \in Threads
  BY MainIsThread DEF IInv
<1>2. /\ pc'[Main] = p /\ pc' = [pc EXCEPT ![Main] = pc'[Main]]
      /\ pc'[Main] \in Stages(Main) /\ todo' \in [Threads -> Seq(Modules)]
  <2>1. p \in Stages(Main)
    BY SetsOfMain
  <2> QED BY <1>1, <2>1, LoopStep
<1>3. UNCHANGED <<stack, thrown>>
  BY DEF NoCall
<1>4. stack' = [stack EXCEPT ![Main] = stack'[Main]] /\ StackOK(stack'[Main])
  BY <1>1, <1>3, NoCallStep
<1>5. /\ UNCHANGED module_map_mtx \/ (module_map_mtx = Main /\ module_map_mtx' = NoOne)
      /\ module_map_mtx' # Main
  BY <1>1, ReleaseStep
<1>6. /\ AllDown(stack'[Main]) /\ stack'[Main] = <<>> /\ pc'[Main] \notin Holding(Main)
      /\ pc'[Main] # "done"
  BY <1>2, <1>3, SetsOfMain, EmptyIsDown
<1> QED BY <1>1, <1>2, <1>3, <1>4, <1>5, <1>6 DEF Acts, TypeOK, OwnThrown

(* or it goes on, with a call or without one. *)
LEMMA GoesOnLoop ==
  ASSUME IInv, stack[Main] = <<>>, NEW p \in {"power_up", "state_check", "shutdown"},
         pc[Main] = p, NEW m \in Modules,
         NEW target \in States, p \in Lowering(Main) => target = init,
         Loop(Main, p, Tail(todo[Main])), todo[Main] # <<>>,
         Begin(Main, m, target) \/ NoCall,
         UNCHANGED <<config, state, configured, module_map, module_map_mtx, arg, calls, errors>>
  PROVE  Acts(Main)
<1>1. TypeOK /\ LockInv /\ Main \in Threads
  BY MainIsThread DEF IInv
<1>2. /\ pc'[Main] = p /\ pc' = [pc EXCEPT ![Main] = pc'[Main]]
      /\ pc'[Main] \in Stages(Main) /\ todo' \in [Threads -> Seq(Modules)]
  <2>1. p \in Stages(Main)
    BY SetsOfMain
  <2>2. Tail(todo[Main]) \in Seq(Modules)
    BY <1>1, TodoOf
  <2> QED BY <1>1, <2>1, <2>2, LoopStep
<1>3. /\ stack' = [stack EXCEPT ![Main] = stack'[Main]] /\ StackOK(stack'[Main])
      /\ OwnThrown(Main)
      /\ p \in Lowering(Main) => AllDown(stack'[Main])
  <2>1. CASE Begin(Main, m, target)
    BY <1>1, <2>1, BeginStep
  <2>2. CASE NoCall
    <3>1. UNCHANGED stack /\ UNCHANGED thrown
      BY <2>2 DEF NoCall
    <3> QED BY <1>1, <3>1, NoCallStep, EmptyIsDown DEF TypeOK, OwnThrown
  <2> QED BY <2>1, <2>2
<1>4. /\ pc'[Main] \in Holding(Main) <=> module_map_mtx' = Main
      /\ pc'[Main] \notin Resting(Main) /\ pc'[Main] # "done"
  BY <1>1, <1>2, SetsOfMain DEF LockInv
<1> QED BY <1>1, <1>2, <1>3, <1>4 DEF Acts, TypeOK

LEMMA PowerUpActs ==
  ASSUME IInv, PowerUp, UNCHANGED config
  PROVE  Acts(Main)
<1> DEFINE m == Head(todo[Main])
           next == Loop(Main, "power_up", Tail(todo[Main]))
<1>1. /\ TypeOK /\ Main \in Threads
      /\ todo[Main] # <<>> => m \in Modules
  <2>1. TypeOK /\ Main \in Threads
    BY MainIsThread DEF IInv
  <2> QED BY <2>1, TodoOf
<1>2. /\ stack[Main] = <<>> /\ pc[Main] = "power_up"
      /\ UNCHANGED <<state, configured, module_map, arg, calls, errors>>
  BY DEF PowerUp, Idle
<1>3. \/ Release(Main) /\ Loop(Main, "idle", <<>>) /\ NoCall
      \/ Release(Main) /\ Loop(Main, "shutdown", Order) /\ NoCall
      \/ /\ todo[Main] # <<>> /\ next /\ UNCHANGED module_map_mtx
         /\ Begin(Main, m, power_up[m]) \/ NoCall
  BY DEF PowerUp, Leave
<1>4. CASE Release(Main) /\ Loop(Main, "idle", <<>>) /\ NoCall
  <2>1. <<>> \in Seq(Modules)
    OBVIOUS
  <2> QED BY <1>2, <1>4, <2>1, EndsLoop
<1>5. CASE Release(Main) /\ Loop(Main, "shutdown", Order) /\ NoCall
  BY <1>2, <1>5, OrderIsSeq, EndsLoop
<1>6. CASE /\ todo[Main] # <<>> /\ next /\ UNCHANGED module_map_mtx
           /\ Begin(Main, m, power_up[m]) \/ NoCall
  <2> DEFINE target == power_up[m]
  <2>1. m \in Modules /\ target \in States
    BY <1>1, <1>6, ConfigOf
  <2>2. "power_up" \notin Lowering(Main)
    BY SetsOfMain
  <2>3. Begin(Main, m, target) \/ NoCall
    BY <1>6
  <2>4. Loop(Main, "power_up", Tail(todo[Main])) /\ todo[Main] # <<>>
    BY <1>6
  <2> HIDE DEF target, m, next
  <2> QED BY <1>2, <1>6, <2>1, <2>2, <2>3, <2>4, GoesOnLoop
<1> QED BY <1>3, <1>4, <1>5, <1>6

LEMMA StateCheckActs ==
  ASSUME IInv, StateCheck, UNCHANGED config
  PROVE  Acts(Main)
<1> DEFINE m == Head(todo[Main])
           next == Loop(Main, "state_check", Tail(todo[Main]))
<1>1. /\ TypeOK /\ Main \in Threads
      /\ todo[Main] # <<>> => m \in Modules
  <2>1. TypeOK /\ Main \in Threads
    BY MainIsThread DEF IInv
  <2> QED BY <2>1, TodoOf
<1>2. /\ stack[Main] = <<>> /\ pc[Main] = "state_check"
      /\ UNCHANGED <<state, configured, module_map, arg, calls, errors>>
  BY DEF StateCheck, Idle
<1>3. \/ Release(Main) /\ Loop(Main, "idle", <<>>) /\ NoCall
      \/ Release(Main) /\ Loop(Main, "shutdown", Order) /\ NoCall
      \/ /\ todo[Main] # <<>> /\ next /\ UNCHANGED module_map_mtx
         /\ Begin(Main, m, init) \/ NoCall
  BY DEF StateCheck, Leave
<1>4. CASE Release(Main) /\ Loop(Main, "idle", <<>>) /\ NoCall
  <2>1. <<>> \in Seq(Modules)
    OBVIOUS
  <2> QED BY <1>2, <1>4, <2>1, EndsLoop
<1>5. CASE Release(Main) /\ Loop(Main, "shutdown", Order) /\ NoCall
  BY <1>2, <1>5, OrderIsSeq, EndsLoop
<1>6. CASE /\ todo[Main] # <<>> /\ next /\ UNCHANGED module_map_mtx
           /\ Begin(Main, m, init) \/ NoCall
  <2>1. m \in Modules /\ init \in States
    BY <1>1, <1>6, StatesAreNumbers
  <2>2. Begin(Main, m, init) \/ NoCall
    BY <1>6
  <2>3. Loop(Main, "state_check", Tail(todo[Main])) /\ todo[Main] # <<>>
    BY <1>6
  <2> HIDE DEF m, next
  <2> QED BY <1>2, <1>6, <2>1, <2>2, <2>3, GoesOnLoop
<1> QED BY <1>3, <1>4, <1>5, <1>6

LEMMA SignalActs ==
  ASSUME IInv, Signal, UNCHANGED config
  PROVE  Acts(Main)
<1>1. TypeOK /\ StackInv /\ Main \in Threads
  BY MainIsThread DEF IInv
<1>2. /\ pc[Main] = "idle" /\ Release(Main) /\ Loop(Main, "shutdown", Order) /\ NoCall
      /\ UNCHANGED <<state, configured, module_map, arg, calls, errors>>
  BY DEF Signal, Leave
<1>3. stack[Main] = <<>>
  BY <1>1, <1>2, SetsOfMain DEF StackInv
<1> QED BY <1>2, <1>3, OrderIsSeq, EndsLoop

LEMMA ShutdownActs ==
  ASSUME IInv, Shutdown, UNCHANGED config
  PROVE  Acts(Main)
<1> DEFINE m == Head(todo[Main])
<1>1. /\ TypeOK /\ LockInv /\ Main \in Threads
      /\ todo[Main] # <<>> => m \in Modules
  <2>1. TypeOK /\ LockInv /\ Main \in Threads
    BY MainIsThread DEF IInv
  <2> QED BY <2>1, TodoOf
<1>2. /\ stack[Main] = <<>> /\ pc[Main] = "shutdown"
      /\ UNCHANGED <<state, configured, module_map, module_map_mtx, arg, calls, errors>>
  BY DEF Shutdown, Idle
<1>3. CASE todo[Main] = <<>>
  <2>1. Loop(Main, "erase", <<>>) /\ NoCall
    BY <1>3 DEF Shutdown
  <2>2. "erase" \in Stages(Main) /\ <<>> \in Seq(Modules)
    BY SetsOfMain
  <2>3. /\ pc'[Main] = "erase" /\ pc' = [pc EXCEPT ![Main] = pc'[Main]]
        /\ pc'[Main] \in Stages(Main) /\ todo' \in [Threads -> Seq(Modules)]
    BY <1>1, <2>1, <2>2, LoopStep
  <2>4. UNCHANGED <<stack, thrown>>
    BY <2>1 DEF NoCall
  <2>5. stack' = [stack EXCEPT ![Main] = stack'[Main]] /\ StackOK(stack'[Main])
    BY <1>1, <2>4, NoCallStep
  <2>6. /\ AllDown(stack'[Main]) /\ stack'[Main] = <<>> /\ pc'[Main] \notin Holding(Main)
        /\ pc'[Main] # "done"
    BY <1>2, <2>3, <2>4, SetsOfMain, EmptyIsDown
  <2>7. module_map_mtx' # Main
    BY <1>1, <1>2, SetsOfMain DEF LockInv
  <2> QED BY <1>1, <1>2, <2>3, <2>4, <2>5, <2>6, <2>7 DEF Acts, TypeOK, OwnThrown
<1>4. CASE todo[Main] # <<>>
  <2>1. Loop(Main, "shutdown", Tail(todo[Main])) /\ (Begin(Main, m, init) \/ NoCall)
    BY <1>4 DEF Shutdown
  <2>2. m \in Modules /\ init \in States
    BY <1>1, <1>4, StatesAreNumbers
  <2> HIDE DEF m
  <2> QED BY <1>2, <1>4, <2>1, <2>2, GoesOnLoop
<1> QED BY <1>3, <1>4

LEMMA EraseActs ==
  ASSUME IInv, Erase, UNCHANGED config
  PROVE  Acts(Main) /\ module_map' \subseteq module_map
<1>1. TypeOK /\ LockInv /\ StackInv /\ Main \in Threads
  BY MainIsThread DEF IInv
<1>2. /\ pc[Main] = "erase"
      /\ UNCHANGED <<state, configured, module_map_mtx, stack, thrown, todo, arg,
                     calls, errors>>
  BY DEF Erase
<1>3. \/ module_map = {} /\ Goto(Main, "done") /\ UNCHANGED module_map
      \/ module_map' \subseteq module_map /\ UNCHANGED pc
  <2>1. CASE module_map = {}
    BY <2>1 DEF Erase
  <2>2. CASE module_map # {}
    <3> DEFINE first == Head(SelectSeq(Order, LAMBDA m : m \in module_map))
    <3>1. module_map' = module_map \ {first} /\ UNCHANGED pc
      BY <2>2 DEF Erase
    <3> HIDE DEF first
    <3> QED BY <3>1
  <2> QED BY <2>1, <2>2
<1>4. /\ pc' = [pc EXCEPT ![Main] = pc'[Main]] /\ pc'[Main] \in {"erase", "done"}
      /\ module_map' \subseteq module_map
      /\ pc'[Main] = "done" => module_map' = {}
  <2>1. "done" \in Stages(Main)
    BY SetsOfMain
  <2>2. CASE module_map = {} /\ Goto(Main, "done") /\ UNCHANGED module_map
    BY <1>1, <2>1, <2>2, GotoStep
  <2>3. CASE module_map' \subseteq module_map /\ UNCHANGED pc
    BY <1>1, <1>2, <2>3 DEF TypeOK
  <2> QED BY <1>3, <2>2, <2>3
<1>5. stack' = [stack EXCEPT ![Main] = stack'[Main]] /\ StackOK(stack'[Main])
  BY <1>1, <1>2, NoCallStep
<1>6. stack'[Main] = <<>> /\ AllDown(stack'[Main])
  BY <1>1, <1>2, SetsOfMain, EmptyIsDown DEF StackInv
<1>7. pc'[Main] \in Stages(Main) /\ pc'[Main] \notin Holding(Main) /\ module_map_mtx' # Main
  BY <1>1, <1>2, <1>4, SetsOfMain DEF LockInv
<1>8. module_map' \in SUBSET Modules
  BY <1>1, <1>4 DEF TypeOK
<1> QED BY <1>1, <1>2, <1>4, <1>5, <1>6, <1>7, <1>8 DEF Acts, TypeOK, OwnThrown

-----------------------------------------------------------------------------
(* The services. *)

LEMMA SetsOfBridge ==
  ASSUME NEW t \in Bridges
  PROVE  /\ t \in Threads /\ t # Main
         /\ Stages(t) = BridgeStages /\ Holding(t) = {"remove"}
         /\ Resting(t) = {"idle", "lookup", "configure"}
         /\ Lowering(t) = {"remove", "reconfigure"}
         /\ BridgeStages =
              {"idle", "set_state", "remove", "lookup", "reconfigure", "configure"}
BY MainIsThread DEF Stages, Holding, Resting, Lowering, BridgeStages

(* What a step of a service has to do to be one of Acts. *)
LEMMA ServiceActs ==
  ASSUME IInv, NEW t \in Bridges, NEW p \in BridgeStages, Goto(t, p),
         state' \in [Modules -> States], configured' \in SUBSET Modules,
         module_map' \in SUBSET Modules, pc[Main] = "done" => module_map' \subseteq module_map,
         \/ UNCHANGED module_map_mtx
         \/ module_map_mtx = NoOne /\ module_map_mtx' = t
         \/ module_map_mtx = t /\ module_map_mtx' = NoOne,
         p = "remove" <=> module_map_mtx' = t,
         stack' = [stack EXCEPT ![t] = stack'[t]], StackOK(stack'[t]),
         OwnThrown(t),
         p \in Resting(t) => stack'[t] = <<>>,
         p \in Lowering(t) => AllDown(stack'[t]),
         arg' \in [Threads -> Modules], calls' \in Nat, UNCHANGED <<config, todo, errors>>
  PROVE  Acts(t)
<1>1. /\ TypeOK /\ DoneInv /\ t \in Threads /\ t # Main
      /\ p \in Stages(t) /\ Holding(t) = {"remove"}
  BY SetsOfBridge DEF IInv
<1>2. pc'[t] = p /\ pc' = [pc EXCEPT ![t] = pc'[t]] /\ pc'[t] \in Stages(t)
  BY <1>1, GotoStep
<1>3. pc'[Main] = pc[Main]
  BY <1>1, <1>2, MainIsThread DEF TypeOK
<1>4. pc'[Main] = "done" => module_map' = {}
  BY <1>1, <1>3 DEF DoneInv
<1> QED BY <1>1, <1>2, <1>4 DEF Acts, TypeOK

LEMMA NothingCalled ==
  ASSUME TypeOK, NEW t \in Threads, NoCall
  PROVE  /\ stack' = [stack EXCEPT ![t] = stack'[t]] /\ StackOK(stack'[t])
         /\ OwnThrown(t) /\ stack'[t] = stack[t]
BY NoCallStep DEF NoCall, TypeOK, OwnThrown

LEMMA CallSetStateActs ==
  ASSUME IInv, NEW t \in Bridges, NEW m \in Modules, NEW target \in Targets,
         CallSetState(t, m, target), UNCHANGED config
  PROVE  Acts(t)
<1>1. TypeOK /\ LockInv /\ t \in Threads /\ target \in States
  BY SetsOfBridge, CallAssumption DEF IInv
<1>2. /\ pc[t] = "idle" /\ Goto(t, "set_state") /\ Begin(t, m, target)
      /\ calls' = calls + 1
      /\ UNCHANGED <<state, configured, module_map, module_map_mtx, todo, arg, errors>>
  BY DEF CallSetState, Call, Idle
<1>3. /\ stack' = [stack EXCEPT ![t] = stack'[t]] /\ StackOK(stack'[t])
      /\ OwnThrown(t)
  BY <1>1, <1>2, BeginStep
<1>4. /\ "set_state" \in BridgeStages /\ "set_state" \notin Resting(t)
      /\ "set_state" \notin Lowering(t) /\ module_map_mtx' # t
  BY <1>1, <1>2, SetsOfBridge DEF LockInv
<1>5. /\ state' \in [Modules -> States] /\ configured' \in SUBSET Modules
      /\ module_map' \in SUBSET Modules /\ arg' \in [Threads -> Modules] /\ calls' \in Nat
  BY <1>1, <1>2 DEF TypeOK
<1> QED BY <1>2, <1>3, <1>4, <1>5, ServiceActs

LEMMA CallRemoveActs ==
  ASSUME IInv, NEW t \in Bridges, NEW m \in Modules, CallRemove(t, m), UNCHANGED config
  PROVE  Acts(t)
<1>1. TypeOK /\ t \in Threads /\ init \in States
  BY SetsOfBridge, StatesAreNumbers DEF IInv
<1>2. /\ module_map_mtx = NoOne /\ module_map_mtx' = t
      /\ Goto(t, "remove") /\ Begin(t, m, init)
      /\ arg' = [arg EXCEPT ![t] = m] /\ calls' = calls + 1
      /\ UNCHANGED <<state, configured, module_map, todo, errors>>
  BY DEF CallRemove, Call, Take
<1>3. /\ stack' = [stack EXCEPT ![t] = stack'[t]] /\ StackOK(stack'[t])
      /\ AllDown(stack'[t]) /\ OwnThrown(t)
  BY <1>1, <1>2, BeginStep
<1>4. "remove" \in BridgeStages /\ "remove" \notin Resting(t)
  BY SetsOfBridge
<1>5. /\ state' \in [Modules -> States] /\ configured' \in SUBSET Modules
      /\ module_map' \in SUBSET Modules /\ arg' \in [Threads -> Modules] /\ calls' \in Nat
  BY <1>1, <1>2 DEF TypeOK
<1> QED BY <1>2, <1>3, <1>4, <1>5, ServiceActs

LEMMA CallAddActs ==
  ASSUME IInv, NEW t \in Bridges, NEW m \in Modules, CallAdd(t, m), UNCHANGED config
  PROVE  Acts(t)
<1>1. TypeOK /\ LockInv /\ StackInv /\ t \in Threads /\ init \in States
  BY SetsOfBridge, StatesAreNumbers DEF IInv
<1>2. /\ pc[t] = "idle" /\ stack[t] = <<>> /\ pc[Main] # "done" /\ calls' = calls + 1
      /\ module_map' = module_map \cup {m}
      /\ configured' = configured \cup {m}
      /\ state' = [state EXCEPT ![m] = init]
      /\ UNCHANGED <<module_map_mtx, stack, thrown, pc, todo, arg, errors>>
  BY DEF CallAdd, Call, Idle
<1>3. /\ stack' = [stack EXCEPT ![t] = stack'[t]] /\ StackOK(stack'[t])
      /\ OwnThrown(t)
  BY <1>1, <1>2, NothingCalled DEF NoCall
<1>4. /\ state' \in [Modules -> States] /\ configured' \in SUBSET Modules
      /\ module_map' \in SUBSET Modules /\ calls' \in Nat
  <2>1. /\ state \in [Modules -> States] /\ configured \in SUBSET Modules
        /\ module_map \in SUBSET Modules /\ calls \in Nat
    BY <1>1 DEF TypeOK
  <2>2. state' \in [Modules -> States] /\ calls' \in Nat
    BY <1>1, <1>2, <2>1
  <2>3. configured' \in SUBSET Modules /\ module_map' \in SUBSET Modules
    BY <1>2, <2>1
  <2> QED BY <2>2, <2>3
<1>5. "idle" \in BridgeStages /\ "idle" \notin Lowering(t) /\ module_map_mtx' # t
  BY <1>1, <1>2, SetsOfBridge DEF LockInv
<1>6. Goto(t, "idle")
  BY <1>1, <1>2 DEF Goto, TypeOK
<1>7. arg' \in [Threads -> Modules]
  BY <1>1, <1>2 DEF TypeOK
<1> QED BY <1>2, <1>3, <1>4, <1>5, <1>6, <1>7, ServiceActs

LEMMA CallReconfigureActs ==
  ASSUME IInv, NEW t \in Bridges, NEW m \in Modules, CallReconfigure(t, m), UNCHANGED config
  PROVE  Acts(t)
<1>1. TypeOK /\ t \in Threads
  BY SetsOfBridge DEF IInv
<1>2. /\ stack[t] = <<>> /\ module_map_mtx = NoOne /\ Goto(t, "lookup") /\ NoCall
      /\ arg' = [arg EXCEPT ![t] = m] /\ calls' = calls + 1
      /\ UNCHANGED <<state, configured, module_map, module_map_mtx, todo, errors>>
  BY DEF CallReconfigure, Call, Idle
<1>3. /\ stack' = [stack EXCEPT ![t] = stack'[t]] /\ StackOK(stack'[t])
      /\ OwnThrown(t) /\ stack'[t] = <<>>
  BY <1>1, <1>2, NothingCalled
<1>4. "lookup" \in BridgeStages /\ "lookup" \notin Lowering(t) /\ module_map_mtx' # t
  BY <1>1, <1>2, SetsOfBridge, ThreadAssumption
<1>5. /\ state' \in [Modules -> States] /\ configured' \in SUBSET Modules
      /\ module_map' \in SUBSET Modules /\ arg' \in [Threads -> Modules] /\ calls' \in Nat
  BY <1>1, <1>2 DEF TypeOK
<1> QED BY <1>2, <1>3, <1>4, <1>5, ServiceActs

LEMMA ReconfigureLookupActs ==
  ASSUME IInv, NEW t \in Bridges, ReconfigureLookup(t), UNCHANGED config
  PROVE  Acts(t)
<1>1. TypeOK /\ LockInv /\ StackInv /\ t \in Threads /\ init \in States
  BY SetsOfBridge, StatesAreNumbers DEF IInv
<1>2. /\ pc[t] = "lookup"
      /\ UNCHANGED <<state, configured, module_map, module_map_mtx, todo, arg, calls, errors>>
  BY DEF ReconfigureLookup
<1>3. stack[t] = <<>> /\ module_map_mtx' # t
  BY <1>1, <1>2, SetsOfBridge DEF StackInv, LockInv
<1>4. /\ state' \in [Modules -> States] /\ configured' \in SUBSET Modules
      /\ module_map' \in SUBSET Modules /\ arg' \in [Threads -> Modules] /\ calls' \in Nat
      /\ arg[t] \in Modules
  BY <1>1, <1>2 DEF TypeOK
<1>5. CASE Goto(t, "idle") /\ NoCall
  <2>1. /\ stack' = [stack EXCEPT ![t] = stack'[t]] /\ StackOK(stack'[t])
        /\ OwnThrown(t) /\ stack'[t] = <<>>
    BY <1>1, <1>3, <1>5, NothingCalled
  <2>2. "idle" \in BridgeStages /\ "idle" \notin Lowering(t)
    BY SetsOfBridge
  <2> QED BY <1>2, <1>3, <1>4, <1>5, <2>1, <2>2, ServiceActs
<1>6. CASE /\ Goto(t, "reconfigure")
           /\ \/ thrown' = [thrown EXCEPT ![t] = FALSE] /\ UNCHANGED stack
              \/ Begin(t, arg[t], init)
  <2>1. /\ stack' = [stack EXCEPT ![t] = stack'[t]] /\ StackOK(stack'[t])
        /\ OwnThrown(t) /\ AllDown(stack'[t])
    <3>1. CASE thrown' = [thrown EXCEPT ![t] = FALSE] /\ UNCHANGED stack
      <4>1. OwnThrown(t)
        BY <1>1, <3>1 DEF TypeOK, OwnThrown
      <4> QED BY <1>1, <1>3, <3>1, <4>1, NoCallStep, EmptyIsDown
    <3>2. CASE Begin(t, arg[t], init)
      BY <1>1, <1>4, <3>2, BeginStep
    <3> QED BY <1>6, <3>1, <3>2
  <2>2. "reconfigure" \in BridgeStages /\ "reconfigure" \notin Resting(t)
    BY SetsOfBridge
  <2> QED BY <1>2, <1>3, <1>4, <1>6, <2>1, <2>2, ServiceActs
<1> QED BY <1>5, <1>6 DEF ReconfigureLookup

LEMMA UnconfigureActs ==
  ASSUME IInv, NEW t \in Bridges, Unconfigure(t), UNCHANGED config
  PROVE  Acts(t)
<1>1. TypeOK /\ LockInv /\ t \in Threads
  BY SetsOfBridge DEF IInv
<1>2. /\ pc[t] = "reconfigure" /\ stack[t] = <<>> /\ Goto(t, "configure") /\ NoCall
      /\ configured' = configured \ {arg[t]}
      /\ UNCHANGED <<state, module_map, module_map_mtx, todo, arg, calls, errors>>
  BY DEF Unconfigure, Idle
<1>3. /\ stack' = [stack EXCEPT ![t] = stack'[t]] /\ StackOK(stack'[t])
      /\ OwnThrown(t) /\ stack'[t] = <<>>
  BY <1>1, <1>2, NothingCalled
<1>4. "configure" \in BridgeStages /\ "configure" \notin Lowering(t) /\ module_map_mtx' # t
  BY <1>1, <1>2, SetsOfBridge DEF LockInv
<1>5. /\ state' \in [Modules -> States] /\ configured' \in SUBSET Modules
      /\ module_map' \in SUBSET Modules /\ arg' \in [Threads -> Modules] /\ calls' \in Nat
  BY <1>1, <1>2 DEF TypeOK
<1> QED BY <1>2, <1>3, <1>4, <1>5, ServiceActs

LEMMA ConfigureActs ==
  ASSUME IInv, NEW t \in Bridges, Configure(t), UNCHANGED config
  PROVE  Acts(t)
<1>1. TypeOK /\ LockInv /\ StackInv /\ t \in Threads /\ init \in States
  BY SetsOfBridge, StatesAreNumbers DEF IInv
<1>2. /\ pc[t] = "configure" /\ Goto(t, "idle") /\ NoCall
      /\ \/ configured' = configured \cup {arg[t]} /\ state' = [state EXCEPT ![arg[t]] = init]
         \/ UNCHANGED <<configured, state>>
      /\ UNCHANGED <<module_map, module_map_mtx, todo, arg, calls, errors>>
  BY DEF Configure
<1>3. /\ stack' = [stack EXCEPT ![t] = stack'[t]] /\ StackOK(stack'[t])
      /\ OwnThrown(t) /\ stack'[t] = <<>>
  BY <1>1, <1>2, NothingCalled, SetsOfBridge DEF StackInv
<1>4. "idle" \in BridgeStages /\ "idle" \notin Lowering(t) /\ module_map_mtx' # t
  BY <1>1, <1>2, SetsOfBridge DEF LockInv
<1>5. /\ state' \in [Modules -> States] /\ configured' \in SUBSET Modules
      /\ module_map' \in SUBSET Modules /\ arg' \in [Threads -> Modules] /\ calls' \in Nat
  <2>1. /\ state \in [Modules -> States] /\ configured \in SUBSET Modules
        /\ arg[t] \in Modules
    BY <1>1 DEF TypeOK
  <2>2. state' \in [Modules -> States]
    BY <1>1, <1>2, <2>1
  <2>3. configured' \in SUBSET Modules
    BY <1>2, <2>1
  <2> QED BY <1>1, <1>2, <2>2, <2>3 DEF TypeOK
<1> QED BY <1>2, <1>3, <1>4, <1>5, ServiceActs

LEMMA EndCallActs ==
  ASSUME IInv, NEW t \in Bridges, EndCall(t), UNCHANGED config
  PROVE  Acts(t)
<1>1. TypeOK /\ LockInv /\ t \in Threads
  BY SetsOfBridge DEF IInv
<1>2. /\ stack[t] = <<>> /\ Release(t) /\ Goto(t, "idle") /\ NoCall
      /\ module_map' \subseteq module_map
      /\ UNCHANGED <<state, configured, todo, arg, calls, errors>>
  BY DEF EndCall, Idle
<1>3. /\ stack' = [stack EXCEPT ![t] = stack'[t]] /\ StackOK(stack'[t])
      /\ OwnThrown(t) /\ stack'[t] = <<>>
  BY <1>1, <1>2, NothingCalled
<1>4. /\ UNCHANGED module_map_mtx \/ (module_map_mtx = t /\ module_map_mtx' = NoOne)
      /\ module_map_mtx' # t
  BY <1>1, <1>2, ReleaseStep
<1>5. "idle" \in BridgeStages /\ "idle" \notin Lowering(t)
  BY SetsOfBridge
<1>6. /\ state' \in [Modules -> States] /\ configured' \in SUBSET Modules
      /\ module_map' \in SUBSET Modules /\ arg' \in [Threads -> Modules] /\ calls' \in Nat
  BY <1>1, <1>2 DEF TypeOK
<1> QED BY <1>2, <1>3, <1>4, <1>5, <1>6, ServiceActs

-----------------------------------------------------------------------------
(* The invariant holds. *)

LEMMA InitInv ==
  ASSUME Init
  PROVE  IInv
<1>1. Main \in Threads /\ NoOne \notin Threads /\ \A t \in Threads : NoOne # t
  BY ThreadAssumption, MainIsThread
<1>2. Order \in Seq(Modules) /\ Head(Order) \in Modules
  <2>1. Order \in Seq(Modules) /\ Order # <<>>
    BY OrderAssumption
  <2> QED BY <2>1
<1>3. init \in States
  BY StatesAreNumbers
<1>4. \A t \in Threads : stack[t] = <<>> /\ StackOK(stack[t]) /\ AllDown(stack[t])
  BY DEF Init, StackOK, AllDown
<1>5. /\ pc \in [Threads -> MainStages \cup BridgeStages]
      /\ \A t \in Threads : /\ pc[t] \in Stages(t) /\ pc[t] \notin Holding(t)
                            /\ pc[t] # "done"
  BY DEF Init, Stages, Holding, MainStages, BridgeStages
<1>6. TypeOK
  <2>1. /\ stack \in [Threads -> Seq(Frames)] /\ thrown \in [Threads -> BOOLEAN]
        /\ todo \in [Threads -> Seq(Modules)]
    BY DEF Init
  <2>2. /\ config \in Configs /\ state \in [Modules -> States] /\ configured \in SUBSET Modules
        /\ module_map \in SUBSET Modules /\ module_map_mtx \in Threads \cup {NoOne}
        /\ arg \in [Threads -> Modules] /\ calls \in Nat /\ errors \in Nat
    BY <1>2, <1>3 DEF Init
  <2> QED BY <1>4, <1>5, <2>1, <2>2 DEF TypeOK
<1>7. LockInv
  BY <1>1, <1>5 DEF Init, LockInv
<1>8. StackInv
  BY <1>4 DEF StackInv
<1>9. DoneInv
  BY <1>1, <1>5 DEF DoneInv
<1> QED BY <1>6, <1>7, <1>8, <1>9 DEF IInv

(* The step that is no thread's. *)
LEMMA SignalErrorKeeps ==
  ASSUME IInv, NEW m \in Modules, SignalError(m), UNCHANGED config
  PROVE  IInv'
<1>1. TypeOK /\ LockInv /\ StackInv /\ DoneInv /\ error \in States
  BY StatesAreNumbers DEF IInv
<1>2. /\ state' = [state EXCEPT ![m] = error] /\ errors' = errors + 1
      /\ UNCHANGED <<configured, module_map, module_map_mtx, stack, thrown, pc, todo, arg, calls>>
  BY DEF SignalError, threadvars
<1>3. TypeOK'
  <2>1. state' \in [Modules -> States] /\ errors' \in Nat
    BY <1>1, <1>2 DEF TypeOK
  <2> QED BY <1>1, <1>2, <2>1 DEF TypeOK
<1>4. LockInv' /\ StackInv' /\ DoneInv'
  BY <1>1, <1>2 DEF LockInv, StackInv, DoneInv
<1> QED BY <1>3, <1>4 DEF IInv

LEMMA MainActs ==
  ASSUME IInv, MainStep \/ Signal, UNCHANGED config
  PROVE  Acts(Main)
<1>1. CASE StartPowerUp
  BY <1>1, LockAndLoopActs DEF StartPowerUp
<1>2. CASE StartStateCheck
  BY <1>2, LockAndLoopActs DEF StartStateCheck
<1>3. CASE SetState(Main)
  BY <1>3, SetStateActs, MainIsThread
<1> QED BY <1>1, <1>2, <1>3, PowerUpActs, StateCheckActs, SignalActs, ShutdownActs, EraseActs
        DEF MainStep

LEMMA BridgeActs ==
  ASSUME IInv, NEW t \in Bridges, BridgeStep(t) \/ Serve(t), UNCHANGED config
  PROVE  Acts(t)
<1>1. CASE SetState(t)
  BY <1>1, SetStateActs, MainIsThread
<1>2. CASE Serve(t)
  BY <1>2, CallSetStateActs, CallRemoveActs, CallAddActs, CallReconfigureActs DEF Serve
<1> QED BY <1>1, <1>2, EndCallActs, ReconfigureLookupActs, UnconfigureActs, ConfigureActs
        DEF BridgeStep

(* A crash, like the end, leaves everything as it is. *)
Rests ==
  UNCHANGED <<config, state, configured, module_map, module_map_mtx, threadvars, calls, errors>>

(* Every step is one of a thread, of a module that fails, or none. *)
LEMMA WhoActs ==
  ASSUME IInv, [Next]_vars
  PROVE  \/ (MainStep \/ Signal) /\ Acts(Main)
         \/ \E t \in Bridges : (BridgeStep(t) \/ Serve(t)) /\ Acts(t)
         \/ \E m \in Modules : SignalError(m) /\ UNCHANGED config
         \/ Rests
<1>1. CASE UNCHANGED vars
  BY <1>1 DEF vars, Rests
<1>2. CASE Next
  <2>1. \/ /\ UNCHANGED config
           /\ \/ MainStep \/ Signal
              \/ \E t \in Bridges : BridgeStep(t) \/ Serve(t)
              \/ \E m \in MaySignal : SignalError(m)
        \/ UNCHANGED config /\ \E t \in Threads : Crash(t)
        \/ Terminated
    BY <1>2 DEF Next, Running
  <2>2. CASE UNCHANGED config /\ (MainStep \/ Signal)
    BY <2>2, MainActs
  <2>3. CASE (UNCHANGED config /\ \E t \in Threads : Crash(t)) \/ Terminated
    BY <2>3 DEF Crash, Terminated, vars, Rests
  <2>4. CASE UNCHANGED config /\ \E t \in Bridges : BridgeStep(t) \/ Serve(t)
    BY <2>4, BridgeActs
  <2>5. CASE UNCHANGED config /\ \E m \in MaySignal : SignalError(m)
    BY <2>5, CallAssumption
  <2> QED BY <2>1, <2>2, <2>3, <2>4, <2>5
<1> QED BY <1>1, <1>2

LEMMA NextInv ==
  ASSUME IInv, [Next]_vars
  PROVE  IInv'
<1>1. CASE Rests
  <2>1. /\ TypeOK /\ LockInv /\ StackInv /\ DoneInv
        /\ UNCHANGED <<config, state, configured, module_map, module_map_mtx, stack, thrown,
                       pc, todo, arg, calls, errors>>
    BY <1>1 DEF IInv, Rests, threadvars
  <2>2. TypeOK'
    BY <2>1 DEF TypeOK
  <2>3. LockInv' /\ StackInv' /\ DoneInv'
    BY <2>1 DEF LockInv, StackInv, DoneInv
  <2> QED BY <2>2, <2>3 DEF IInv
<1>2. CASE \E t \in Threads : Acts(t)
  BY <1>2, ActsKeeps
<1>3. CASE \E m \in Modules : SignalError(m) /\ UNCHANGED config
  BY <1>3, SignalErrorKeeps
<1> QED BY <1>1, <1>2, <1>3, WhoActs, MainIsThread

(* The types of the variables and of the active set_state calls, who holds *)
(* module_map_mtx, and that state_check, ~kernel, remove_module and        *)
(* reconfigure_module only ever lower modules, however deep the recursion  *)
(* of set_state gets: for every configuration and number of threads.       *)
THEOREM Invariance == Spec => []IInv
<1>1. Init => IInv
  BY InitInv
<1>2. IInv /\ [Next]_vars => IInv'
  BY NextInv
<1> QED BY <1>1, <1>2, PTL DEF Spec

(* Every variable keeps its type. *)
THEOREM TypeCorrect == Spec => []TypeOK
<1>1. IInv => TypeOK
  BY DEF IInv
<1> QED BY <1>1, Invariance, PTL

(* power_up, state_check and remove_module each run alone under            *)
(* module_map_mtx: no other thread is in one of them at the same time.     *)
THEOREM LockHolds == Spec => []LockInv
<1>1. IInv => LockInv
  BY DEF IInv
<1> QED BY <1>1, Invariance, PTL

-----------------------------------------------------------------------------
(* Errors of modules do not end the main loop. *)

LEMMA OthersThrown ==
  ASSUME IInv, NEW t \in Bridges, Acts(t)
  PROVE  thrown'[Main] = thrown[Main] /\ pc'[Main] = pc[Main]
BY MainIsThread DEF IInv, TypeOK, Acts, OwnThrown

(* While every module is there, state_check goes on. *)
LEMMA StateCheckGoesOn ==
  ASSUME IInv, StateCheck, module_map = Modules, configured = Modules, ~thrown[Main]
  PROVE  ~thrown'[Main] /\ pc'[Main] # "shutdown"
<1> DEFINE m == Head(todo[Main])
<1>1. TypeOK /\ Main \in Threads /\ thrown \in [Threads -> BOOLEAN]
  BY MainIsThread DEF IInv, TypeOK
<1>2. CASE todo[Main] = <<>>
  <2>1. Loop(Main, "idle", <<>>) /\ NoCall
    BY <1>2 DEF StateCheck
  <2>2. pc'[Main] = "idle"
    BY <1>1, <2>1, SetsOfMain, EmptySeq, LoopStep
  <2> QED BY <2>1, <2>2 DEF NoCall
<1>3. CASE todo[Main] # <<>>
  <2>1. m \in Modules /\ Tail(todo[Main]) \in Seq(Modules)
    BY <1>1, <1>3, TodoOf
  <2>2. /\ Loop(Main, "state_check", Tail(todo[Main]))
        /\ Begin(Main, m, init) \/ NoCall
    BY <1>3, <2>1 DEF StateCheck, HasHandle
  <2>3. pc'[Main] = "state_check"
    BY <1>1, <2>1, <2>2, SetsOfMain, LoopStep
  <2>4. ~thrown'[Main]
    BY <1>1, <2>2 DEF Begin, NoCall
  <2> QED BY <2>3, <2>4
<1> QED BY <1>2, <1>3

LEMMA SurvivesStep ==
  ASSUME IInv, [Next]_vars, MayFail = {}, module_map = Modules, configured = Modules,
         pc[Main] = "state_check", ~thrown[Main]
  PROVE  ~thrown'[Main] /\ pc'[Main] # "shutdown"
<1>1. Main \in Threads /\ StackInv /\ TypeOK
  BY MainIsThread DEF IInv
<1>2. CASE MainStep \/ Signal
  <2>1. SetState(Main) \/ StateCheck
    BY <1>2 DEF MainStep, StartPowerUp, StartStateCheck, LockAndLoop, PowerUp, Idle, Shutdown,
                Erase, Signal
  <2>2. CASE SetState(Main)
    <3>1. SetStateResult(Main)
      BY <1>1, <2>2, SetStateStep
    <3>2. AllDown(stack[Main])
      BY <1>1, SetsOfMain DEF StackInv
    <3>3. thrown' = thrown
      BY <3>1, <3>2 DEF SetStateResult, Peaceful
    <3>4. pc' = pc
      BY <3>1 DEF SetStateResult, StackStep
    <3> QED BY <3>3, <3>4
  <2>3. CASE StateCheck
    BY <2>3, StateCheckGoesOn
  <2> QED BY <2>1, <2>2, <2>3
<1>3. CASE \E t \in Bridges : Acts(t)
  BY <1>3, OthersThrown
<1>4. CASE \E m \in Modules : SignalError(m)
  BY <1>4 DEF SignalError, threadvars
<1>5. CASE Rests
  BY <1>5 DEF Rests, threadvars
<1> QED BY <1>2, <1>3, <1>4, <1>5, WhoActs

(* No sequence of errors and services makes state_check throw, as long as  *)
(* no hook does and every module is there: all it starts, and all that is  *)
(* nested in it, is set_state(init), and module::set_state reaches init    *)
(* from every state.                                                       *)
THEOREM MainSurvivesHolds == Spec => MainSurvives
<1>1. IInv /\ [Next]_vars =>
        [MayFail = {} /\ module_map = Modules /\ configured = Modules
           /\ pc[Main] = "state_check" /\ ~thrown[Main]
         => ~thrown'[Main] /\ pc'[Main] # "shutdown"]_vars
  BY SurvivesStep
<1> QED BY <1>1, Invariance, PTL DEF Spec, MainSurvives

-----------------------------------------------------------------------------
(* remove_module takes a module out only when it is down. *)

LEMMA InitRemove ==
  ASSUME Init
  PROVE  RemoveInv
BY MainIsThread DEF Init, RemoveInv

(* While a bridge removes a module the main thread only waits or leaves. *)
LEMMA MainKeepsRemove ==
  ASSUME IInv, RemoveInv, MainStep \/ Signal, Acts(Main)
  PROVE  RemoveInv'
<1> SUFFICES ASSUME NEW t \in Bridges, pc'[t] = "remove", ~Ending'
             PROVE  /\ stack'[t] # <<>> => /\ Outermost(stack'[t]).mod = arg'[t]
                                           /\ Outermost(stack'[t]).target = init
                    /\ stack'[t] = <<>> => thrown'[t] \/ state'[arg'[t]] \in {init, error}
  BY DEF RemoveInv
<1>1. TypeOK /\ LockInv /\ StackInv /\ t \in Threads /\ Main \in Threads /\ t # Main
  BY MainIsThread DEF IInv
<1>2. pc'[t] = pc[t] /\ stack'[t] = stack[t] /\ thrown'[t] = thrown[t]
  BY <1>1 DEF Acts, OwnThrown, TypeOK
<1>3. module_map_mtx = t /\ module_map_mtx # Main /\ module_map_mtx # NoOne
  BY <1>1, <1>2, SetsOfBridge, ThreadAssumption DEF LockInv
<1>4. pc[Main] \notin {"power_up", "state_check"}
  BY <1>1, <1>3, SetsOfMain DEF LockInv
<1>5. ~SetState(Main)
  <2> SUFFICES ASSUME SetState(Main) PROVE FALSE
    OBVIOUS
  <2>1. stack[Main] # <<>> /\ pc' = pc
    BY <1>1, SetStateStep DEF SetStateResult, StackStep
  <2>2. pc[Main] \in MainStages /\ pc[Main] \notin Resting(Main)
    BY <1>1, <2>1, SetsOfMain DEF TypeOK, StackInv
  <2>3. pc[Main] = "shutdown"
    BY <1>4, <2>2, SetsOfMain
  <2> QED BY <2>1, <2>3 DEF Ending
<1>6. UNCHANGED <<state, arg>>
  BY <1>5 DEF MainStep, StartPowerUp, StartStateCheck, LockAndLoop, PowerUp, StateCheck,
              Shutdown, Erase, Signal
<1>7. ~Ending
  <2>1. CASE pc[Main] = "shutdown"
    <3>1. Shutdown
      BY <1>5, <2>1 DEF MainStep, StartPowerUp, StartStateCheck, LockAndLoop, PowerUp,
                        StateCheck, Idle, Erase, Signal
    <3>2. pc'[Main] \in {"shutdown", "erase"}
      BY <1>1, <3>1 DEF Shutdown, Loop, Goto, TypeOK
    <3> QED BY <3>2 DEF Ending
  <2>2. CASE pc[Main] = "erase"
    <3>1. Erase
      BY <1>5, <2>2 DEF MainStep, StartPowerUp, StartStateCheck, LockAndLoop, PowerUp,
                        StateCheck, Idle, Shutdown, Signal
    <3> QED BY <1>3, <3>1 DEF Erase
  <2>3. CASE pc[Main] = "done"
    BY <1>5, <2>3 DEF MainStep, StartPowerUp, StartStateCheck, LockAndLoop, PowerUp,
                      StateCheck, Idle, Shutdown, Erase, Signal
  <2> QED BY <2>1, <2>2, <2>3 DEF Ending
<1> QED BY <1>2, <1>6, <1>7 DEF RemoveInv

(* The bridge's own steps. *)
LEMMA BridgeKeepsRemove ==
  ASSUME OneCaller, IInv, RemoveInv, NEW t \in Bridges, BridgeStep(t) \/ Serve(t), Acts(t)
  PROVE  RemoveInv'
<1> SUFFICES ASSUME pc'[t] = "remove", ~Ending'
             PROVE  /\ stack'[t] # <<>> => /\ Outermost(stack'[t]).mod = arg'[t]
                                           /\ Outermost(stack'[t]).target = init
                    /\ stack'[t] = <<>> => thrown'[t] \/ state'[arg'[t]] \in {init, error}
  BY DEF RemoveInv, OneCaller
<1>1. TypeOK /\ t \in Threads /\ t # Main /\ init \in States
  BY MainIsThread, StatesAreNumbers DEF IInv
<1>2. SetState(t) \/ \E m \in Modules : CallRemove(t, m)
  BY <1>1 DEF BridgeStep, Serve, EndCall, ReconfigureLookup, Unconfigure, Configure,
              CallSetState, CallAdd, CallReconfigure, Call, Idle, Goto, TypeOK
<1>3. CASE SetState(t)
  <2>1. SetStateResult(t) /\ stack[t] # <<>> /\ UNCHANGED <<pc, arg>>
    BY <1>1, <1>3, SetStateStep DEF SetStateResult, StackStep
  <2>2. Outermost(stack[t]).mod = arg[t] /\ Outermost(stack[t]).target = init
    BY <2>1 DEF RemoveInv, Ending
  <2>3. stack'[t] # <<>> => Same(Outermost(stack[t]), Outermost(stack'[t]))
    BY <2>1 DEF SetStateResult, StackStep, Moves
  <2>4. stack'[t] = <<>> /\ ~thrown'[t] => state'[arg[t]] = init
    BY <2>1, <2>2 DEF SetStateResult
  <2> QED BY <2>1, <2>2, <2>3, <2>4 DEF Same
<1>4. CASE \E m \in Modules : CallRemove(t, m)
  <2>1. PICK m \in Modules : CallRemove(t, m)
    BY <1>4
  <2>2. Begin(t, m, init) /\ arg'[t] = m
    BY <1>1, <2>1 DEF CallRemove, TypeOK
  <2>3. stack'[t] # <<>> /\ Same(Outermost(stack'[t]), Frame(m, init, {}))
    BY <1>1, <2>2, BeginStep
  <2> QED BY <2>2, <2>3 DEF Same, Frame
<1> QED BY <1>2, <1>3, <1>4

LEMMA NextRemove ==
  ASSUME OneCaller, IInv, RemoveInv, [Next]_vars
  PROVE  RemoveInv'
<1>1. CASE (MainStep \/ Signal) /\ Acts(Main)
  BY <1>1, MainKeepsRemove
<1>2. CASE \E t \in Bridges : (BridgeStep(t) \/ Serve(t)) /\ Acts(t)
  BY <1>2, BridgeKeepsRemove
<1>3. CASE \E m \in Modules : SignalError(m)
  <2>1. PICK m \in Modules : SignalError(m)
    BY <1>3
  <2>2. /\ state \in [Modules -> States] /\ arg \in [Threads -> Modules]
        /\ \A t \in Bridges : t \in Threads
    BY MainIsThread DEF IInv, TypeOK
  <2>3. state' = [state EXCEPT ![m] = error] /\ UNCHANGED <<stack, thrown, pc, arg>>
    BY <2>1 DEF SignalError, threadvars
  <2>4. \A t \in Bridges : state'[arg[t]] \in {state[arg[t]], error}
    BY <2>2, <2>3
  <2> QED BY <2>3, <2>4 DEF RemoveInv, Ending
<1>4. CASE Rests
  BY <1>4 DEF Rests, threadvars, RemoveInv, Ending
<1> QED BY <1>1, <1>2, <1>3, <1>4, WhoActs

(* Only EndCall and Erase take a module out of the map. *)
LEMMA RemovesStep ==
  ASSUME IInv, RemoveInv, [Next]_vars, pc[Main] \notin {"shutdown", "erase"},
         NEW m \in module_map, m \notin module_map'
  PROVE  Level(m) \in {init, error}
<1>1. TypeOK /\ DoneInv /\ m \in Modules
  BY DEF IInv, TypeOK
<1>2. CASE MainStep \/ Signal
  <2>1. CASE SetState(Main)
    BY <1>1, <2>1, SetStateStep, MainIsThread DEF SetStateResult, StackStep
  <2>2. CASE ~SetState(Main)
    BY <1>2, <2>2 DEF MainStep, StartPowerUp, StartStateCheck, LockAndLoop, PowerUp,
                      StateCheck, Idle, Shutdown, Erase, Signal
  <2> QED BY <2>1, <2>2
<1>3. CASE \E t \in Bridges : BridgeStep(t) \/ Serve(t)
  <2>1. PICK t \in Bridges : BridgeStep(t) \/ Serve(t)
    BY <1>3
  <2>2. t \in Threads
    BY MainIsThread
  <2>3. CASE SetState(t)
    BY <1>1, <2>2, <2>3, SetStateStep DEF SetStateResult, StackStep
  <2>4. CASE EndCall(t)
    <3>1. pc[t] = "remove" /\ ~thrown[t] /\ m = arg[t] /\ stack[t] = <<>>
      BY <2>4 DEF EndCall, Idle
    <3>2. ~Ending
      BY <1>1 DEF Ending, DoneInv
    <3>3. state[m] \in {init, error}
      BY <3>1, <3>2 DEF RemoveInv
    <3> QED BY <3>3, StatesAreNumbers DEF Level
  <2>5. CASE ReconfigureLookup(t) \/ Unconfigure(t) \/ Configure(t)
    BY <2>5 DEF ReconfigureLookup, Unconfigure, Configure
  <2>6. CASE Serve(t)
    BY <2>6 DEF Serve, CallSetState, CallRemove, CallAdd, CallReconfigure
  <2> QED BY <2>1, <2>3, <2>4, <2>5, <2>6 DEF BridgeStep
<1>4. CASE \E k \in Modules : SignalError(k)
  BY <1>4 DEF SignalError
<1>5. CASE Rests
  BY <1>5 DEF Rests
<1> QED BY <1>2, <1>3, <1>4, <1>5, WhoActs

(* remove_module destroys no module that still runs, if services are       *)
(* executed one after the other: whatever errors modules signal and        *)
(* whatever the main thread does in the meantime.                          *)
THEOREM RemovedInInitHolds == OneCaller => (Spec => RemovedInInit)
<1> SUFFICES ASSUME OneCaller
             PROVE  Spec => RemovedInInit
  OBVIOUS
<1>1. Init => RemoveInv
  BY InitRemove
<1>2. IInv /\ RemoveInv /\ [Next]_vars => RemoveInv'
  BY NextRemove
<1>3. IInv /\ RemoveInv /\ [Next]_vars =>
        [pc[Main] \notin {"shutdown", "erase"} =>
           \A m \in module_map : m \notin module_map' => Level(m) \in {init, error}]_vars
  BY RemovesStep
<1> QED BY <1>1, <1>2, <1>3, Invariance, PTL DEF Spec, RemovedInInit

-----------------------------------------------------------------------------
(* Modules that exclude each other are not up at the same time, not even   *)
(* while a call is active.                                                 *)

(* What a module depends on, directly or not; and the modules that exclude *)
(* it and that it excludes.                                                *)
Below(conf, m) ==
  {x \in Modules : \A D \in SUBSET Modules :
     /\ ToSet(conf.depends[m]) \subseteq D
     /\ \A d \in D : ToSet(conf.depends[d]) \subseteq D
     => x \in D}

Mutual(conf, m) == {e \in ToSet(conf.excludes[m]) : m \in ToSet(conf.excludes[e])}

(* No module depends on one with which it excludes each other. *)
Consistent == \A conf \in Configs : \A m \in Modules : Below(conf, m) \cap Mutual(conf, m) = {}

(* e is in init and stays there as long as only nested calls act that      *)
(* lower modules.                                                          *)
Settled(st, s, e) ==
  st[e] = init /\ (s[1].at = "request" /\ s[1].mod = e => s[1].rest = <<init>>)

CallersOK(conf, f) == \A k \in f.caller : k = f.mod \/ f.mod \in Below(conf, k)

(* Past the loop over the modules it excludes a call that raises a module  *)
(* has brought them to init, or one is just being lowered.                 *)
FrameInv(conf, st, s, i) ==
  /\ i > 1 => s[i].at \in Loops
  /\ \A j \in 1 .. i - 1 : s[j].target # init => s[i].target # init /\ s[i].at = "depends"
  /\ s[i].at = "depends" => ToSet(s[i].rest) \subseteq ToSet(conf.depends[s[i].mod])
  /\ s[i].target # init => CallersOK(conf, s[i])
  /\ s[i].target # init /\ s[i].at \in {"excludes", "apply", "request"} =>
       \A e \in Mutual(conf, s[i].mod) : \/ s[i].at = "excludes" /\ e \in ToSet(s[i].rest)
                                         \/ i > 1 /\ s[i - 1].mod = e
                                         \/ Settled(st, s, e)
  /\ i = 1 /\ s[i].at = "request" /\ s[i].target = init =>
       s[i].rest = <<init>> \/ \A e \in Mutual(conf, s[i].mod) : st[e] = init

GoodStack(conf, st, s) == \A i \in 1 .. Len(s) : FrameInv(conf, st, s, i)

Apart(conf, st) == \A m \in Modules : \A e \in Mutual(conf, m) : init \in {st[m], st[e]}

ExclInv ==
  /\ \A t, u \in Threads : stack[t] # <<>> /\ stack[u] # <<>> => t = u
  /\ \A t \in Threads : GoodStack(config, state, stack[t])
  /\ Apart(config, state)

LEMMA MutualOf ==
  ASSUME NEW conf \in Configs, NEW m \in Modules
  PROVE  /\ Mutual(conf, m) \subseteq Modules /\ m \notin Mutual(conf, m)
         /\ \A e \in Mutual(conf, m) : m \in Mutual(conf, e)
         /\ Mutual(conf, m) \subseteq ToSet(conf.excludes[m])
<1>1. conf.excludes[m] \in Seq(Modules \ {m})
  BY ConfigAssumption
<1>2. ToSet(conf.excludes[m]) \subseteq Modules \ {m}
  BY <1>1 DEF ToSet
<1> QED BY <1>2 DEF Mutual

LEMMA BelowOf ==
  ASSUME NEW conf, NEW m \in Modules, NEW d \in Modules, d \in ToSet(conf.depends[m])
  PROVE  d \in Below(conf, m) /\ \A k \in Modules : m \in Below(conf, k) => d \in Below(conf, k)
BY DEF Below

(* The part of FrameInv about the innermost call, *)
TopInv(conf, st, s, x) ==
  /\ x.at = "depends" => ToSet(x.rest) \subseteq ToSet(conf.depends[x.mod])
  /\ x.target # init => CallersOK(conf, x)
  /\ x.target # init /\ x.at \in {"excludes", "apply", "request"} =>
       \A e \in Mutual(conf, x.mod) : (x.at = "excludes" /\ e \in ToSet(x.rest)) \/ st[e] = init
  /\ x.at = "request" /\ x.target = init =>
       /\ x.rest = <<init>> \/ \A e \in Mutual(conf, x.mod) : st[e] = init
       /\ Settled(st, s, x.mod) => x.rest = <<init>>

(* and about one that calls y. *)
NestInv(conf, st, x, y) ==
  /\ x.at \in Loops /\ y.at = "enter"
  /\ x.at = "depends" => ToSet(x.rest) \subseteq ToSet(conf.depends[x.mod])
  /\ x.target # init => CallersOK(conf, x)
  /\ x.target # init /\ x.at = "excludes" =>
       \A e \in Mutual(conf, x.mod) : e \in ToSet(x.rest) \/ y.mod = e \/ st[e] = init
  /\ y.target # init => x.target # init /\ x.at = "depends" /\ CallersOK(conf, y)

LEMMA Indices ==
  ASSUME NEW s, StackOK(s), s # <<>>, NEW x \in Frames
  PROVE  LET r == <<x>> \o Tail(s) IN
         /\ Len(s) \in Nat \ {0} /\ Len(r) = Len(s) /\ r[1] = x
         /\ \A i \in 2 .. Len(s) : r[i] = s[i]
<1> DEFINE r == <<x>> \o Tail(s)
<1>1. /\ s \in Seq(Frames) /\ Len(s) \in Nat \ {0}
      /\ Tail(s) \in Seq(Frames) /\ Len(Tail(s)) = Len(s) - 1
      /\ \A i \in 1 .. Len(s) - 1 : Tail(s)[i] = s[i + 1]
  BY DEF StackOK
<1> DEFINE q == Tail(s)
           n == Len(s)
<1>2. q \in Seq(Frames) /\ Len(q) = n - 1 /\ n \in Nat \ {0}
  BY <1>1
<1>3. \A i \in 1 .. n - 1 : q[i] = s[i + 1]
  BY <1>1
<1> HIDE DEF q, n
<1>4. /\ Len(<<x>> \o q) = n /\ (<<x>> \o q)[1] = x
      /\ \A i \in 2 .. n : (<<x>> \o q)[i] = q[i - 1]
  BY <1>2
<1>5. \A i \in 2 .. n : q[i - 1] = s[i]
  <2> TAKE i \in 2 .. n
  <2>1. i - 1 \in 1 .. n - 1 /\ i - 1 + 1 = i
    BY <1>2
  <2> QED BY <1>3, <2>1
<1> QED BY <1>2, <1>4, <1>5 DEF q, n

LEMMA NestIndices ==
  ASSUME NEW s, StackOK(s), s # <<>>, NEW x \in Frames, NEW y \in Frames
  PROVE  LET r == <<y, x>> \o Tail(s) IN
         /\ Len(s) \in Nat \ {0} /\ Len(r) = Len(s) + 1 /\ r[1] = y /\ r[2] = x
         /\ \A i \in 2 .. Len(s) : r[i + 1] = s[i]
<1> DEFINE q == Tail(s)
           n == Len(s)
<1>1. /\ s \in Seq(Frames) /\ Len(s) \in Nat \ {0}
      /\ Tail(s) \in Seq(Frames) /\ Len(Tail(s)) = Len(s) - 1
      /\ \A i \in 1 .. Len(s) - 1 : Tail(s)[i] = s[i + 1]
  BY DEF StackOK
<1>2. q \in Seq(Frames) /\ Len(q) = n - 1 /\ n \in Nat \ {0}
  BY <1>1
<1>3. \A i \in 1 .. n - 1 : q[i] = s[i + 1]
  BY <1>1
<1> HIDE DEF q, n
<1>4. /\ Len(<<y, x>> \o q) = n + 1 /\ (<<y, x>> \o q)[1] = y /\ (<<y, x>> \o q)[2] = x
      /\ \A i \in 2 .. n : (<<y, x>> \o q)[i + 1] = q[i - 1]
  BY <1>2
<1>5. \A i \in 2 .. n : q[i - 1] = s[i]
  <2> TAKE i \in 2 .. n
  <2>1. i - 1 \in 1 .. n - 1 /\ i - 1 + 1 = i
    BY <1>2
  <2> QED BY <1>3, <2>1
<1> QED BY <1>2, <1>4, <1>5 DEF q, n

(* Modules that come down to init disturb no call. *)
LEMMA GoodWhenLowered ==
  ASSUME NEW conf \in Configs, NEW st, NEW st2, NEW s, StackOK(s), GoodStack(conf, st, s),
         \A m \in Modules : st2[m] \in {st[m], init}
  PROVE  GoodStack(conf, st2, s)
<1> SUFFICES ASSUME NEW i \in 1 .. Len(s)
             PROVE  FrameInv(conf, st2, s, i)
  BY DEF GoodStack
<1>1. FrameInv(conf, st, s, i) /\ s[i].mod \in Modules
  BY DEF GoodStack, StackOK, FrameOK, Frames
<1>2. \A e \in Mutual(conf, s[i].mod) : e \in Modules
  BY <1>1, MutualOf
<1>3. \A e \in Mutual(conf, s[i].mod) : Settled(st, s, e) => Settled(st2, s, e)
  BY <1>2 DEF Settled
<1>4. (\A e \in Mutual(conf, s[i].mod) : st[e] = init)
        => \A e \in Mutual(conf, s[i].mod) : st2[e] = init
  BY <1>2
<1> QED BY <1>1, <1>3, <1>4 DEF FrameInv

(* The innermost call goes on. *)
LEMMA GoodWhenReplaced ==
  ASSUME NEW conf \in Configs, NEW st, NEW s, StackOK(s), s # <<>>, GoodStack(conf, st, s),
         NEW x \in Frames, Same(s[1], x), TopInv(conf, st, s, x)
  PROVE  GoodStack(conf, st, <<x>> \o Tail(s))
<1> DEFINE r == <<x>> \o Tail(s)
           n == Len(s)
<1>1. /\ n \in Nat \ {0} /\ Len(r) = n /\ r[1] = x
      /\ \A i \in 2 .. n : r[i] = s[i]
  BY Indices
<1>2. \A i \in 1 .. n : r[i].mod = s[i].mod /\ r[i].target = s[i].target
  <2>1. \A i \in 1 .. n : i = 1 \/ i \in 2 .. n
    BY <1>1
  <2> QED BY <1>1, <2>1 DEF Same
<1> HIDE DEF r
<1>3. \A i \in 1 .. n : FrameInv(conf, st, s, i)
  BY DEF GoodStack
<1> SUFFICES ASSUME NEW i \in 1 .. n
             PROVE  FrameInv(conf, st, r, i)
  BY <1>1 DEF GoodStack, r
<1>4. i \in Nat /\ n \in Nat /\ \A j \in 1 .. i - 1 : j \in 1 .. n
  BY <1>1
<1> HIDE DEF n
<1>5. CASE i = 1
  <2>1. r[i] = x /\ 1 .. i - 1 = {} /\ x.mod \in Modules
    BY <1>1, <1>5 DEF Frames
  <2>2. \A e \in Mutual(conf, x.mod) : x.mod # e
    BY <2>1, MutualOf
  <2>3. \A e \in Mutual(conf, x.mod) : st[e] = init => Settled(st, r, e)
    BY <1>1, <2>2 DEF Settled
  <2> QED BY <1>5, <2>1, <2>3 DEF FrameInv, TopInv
<1>6. CASE i # 1
  <2>1. /\ i > 1 /\ r[i] = s[i] /\ FrameInv(conf, st, s, i)
        /\ i - 1 \in 1 .. n /\ 1 \in 1 .. i - 1 /\ 1 \in 1 .. n
    <3>1. i > 1 /\ i - 1 \in 1 .. n /\ i \in 2 .. n /\ 1 \in 1 .. i - 1 /\ 1 \in 1 .. n
      BY <1>6, <1>4
    <3> QED BY <1>1, <1>3, <3>1
  <2>2. r[i].at \in Loops /\ (r[i].target # init => CallersOK(conf, r[i]))
    BY <2>1 DEF FrameInv
  <2>3. \A j \in 1 .. i - 1 : r[j].target # init => r[i].target # init /\ r[i].at = "depends"
    BY <1>2, <1>4, <2>1 DEF FrameInv
  <2>4. ASSUME r[i].target # init, r[i].at \in {"excludes", "apply", "request"},
               NEW e \in Mutual(conf, r[i].mod)
        PROVE  \/ r[i].at = "excludes" /\ e \in ToSet(r[i].rest)
               \/ i > 1 /\ r[i - 1].mod = e
               \/ Settled(st, r, e)
    <3>1. x.target = init
      <4>1. s[1].target = init
        BY <2>1, <2>4 DEF FrameInv
      <4> QED BY <4>1 DEF Same
    <3>2. Settled(st, s, e) => Settled(st, r, e)
      BY <1>1, <3>1 DEF Settled, TopInv
    <3>3. \/ s[i].at = "excludes" /\ e \in ToSet(s[i].rest)
          \/ s[i - 1].mod = e
          \/ Settled(st, s, e)
      BY <2>1, <2>4 DEF FrameInv
    <3> QED BY <1>2, <2>1, <3>2, <3>3
  <2>5. r[i].at = "depends" => ToSet(r[i].rest) \subseteq ToSet(conf.depends[r[i].mod])
    BY <2>1 DEF FrameInv
  <2> QED BY <1>6, <2>1, <2>2, <2>3, <2>4, <2>5 DEF FrameInv
<1> QED BY <1>5, <1>6

(* It calls set_state. *)
LEMMA GoodWhenNested ==
  ASSUME NEW conf \in Configs, NEW st, NEW s, StackOK(s), s # <<>>, GoodStack(conf, st, s),
         NEW x \in Frames, Same(s[1], x), NEW y \in Frames, NestInv(conf, st, x, y)
  PROVE  GoodStack(conf, st, <<y, x>> \o Tail(s))
<1> DEFINE r == <<y, x>> \o Tail(s)
           n == Len(s)
<1>1. /\ n \in Nat \ {0} /\ Len(r) = n + 1 /\ r[1] = y /\ r[2] = x
      /\ \A i \in 2 .. n : r[i + 1] = s[i]
  BY NestIndices
<1>2. \A i \in 1 .. n : r[i + 1].mod = s[i].mod /\ r[i + 1].target = s[i].target
  <2>1. \A i \in 1 .. n : i = 1 \/ i \in 2 .. n
    BY <1>1
  <2> QED BY <1>1, <2>1 DEF Same
<1> HIDE DEF r
<1>3. \A i \in 1 .. n : FrameInv(conf, st, s, i)
  BY DEF GoodStack
<1> SUFFICES ASSUME NEW i \in 1 .. n + 1
             PROVE  FrameInv(conf, st, r, i)
  BY <1>1 DEF GoodStack, r
<1>4. i \in Nat /\ n \in Nat
  BY <1>1
<1> HIDE DEF n
<1>5. \A e : st[e] = init => Settled(st, r, e)
  BY <1>1 DEF Settled, NestInv
<1>6. CASE i = 1
  <2>1. r[i] = y /\ 1 .. i - 1 = {} /\ y.at = "enter"
    BY <1>1, <1>6 DEF NestInv
  <2> QED BY <1>6, <2>1 DEF FrameInv, NestInv
<1>7. CASE i = 2
  <2>1. r[i] = x /\ x.at \in Loops /\ i > 1 /\ r[i - 1] = y
        /\ \A j \in 1 .. i - 1 : j = 1
    BY <1>1, <1>7 DEF NestInv
  <2>2. x.at # "apply" /\ x.at # "request"
    BY <2>1 DEF Loops
  <2>3. \A j \in 1 .. i - 1 : r[j].target # init => r[i].target # init /\ r[i].at = "depends"
    BY <1>1, <2>1 DEF NestInv
  <2> QED BY <1>5, <1>7, <2>1, <2>2, <2>3 DEF FrameInv, NestInv
<1>8. CASE i # 1 /\ i # 2
  <2> DEFINE k == i - 1
  <2>1. k \in 2 .. n /\ k \in 1 .. n /\ k > 1 /\ k + 1 = i /\ i > 1 /\ i # 1 /\ k - 1 \in 1 .. n
        /\ k - 1 + 1 = i - 1
    BY <1>4, <1>8
  <2>2. r[i] = s[k] /\ FrameInv(conf, st, s, k) /\ r[i - 1].mod = s[k - 1].mod
    <3>1. r[k + 1] = s[k] /\ r[k - 1 + 1].mod = s[k - 1].mod
      BY <1>1, <1>2, <2>1
    <3> QED BY <1>3, <2>1, <3>1
  <2>3. \A j \in 1 .. i - 1 : r[j].target # init => r[i].target # init /\ r[i].at = "depends"
    <3> SUFFICES ASSUME NEW j \in 1 .. i - 1, r[j].target # init
                 PROVE  s[k].target # init /\ s[k].at = "depends"
      BY <2>2
    <3>1. CASE j = 1
      <4>1. x.target # init
        BY <1>1, <3>1 DEF NestInv
      <4>2. s[1].target # init /\ 1 \in 1 .. k - 1
        BY <4>1, <2>1 DEF Same
      <4> QED BY <4>2, <2>2 DEF FrameInv
    <3>2. CASE j # 1
      <4>1. j - 1 \in 1 .. k - 1 /\ j - 1 \in 1 .. n /\ j - 1 + 1 = j
        BY <1>4, <3>2, <2>1
      <4>2. r[j].target = s[j - 1].target
        BY <1>2, <4>1
      <4> QED BY <4>1, <4>2, <2>2 DEF FrameInv
    <3> QED BY <3>1, <3>2
  <2>4. /\ r[i].at \in Loops /\ (r[i].target # init => CallersOK(conf, r[i]))
        /\ r[i].at = "depends" => ToSet(r[i].rest) \subseteq ToSet(conf.depends[r[i].mod])
    BY <2>1, <2>2 DEF FrameInv
  <2>5. ASSUME r[i].target # init, r[i].at \in {"excludes", "apply", "request"},
               NEW e \in Mutual(conf, r[i].mod)
        PROVE  \/ r[i].at = "excludes" /\ e \in ToSet(r[i].rest)
               \/ i > 1 /\ r[i - 1].mod = e
               \/ Settled(st, r, e)
    <3>1. \/ s[k].at = "excludes" /\ e \in ToSet(s[k].rest)
          \/ s[k - 1].mod = e
          \/ Settled(st, s, e)
      BY <2>1, <2>2, <2>5 DEF FrameInv
    <3>2. Settled(st, s, e) => Settled(st, r, e)
      BY <1>5 DEF Settled
    <3> QED BY <2>1, <2>2, <3>1, <3>2
  <2> QED BY <2>1, <2>3, <2>4, <2>5 DEF FrameInv
<1> QED BY <1>6, <1>7, <1>8

(* It returns; if it was to bring its module to init, it has. *)
LEMMA GoodWhenReturned ==
  ASSUME NEW conf \in Configs, NEW st, NEW s, StackOK(s), s # <<>>, GoodStack(conf, st, s),
         s[1].target = init => st[s[1].mod] = init
  PROVE  GoodStack(conf, st, Tail(s))
<1> DEFINE r == Tail(s)
           n == Len(s)
<1>1. /\ n \in Nat \ {0} /\ Len(r) = n - 1
      /\ \A i \in 1 .. n - 1 : r[i] = s[i + 1]
  BY DEF StackOK
<1>2. \A i \in 1 .. n : FrameInv(conf, st, s, i)
  BY DEF GoodStack
<1> HIDE DEF r
<1> SUFFICES ASSUME NEW i \in 1 .. n - 1
             PROVE  FrameInv(conf, st, r, i)
  BY <1>1 DEF GoodStack, r
<1> HIDE DEF n
<1>3. /\ i \in Nat /\ i + 1 \in 1 .. n /\ i + 1 > 1 /\ 1 \in 1 .. i + 1 - 1 /\ i + 1 - 1 = i
      /\ 1 \in 1 .. n - 1 /\ 1 + 1 \in 1 .. n /\ 1 + 1 > 1
  BY <1>1
<1>4. r[i] = s[i + 1] /\ FrameInv(conf, st, s, i + 1)
  BY <1>1, <1>2, <1>3
<1>5. /\ r[i].at \in Loops /\ r[1].at \in Loops /\ r[1].at # "request"
      /\ r[i].target # init => CallersOK(conf, r[i])
      /\ r[i].at = "depends" => ToSet(r[i].rest) \subseteq ToSet(conf.depends[r[i].mod])
  <2>1. r[1] = s[1 + 1] /\ FrameInv(conf, st, s, 1 + 1)
    BY <1>1, <1>2, <1>3
  <2>2. r[1].at \in Loops
    BY <2>1, <1>3 DEF FrameInv
  <2> QED BY <1>3, <1>4, <2>2 DEF FrameInv, Loops
<1>6. \A j \in 1 .. i - 1 : r[j].target # init => r[i].target # init /\ r[i].at = "depends"
  <2> SUFFICES ASSUME NEW j \in 1 .. i - 1, r[j].target # init
               PROVE  s[i + 1].target # init /\ s[i + 1].at = "depends"
    BY <1>4
  <2>1. j + 1 \in 1 .. i + 1 - 1 /\ j \in 1 .. n - 1
    BY <1>1, <1>3
  <2>2. r[j] = s[j + 1]
    BY <1>1, <2>1
  <2> QED BY <1>4, <2>1, <2>2 DEF FrameInv
<1>7. ASSUME r[i].target # init, r[i].at \in {"excludes", "apply", "request"},
             NEW e \in Mutual(conf, r[i].mod)
      PROVE  \/ r[i].at = "excludes" /\ e \in ToSet(r[i].rest)
             \/ i > 1 /\ r[i - 1].mod = e
             \/ Settled(st, r, e)
  <2>1. s[1].target = init
    BY <1>3, <1>4, <1>7 DEF FrameInv
  <2>2. \/ s[i + 1].at = "excludes" /\ e \in ToSet(s[i + 1].rest)
        \/ s[i].mod = e
        \/ Settled(st, s, e)
    BY <1>3, <1>4, <1>7 DEF FrameInv
  <2>3. st[e] = init => Settled(st, r, e)
    BY <1>5 DEF Settled
  <2>4. CASE i = 1
    BY <1>4, <2>1, <2>2, <2>3, <2>4 DEF Settled
  <2>5. CASE i # 1
    <3>1. i > 1 /\ i - 1 \in 1 .. n - 1 /\ i - 1 + 1 = i
      BY <1>1, <1>3, <2>5
    <3>2. r[i - 1] = s[i]
      BY <1>1, <3>1
    <3> QED BY <1>4, <2>2, <2>3, <3>1, <3>2 DEF Settled
  <2> QED BY <2>4, <2>5
<1>8. i > 1 => r[i].at \in Loops
  BY <1>5
<1>9. i = 1 => r[i].at # "request"
  BY <1>5
<1> QED BY <1>5, <1>6, <1>7, <1>8, <1>9 DEF FrameInv

(* Its module changes state. *)
LEMMA GoodWhenRaised ==
  ASSUME NEW conf \in Configs, NEW st, NEW st2, NEW s, StackOK(s), s # <<>>,
         GoodStack(conf, st, s), s[1].at = "request", s[1].rest # <<init>>,
         \A m \in Modules : m # s[1].mod => st2[m] = st[m]
  PROVE  /\ GoodStack(conf, st2, s)
         /\ \A e \in Mutual(conf, s[1].mod) : st[e] = init
<1> DEFINE n == Len(s)
<1>1. n \in Nat \ {0} /\ \A i \in 1 .. n : s[i].mod \in Modules
  BY DEF StackOK, FrameOK, Frames
<1>2. \A i \in 1 .. n : FrameInv(conf, st, s, i)
  BY DEF GoodStack
<1>3. 1 \in 1 .. n
  BY <1>1
<1>4. /\ Mutual(conf, s[1].mod) \subseteq Modules
      /\ s[1].mod \notin Mutual(conf, s[1].mod)
  BY <1>1, <1>3, MutualOf
<1>5. \A e \in Mutual(conf, s[1].mod) : st[e] = init
  <2>1. FrameInv(conf, st, s, 1) /\ ~(1 > 1)
    BY <1>2, <1>3
  <2>2. CASE s[1].target = init
    BY <2>1, <2>2 DEF FrameInv
  <2>3. CASE s[1].target # init
    BY <2>1, <2>3 DEF FrameInv, Settled
  <2> QED BY <2>2, <2>3
<1>6. \A e \in Modules : Settled(st, s, e) => Settled(st2, s, e)
  BY DEF Settled
<1> SUFFICES ASSUME NEW i \in 1 .. n
             PROVE  FrameInv(conf, st2, s, i)
  BY <1>5 DEF GoodStack
<1>7. FrameInv(conf, st, s, i) /\ \A e \in Mutual(conf, s[i].mod) : e \in Modules
  BY <1>1, <1>2, MutualOf
<1>8. i = 1 => \A e \in Mutual(conf, s[i].mod) : st2[e] = init
  BY <1>4, <1>5
<1> QED BY <1>6, <1>7, <1>8 DEF FrameInv

LEMMA ApartWhenMoved ==
  ASSUME NEW conf \in Configs, NEW st \in [Modules -> States], Apart(conf, st),
         NEW m \in Modules, NEW v,
         v = init \/ \A e \in Mutual(conf, m) : st[e] = init
  PROVE  Apart(conf, [st EXCEPT ![m] = v])
<1> DEFINE st2 == [st EXCEPT ![m] = v]
<1> SUFFICES ASSUME NEW k \in Modules, NEW e \in Mutual(conf, k)
             PROVE  init \in {st2[k], st2[e]}
  BY DEF Apart
<1>1. e \in Modules /\ e # k /\ k \in Mutual(conf, e)
  BY MutualOf
<1>2. init \in {st[k], st[e]}
  BY DEF Apart
<1>3. CASE k = m
  BY <1>1, <1>2, <1>3
<1>4. CASE e = m
  BY <1>1, <1>2, <1>4
<1>5. CASE k # m /\ e # m
  BY <1>1, <1>2, <1>5
<1> QED BY <1>3, <1>4, <1>5

LEMMA ApartOf ==
  ASSUME NEW conf, NEW st, Apart(conf, st), NEW m \in Modules, st[m] # init
  PROVE  \A e \in Mutual(conf, m) : st[e] = init
BY DEF Apart

LEMMA ToSetOf ==
  ASSUME NEW S, NEW q \in Seq(S)
  PROVE  /\ q = <<>> => ToSet(q) = {}
         /\ q # <<>> => /\ Head(q) \in ToSet(q) /\ ToSet(Tail(q)) \subseteq ToSet(q)
                        /\ \A x \in ToSet(q) : x = Head(q) \/ x \in ToSet(Tail(q))
<1>1. CASE q = <<>>
  BY <1>1 DEF ToSet
<1>2. CASE q # <<>>
  <2> DEFINE n == Len(q)
             r == Tail(q)
  <2>1. /\ n \in Nat \ {0} /\ Head(q) = q[1]
        /\ r \in Seq(S) /\ Len(r) = n - 1 /\ \A i \in 1 .. n - 1 : r[i] = q[i + 1]
    BY <1>2
  <2>2. ToSet(q) = {q[i] : i \in 1 .. n} /\ ToSet(r) = {r[i] : i \in 1 .. n - 1}
    <3>1. DOMAIN q = 1 .. n /\ DOMAIN r = 1 .. n - 1
      BY <2>1
    <3> QED BY <3>1 DEF ToSet
  <2> HIDE DEF n, r
  <2>3. 1 \in 1 .. n /\ \A i \in 1 .. n - 1 : i + 1 \in 1 .. n
    BY <2>1
  <2>4. \A i \in 1 .. n : i = 1 \/ (i - 1 \in 1 .. n - 1 /\ i - 1 + 1 = i)
    BY <2>1
  <2>5. Head(q) \in ToSet(q) /\ ToSet(r) \subseteq ToSet(q)
    BY <2>1, <2>2, <2>3
  <2>6. \A x \in ToSet(q) : x = Head(q) \/ x \in ToSet(r)
    <3> SUFFICES ASSUME NEW i \in 1 .. n, i # 1
                 PROVE  q[i] \in ToSet(r)
      BY <2>1, <2>2
    <3>1. i - 1 \in 1 .. n - 1 /\ i - 1 + 1 = i
      BY <2>4
    <3>2. q[i] = r[i - 1]
      BY <2>1, <3>1
    <3> QED BY <2>2, <3>1, <3>2
  <2> QED BY <1>2, <2>5, <2>6 DEF r
<1> QED BY <1>1, <1>2

-----------------------------------------------------------------------------
(* The steps of set_state keep the calls in order. *)

Good(t) == GoodStack(config, state, stack[t])

LEMMA TopIsGood ==
  ASSUME TypeOK, NEW t \in Threads, stack[t] # <<>>, Good(t)
  PROVE  /\ config \in Configs /\ FrameInv(config, state, stack[t], 1)
         /\ Top(t) = stack[t][1] /\ StackOK(stack[t])
         /\ Top(t).target # init => CallersOK(config, Top(t))
<1>1. StackOK(stack[t]) /\ Top(t) = stack[t][1] /\ 1 \in 1 .. Len(stack[t])
  BY TopOf, Popped
<1>2. FrameInv(config, state, stack[t], 1)
  BY <1>1 DEF Good, GoodStack
<1> QED BY <1>1, <1>2 DEF FrameInv, TypeOK

LEMMA GoOnGood ==
  ASSUME TypeOK, NEW t \in Threads, stack[t] # <<>>, NEW at, NEW rest, GoOn(t, at, rest),
         GoodStack(config, state', stack[t]),
         [Top(t) EXCEPT !.at = at, !.rest = rest] \in Frames,
         TopInv(config, state', stack[t], [Top(t) EXCEPT !.at = at, !.rest = rest])
  PROVE  GoodStack(config, state', stack'[t])
<1> DEFINE x == [Top(t) EXCEPT !.at = at, !.rest = rest]
           s == <<x>> \o Tail(stack[t])
<1>1. /\ StackOK(stack[t]) /\ Top(t) = stack[t][1] /\ Top(t) \in Frames
      /\ config \in Configs
  BY TopOf DEF TypeOK
<1>2. Same(stack[t][1], x)
  BY <1>1 DEF Same, Frames
<1>3. SetStack(t, s)
  BY DEF GoOn
<1> HIDE DEF x
<1>4. GoodStack(config, state', s)
  BY <1>1, <1>2, GoodWhenReplaced DEF x
<1> HIDE DEF s
<1>5. stack'[t] = s
  BY <1>3, SetStackStep
<1> QED BY <1>4, <1>5

LEMMA NestGood ==
  ASSUME TypeOK, NEW t \in Threads, stack[t] # <<>>, Good(t), UNCHANGED state,
         NEW x \in Frames, Same(Top(t), x),
         NEW m \in Modules, NEW target \in States, NEW caller \in SUBSET Modules,
         NestInv(config, state, x, Frame(m, target, caller)),
         SetStack(t, <<Frame(m, target, caller), x>> \o Tail(stack[t]))
  PROVE  GoodStack(config, state', stack'[t])
<1> DEFINE y == Frame(m, target, caller)
           s == <<y, x>> \o Tail(stack[t])
<1>1. StackOK(stack[t]) /\ Top(t) = stack[t][1] /\ config \in Configs
  BY TopOf DEF TypeOK
<1>2. y \in Frames
  <2>1. <<>> \in Seq(Modules)
    OBVIOUS
  <2> QED BY <2>1 DEF Frame, Frames
<1>3. SetStack(t, s) /\ NestInv(config, state, x, y)
  OBVIOUS
<1> HIDE DEF y
<1>4. GoodStack(config, state, s)
  BY <1>1, <1>2, <1>3, GoodWhenNested DEF Good
<1> HIDE DEF s
<1>5. stack'[t] = s
  BY <1>3, SetStackStep
<1> QED BY <1>4, <1>5

LEMMA ReturnGood ==
  ASSUME TypeOK, NEW t \in Threads, stack[t] # <<>>, Return(t),
         GoodStack(config, state', stack[t]),
         Top(t).target = init => state'[Top(t).mod] = init
  PROVE  GoodStack(config, state', stack'[t])
<1> DEFINE s == Tail(stack[t])
<1>1. StackOK(stack[t]) /\ Top(t) = stack[t][1] /\ config \in Configs
  BY TopOf DEF TypeOK
<1>2. SetStack(t, s)
  BY DEF Return
<1>3. GoodStack(config, state', s)
  BY <1>1, GoodWhenReturned
<1> HIDE DEF s
<1>4. stack'[t] = s
  BY <1>2, SetStackStep
<1> QED BY <1>3, <1>4

LEMMA NothingIsGood ==
  ASSUME NEW conf, NEW st
  PROVE  GoodStack(conf, st, <<>>)
BY DEF GoodStack

LEMMA ThrowGood ==
  ASSUME TypeOK, NEW t \in Threads, Throw(t)
  PROVE  GoodStack(config, state', stack'[t])
<1>1. stack'[t] = <<>>
  BY DEF Throw, TypeOK
<1> QED BY <1>1, NothingIsGood

LEMMA EnterGood ==
  ASSUME TypeOK, NEW t \in Threads, Good(t), Enter(t)
  PROVE  GoodStack(config, state', stack'[t])
<1> DEFINE f == Top(t)
           begun == [f EXCEPT !.at = "depends", !.rest = depends[f.mod]]
<1>1. /\ stack[t] # <<>> /\ UNCHANGED state /\ GoodStack(config, state', stack[t])
  BY DEF Enter, At, Good
<1>2. f \in Frames /\ f.mod \in Modules /\ f.target \in States /\ StackOK(stack[t])
  BY <1>1, TopOf
<1>3. /\ begun \in Frames /\ Same(f, begun) /\ begun.at = "depends"
      /\ begun.rest = depends[f.mod] /\ begun.mod = f.mod /\ begun.target = f.target
      /\ begun.caller = f.caller
  <2>1. depends[f.mod] \in Seq(Modules)
    BY <1>2, ConfigOf
  <2> QED BY <1>2, <2>1 DEF Frames, Loops, Same
<1>4. f.target # init => CallersOK(config, begun)
  BY <1>1, <1>3, TopIsGood DEF CallersOK
<1>5. ToSet(begun.rest) \subseteq ToSet(config.depends[begun.mod])
  BY <1>3 DEF depends
<1>6. \/ Throw(t)
      \/ Return(t) /\ state[f.mod] = f.target
      \/ SetStack(t, <<Frame(f.mod, init, {})>> \o <<begun>> \o Tail(stack[t])) /\ f.target = boot
      \/ SetStack(t, <<>> \o <<begun>> \o Tail(stack[t]))
  BY DEF Enter
<1>7. CASE SetStack(t, <<Frame(f.mod, init, {})>> \o <<begun>> \o Tail(stack[t]))
  <2>1. <<Frame(f.mod, init, {})>> \o <<begun>> = <<Frame(f.mod, init, {}), begun>>
    <3> DEFINE x == Frame(f.mod, init, {})
    <3>1. x \in Frames
      <4>1. <<>> \in Seq(Modules) /\ init \in States
        BY StatesAreNumbers
      <4> QED BY <1>2, <4>1 DEF Frame, Frames
    <3> HIDE DEF x, begun
    <3>2. <<x>> \o <<begun>> = <<x, begun>>
      BY <1>3, <3>1, PairOf
    <3> QED BY <3>2 DEF x
  <2>2. SetStack(t, <<Frame(f.mod, init, {}), begun>> \o Tail(stack[t]))
    BY <1>7, <2>1
  <2>3. NestInv(config, state, begun, Frame(f.mod, init, {}))
    <3> HIDE DEF begun
    <3> QED BY <1>3, <1>4, <1>5 DEF NestInv, Frame, Loops
  <2>4. {} \in SUBSET Modules /\ init \in States
    BY StatesAreNumbers
  <2> HIDE DEF begun
  <2> QED BY <1>1, <1>2, <1>3, <2>2, <2>3, <2>4, NestGood
<1>8. CASE SetStack(t, <<>> \o <<begun>> \o Tail(stack[t]))
  <2>1. <<>> \o <<begun>> = <<begun>>
    BY ConcatEmptySeq
  <2>2. GoOn(t, "depends", depends[f.mod])
    BY <1>8, <2>1 DEF GoOn
  <2>3. TopInv(config, state', stack[t], begun)
    <3> HIDE DEF begun
    <3> QED BY <1>3, <1>4, <1>5 DEF TopInv
  <2> QED BY <1>1, <1>3, <2>2, <2>3, GoOnGood
<1>9. CASE Return(t) /\ state[f.mod] = f.target
  BY <1>1, <1>9, ReturnGood
<1> QED BY <1>6, <1>7, <1>8, <1>9, ThrowGood

(* The callers of a nested call depend on its module. *)
LEMMA CallersLonger ==
  ASSUME NEW conf, NEW f \in Frames, CallersOK(conf, f), NEW x, x.mod = f.mod,
         x.caller = f.caller \cup {f.mod}
  PROVE  /\ CallersOK(conf, x)
         /\ \A y : /\ y.mod \in ToSet(conf.depends[f.mod]) /\ y.mod \in Modules
                   /\ y.caller = f.caller \cup {f.mod}
                   => CallersOK(conf, y)
<1>1. f.mod \in Modules /\ f.caller \subseteq Modules
  BY DEF Frames
<1>2. CallersOK(conf, x)
  BY DEF CallersOK
<1>3. ASSUME NEW y, y.mod \in ToSet(conf.depends[f.mod]), y.mod \in Modules,
             y.caller = f.caller \cup {f.mod}
      PROVE  CallersOK(conf, y)
  <2> DEFINE d == y.mod
  <2>1. /\ d \in Modules /\ d \in Below(conf, f.mod)
        /\ \A k \in Modules : f.mod \in Below(conf, k) => d \in Below(conf, k)
    <3> HIDE DEF d
    <3>1. d \in Modules /\ d \in ToSet(conf.depends[f.mod])
      BY <1>3 DEF d
    <3> QED BY <1>1, <3>1, BelowOf
  <2>2. \A k \in f.caller \cup {f.mod} : d \in Below(conf, k)
    BY <1>1, <2>1 DEF CallersOK
  <2> QED BY <1>3, <2>2 DEF CallersOK
<1> QED BY <1>2, <1>3

LEMMA DependsGood ==
  ASSUME TypeOK, NEW t \in Threads, Good(t), Depends(t)
  PROVE  GoodStack(config, state', stack'[t])
<1> DEFINE f == Top(t)
           d == Head(f.rest)
           caller == f.caller \cup {f.mod}
           later == [f EXCEPT !.rest = Tail(f.rest), !.caller = caller]
<1>1. /\ At(t, "depends") /\ UNCHANGED state /\ "depends" \in Loops
      /\ GoodStack(config, state', stack[t])
  BY DEF Depends, Loops, Good
<1>2. /\ stack[t] # <<>> /\ f.at = "depends" /\ f.rest \in Seq(Modules)
      /\ f.rest # <<>> => d \in Modules /\ Tail(f.rest) \in Seq(Modules)
  BY <1>1, RestOf
<1>3. /\ f \in Frames /\ FrameOK(f) /\ f.mod \in Modules /\ f.target \in States
      /\ f.caller \in SUBSET Modules
  BY <1>2, TopOf
<1>4. /\ f.target # init => CallersOK(config, f)
      /\ ToSet(f.rest) \subseteq ToSet(config.depends[f.mod])
  BY <1>2, TopIsGood DEF FrameInv
<1>5. /\ f.rest # <<>> => /\ d \in ToSet(config.depends[f.mod])
                          /\ ToSet(Tail(f.rest)) \subseteq ToSet(config.depends[f.mod])
  BY <1>2, <1>4, ToSetOf
<1>6. CASE GoOn(t, "dependents", Order)
  <2> DEFINE x == [f EXCEPT !.at = "dependents", !.rest = Order]
  <2>1. x \in Frames /\ x.at = "dependents" /\ x.mod = f.mod /\ x.target = f.target
        /\ x.caller = f.caller
    BY <1>3, OrderIsSeq DEF Frames, Loops
  <2>2. TopInv(config, state', stack[t], x)
    <3> HIDE DEF x
    <3> QED BY <1>4, <2>1 DEF TopInv, CallersOK
  <2> QED BY <1>1, <1>2, <1>6, <2>1, <2>2, GoOnGood
<1>7. CASE f.rest # <<>> /\ GoOn(t, "depends", Tail(f.rest))
  <2> DEFINE x == [f EXCEPT !.at = "depends", !.rest = Tail(f.rest)]
  <2>1. x \in Frames /\ x.at = "depends" /\ x.mod = f.mod /\ x.target = f.target
        /\ x.caller = f.caller /\ x.rest = Tail(f.rest)
    BY <1>2, <1>3, <1>7 DEF Frames, Loops
  <2>2. TopInv(config, state', stack[t], x)
    <3> HIDE DEF x
    <3> QED BY <1>4, <1>5, <1>7, <2>1 DEF TopInv, CallersOK
  <2> QED BY <1>1, <1>2, <1>7, <2>1, <2>2, GoOnGood
<1>8. CASE f.target # init /\ Return(t)
  BY <1>1, <1>2, <1>8, ReturnGood
<1>9. CASE f.rest # <<>> /\ Nest(t, Tail(f.rest), d, f.target)
  <2> DEFINE y == Frame(d, f.target, caller)
  <2>1. SetStack(t, <<y, later>> \o Tail(stack[t]))
    BY <1>9 DEF Nest
  <2>2. /\ later \in Frames /\ Same(f, later) /\ caller \in SUBSET Modules
        /\ later.at = "depends" /\ later.rest = Tail(f.rest) /\ later.mod = f.mod
        /\ later.caller = caller /\ later.target = f.target
    BY <1>2, <1>3, <1>9 DEF Frames, Same
  <2>3. y.mod = d /\ y.caller = caller /\ y.at = "enter" /\ y.target = f.target
    BY DEF Frame
  <2>4. f.target # init => CallersOK(config, later) /\ CallersOK(config, y)
    <3> HIDE DEF y, later, d
    <3> QED BY <1>2, <1>3, <1>4, <1>5, <1>9, <2>2, <2>3, CallersLonger
  <2>5. NestInv(config, state, later, y)
    <3> HIDE DEF y, later, d, caller
    <3> QED BY <1>1, <1>5, <1>9, <2>2, <2>3, <2>4 DEF NestInv
  <2> HIDE DEF later, caller
  <2> QED BY <1>1, <1>2, <1>3, <1>9, <2>1, <2>2, <2>5, NestGood
<1>10. \/ GoOn(t, "dependents", Order)
       \/ f.rest # <<>> /\ GoOn(t, "depends", Tail(f.rest))
       \/ Throw(t)
       \/ f.target # init /\ Return(t)
       \/ f.rest # <<>> /\ Nest(t, Tail(f.rest), d, f.target)
  BY DEF Depends
<1> QED BY <1>6, <1>7, <1>8, <1>9, <1>10, ThrowGood

LEMMA DependentsGood ==
  ASSUME TypeOK, NEW t \in Threads, Good(t), Dependents(t)
  PROVE  GoodStack(config, state', stack'[t])
<1> DEFINE f == Top(t)
           m == Head(f.rest)
           caller == f.caller \cup {f.mod}
           later == [f EXCEPT !.rest = Tail(f.rest), !.caller = caller]
<1>1. /\ At(t, "dependents") /\ UNCHANGED state /\ "dependents" \in Loops
      /\ GoodStack(config, state', stack[t])
  BY DEF Dependents, Loops, Good
<1>2. /\ stack[t] # <<>> /\ f.at = "dependents" /\ f.rest \in Seq(Modules)
      /\ f.rest # <<>> => m \in Modules /\ Tail(f.rest) \in Seq(Modules)
  BY <1>1, RestOf
<1>3. /\ f \in Frames /\ FrameOK(f) /\ f.mod \in Modules /\ f.target \in States
      /\ f.caller \in SUBSET Modules /\ config \in Configs
  BY <1>2, TopOf DEF TypeOK
<1>4. f.target # init => CallersOK(config, f)
  BY <1>2, TopIsGood
<1>5. CASE GoOn(t, "excludes", IF f.target = init THEN <<>> ELSE excludes[f.mod])
  <2> DEFINE rest == IF f.target = init THEN <<>> ELSE excludes[f.mod]
             x == [f EXCEPT !.at = "excludes", !.rest = rest]
  <2>1. rest \in Seq(Modules) /\ (f.target # init => rest = config.excludes[f.mod])
    BY <1>3, ConfigOf DEF excludes
  <2>2. GoOn(t, "excludes", rest)
    BY <1>5
  <2> HIDE DEF rest
  <2>3. x \in Frames /\ x.at = "excludes" /\ x.mod = f.mod /\ x.target = f.target
        /\ x.caller = f.caller /\ x.rest = rest
    BY <1>3, <2>1 DEF Frames, Loops
  <2>4. Mutual(config, f.mod) \subseteq ToSet(config.excludes[f.mod])
    BY <1>3, MutualOf
  <2>5. TopInv(config, state', stack[t], x)
    <3> HIDE DEF x
    <3> QED BY <1>4, <2>1, <2>3, <2>4 DEF TopInv, CallersOK
  <2> QED BY <1>1, <1>2, <2>2, <2>3, <2>5, GoOnGood
<1>6. CASE f.rest # <<>> /\ GoOn(t, "dependents", Tail(f.rest))
  <2> DEFINE x == [f EXCEPT !.at = "dependents", !.rest = Tail(f.rest)]
  <2>1. x \in Frames /\ x.at = "dependents" /\ x.mod = f.mod /\ x.target = f.target
        /\ x.caller = f.caller
    BY <1>2, <1>3, <1>6 DEF Frames, Loops
  <2>2. TopInv(config, state', stack[t], x)
    <3> HIDE DEF x
    <3> QED BY <1>4, <2>1 DEF TopInv, CallersOK
  <2> QED BY <1>1, <1>2, <1>6, <2>1, <2>2, GoOnGood
<1>7. CASE f.rest # <<>> /\ Nest(t, Tail(f.rest), m, init)
  <2> DEFINE y == Frame(m, init, caller)
  <2>1. SetStack(t, <<y, later>> \o Tail(stack[t]))
    BY <1>7 DEF Nest
  <2>2. /\ later \in Frames /\ Same(f, later) /\ caller \in SUBSET Modules
        /\ later.at = "dependents" /\ later.mod = f.mod
        /\ later.caller = caller /\ later.target = f.target
    BY <1>2, <1>3, <1>7 DEF Frames, Same
  <2>3. y.mod = m /\ y.at = "enter" /\ y.target = init
    BY DEF Frame
  <2>4. f.target # init => CallersOK(config, later)
    <3> HIDE DEF y, later
    <3> QED BY <1>3, <1>4, <2>2, CallersLonger
  <2>5. NestInv(config, state, later, y)
    <3> HIDE DEF y, later, m, caller
    <3> QED BY <1>1, <2>2, <2>3, <2>4 DEF NestInv
  <2>6. m \in Modules /\ init \in States
    BY <1>2, <1>7, StatesAreNumbers
  <2> HIDE DEF later, caller
  <2> QED BY <1>1, <1>2, <2>1, <2>2, <2>5, <2>6, NestGood
<1>8. \/ GoOn(t, "excludes", IF f.target = init THEN <<>> ELSE excludes[f.mod])
      \/ f.rest # <<>> /\ GoOn(t, "dependents", Tail(f.rest))
      \/ Throw(t)
      \/ f.rest # <<>> /\ Nest(t, Tail(f.rest), m, init)
  BY DEF Dependents
<1> QED BY <1>5, <1>6, <1>7, <1>8, ThrowGood

LEMMA ExcludesGood ==
  ASSUME Consistent, TypeOK, NEW t \in Threads, Good(t), Excludes(t)
  PROVE  GoodStack(config, state', stack'[t])
<1> DEFINE f == Top(t)
           e == Head(f.rest)
           later == [f EXCEPT !.rest = Tail(f.rest)]
<1>1. /\ At(t, "excludes") /\ UNCHANGED state /\ "excludes" \in Loops
      /\ GoodStack(config, state', stack[t])
  BY DEF Excludes, Loops, Good
<1>2. /\ stack[t] # <<>> /\ f.at = "excludes" /\ f.rest \in Seq(Modules)
      /\ f.rest # <<>> => e \in Modules /\ Tail(f.rest) \in Seq(Modules)
  BY <1>1, RestOf
<1>3. /\ f \in Frames /\ FrameOK(f) /\ f.mod \in Modules /\ f.target \in States
      /\ f.caller \in SUBSET Modules /\ config \in Configs
  BY <1>2, TopOf DEF TypeOK
<1>4. /\ f.target # init => CallersOK(config, f)
      /\ f.target # init => \A k \in Mutual(config, f.mod) :
                              k \in ToSet(f.rest) \/ state[k] = init
  BY <1>2, TopIsGood DEF FrameInv, Settled
<1>5. /\ f.rest = <<>> => ToSet(f.rest) = {}
      /\ f.rest # <<>> => \A k \in ToSet(f.rest) : k = e \/ k \in ToSet(Tail(f.rest))
  BY <1>2, ToSetOf
<1>6. f.target # init /\ e \in f.caller => e \notin Mutual(config, f.mod)
  <2> SUFFICES ASSUME f.target # init, e \in f.caller, e \in Mutual(config, f.mod)
               PROVE  FALSE
    OBVIOUS
  <2>1. e \in Modules /\ e # f.mod /\ f.mod \in Mutual(config, e)
    BY <1>3, MutualOf
  <2>2. f.mod \in Below(config, e)
    BY <1>4, <2>1 DEF CallersOK
  <2> QED BY <1>3, <2>1, <2>2 DEF Consistent
<1>7. CASE f.rest = <<>> /\ GoOn(t, "apply", <<>>)
  <2> DEFINE x == [f EXCEPT !.at = "apply", !.rest = <<>>]
  <2>1. x \in Frames /\ x.at = "apply" /\ x.mod = f.mod /\ x.target = f.target
        /\ x.caller = f.caller
    <3>1. <<>> \in Seq(Modules)
      OBVIOUS
    <3> QED BY <1>3, <3>1 DEF Frames
  <2>2. TopInv(config, state', stack[t], x)
    <3> HIDE DEF x
    <3> QED BY <1>1, <1>4, <1>5, <1>7, <2>1 DEF TopInv, CallersOK
  <2> QED BY <1>1, <1>2, <1>7, <2>1, <2>2, GoOnGood
<1>8. CASE /\ f.rest # <<>> /\ (e \in f.caller \/ state[e] = init)
           /\ GoOn(t, "excludes", Tail(f.rest))
  <2> DEFINE x == [f EXCEPT !.at = "excludes", !.rest = Tail(f.rest)]
  <2>1. x \in Frames /\ x.at = "excludes" /\ x.mod = f.mod /\ x.target = f.target
        /\ x.caller = f.caller /\ x.rest = Tail(f.rest)
    <3>1. Tail(f.rest) \in Seq(Modules)
      BY <1>2, <1>8
    <3> QED BY <1>3, <3>1 DEF Frames, Loops
  <2>2. f.target # init => \A k \in Mutual(config, f.mod) :
                             k \in ToSet(Tail(f.rest)) \/ state[k] = init
    BY <1>4, <1>5, <1>6, <1>8
  <2>3. TopInv(config, state', stack[t], x)
    <3> HIDE DEF x, e
    <3> QED BY <1>1, <1>4, <2>1, <2>2 DEF TopInv, CallersOK
  <2> QED BY <1>1, <1>2, <1>8, <2>1, <2>3, GoOnGood
<1>9. CASE /\ f.rest # <<>>
           /\ SetStack(t, <<Frame(e, init, f.caller), later>> \o Tail(stack[t]))
  <2> DEFINE y == Frame(e, init, f.caller)
  <2>1. /\ later \in Frames /\ Same(f, later) /\ later.rest = Tail(f.rest)
        /\ later.at = "excludes" /\ later.mod = f.mod
        /\ later.caller = f.caller /\ later.target = f.target
    BY <1>2, <1>3, <1>9 DEF Frames, Same
  <2>2. y.mod = e /\ y.at = "enter" /\ y.target = init
    BY DEF Frame
  <2>3. f.target # init => \A k \in Mutual(config, f.mod) :
                             k \in ToSet(Tail(f.rest)) \/ k = e \/ state[k] = init
    BY <1>4, <1>5, <1>9
  <2>4. NestInv(config, state, later, y)
    <3> HIDE DEF y, later, e
    <3> QED BY <1>1, <1>4, <2>1, <2>2, <2>3 DEF NestInv, CallersOK
  <2>5. e \in Modules /\ init \in States
    BY <1>2, <1>9, StatesAreNumbers
  <2> HIDE DEF later
  <2> QED BY <1>1, <1>2, <1>3, <1>9, <2>1, <2>4, <2>5, NestGood
<1>10. \/ f.rest = <<>> /\ GoOn(t, "apply", <<>>)
       \/ /\ f.rest # <<>> /\ (e \in f.caller \/ state[e] = init)
          /\ GoOn(t, "excludes", Tail(f.rest))
       \/ Throw(t)
       \/ /\ f.rest # <<>>
          /\ SetStack(t, <<Frame(e, init, f.caller), later>> \o Tail(stack[t]))
  BY DEF Excludes
<1> QED BY <1>7, <1>8, <1>9, <1>10, ThrowGood

LEMMA ApplyGood ==
  ASSUME TypeOK, NEW t \in Threads, Good(t), Apart(config, state), Apply(t)
  PROVE  GoodStack(config, state', stack'[t])
<1> DEFINE f == Top(t)
           rest == Requests(state[f.mod], f.target)
           x == [f EXCEPT !.at = "request", !.rest = rest]
<1>1. /\ stack[t] # <<>> /\ f.at = "apply" /\ UNCHANGED state
      /\ state \in [Modules -> States] /\ GoodStack(config, state', stack[t])
  BY DEF Apply, At, TypeOK, Good
<1>2. /\ f \in Frames /\ f.mod \in Modules /\ f.target \in States
      /\ Top(t) = stack[t][1] /\ f.mod \notin Mutual(config, f.mod)
  BY <1>1, TopOf, MutualOf DEF TypeOK
<1>3. CASE Throw(t)
  BY <1>3, ThrowGood
<1>4. CASE Known(state[f.mod], f.target) /\ GoOn(t, "request", rest)
  <2>1. rest \in Seq(States)
    BY <1>1, <1>2, <1>4, RequestsEnd
  <2>2. state[f.mod] = init /\ f.target = init => rest = <<init>>
    BY DEF Requests
  <2>3. GoOn(t, "request", rest)
    BY <1>4
  <2> HIDE DEF rest
  <2>4. /\ x \in Frames /\ x.at = "request" /\ x.mod = f.mod /\ x.target = f.target
        /\ x.caller = f.caller /\ x.rest = rest
    BY <1>2, <2>1 DEF Frames
  <2>5. f.target # init => /\ CallersOK(config, f)
                           /\ \A k \in Mutual(config, f.mod) : state[k] = init
    BY <1>1, TopIsGood DEF FrameInv, Settled
  <2>6. f.target = init => rest = <<init>> \/ \A k \in Mutual(config, f.mod) : state[k] = init
    BY <1>2, <2>2, ApartOf
  <2>7. TopInv(config, state', stack[t], x)
    <3> HIDE DEF x
    <3> QED BY <1>1, <2>2, <2>4, <2>5, <2>6 DEF TopInv, CallersOK, Settled
  <2> QED BY <1>1, <2>3, <2>4, <2>7, GoOnGood
<1> QED BY <1>3, <1>4 DEF Apply

(* The requests of a call: the modules its own excludes are in init, unless *)
(* it is about to bring it to init itself.                                 *)
LEMMA RequestGood ==
  ASSUME TypeOK, NEW t \in Threads, Good(t), Apart(config, state), Request(t)
  PROVE  GoodStack(config, state', stack'[t]) /\ Apart(config, state')
<1> DEFINE f == Top(t)
           m == f.mod
           v == Head(f.rest)
<1>1. /\ stack[t] # <<>> /\ f.at = "request" /\ state \in [Modules -> States]
      /\ state' = [state EXCEPT ![m] = v] /\ config \in Configs
      /\ GoodStack(config, state, stack[t])
  BY DEF Request, At, TypeOK, Good
<1>2. /\ f \in Frames /\ FrameOK(f) /\ m \in Modules /\ f.target \in States
      /\ f = stack[t][1] /\ StackOK(stack[t]) /\ m \notin Mutual(config, m)
  BY <1>1, TopOf, MutualOf
<1>3. /\ v \in States /\ Tail(f.rest) \in Seq(States) /\ f.rest # <<>>
      /\ Tail(f.rest) = <<>> => v = f.target
  BY <1>1, <1>2, LastOfTail DEF FrameOK
<1>4. f.rest = <<init>> => v = init /\ Tail(f.rest) = <<>>
  OBVIOUS
<1>5. state'[m] = v /\ \A k \in Modules : k # m => state'[k] = state[k]
  BY <1>1, <1>2, <1>3
<1>6. f.rest # <<init>> => /\ GoodStack(config, state', stack[t])
                           /\ \A k \in Mutual(config, m) : state[k] = init
  <2> SUFFICES ASSUME f.rest # <<init>>
               PROVE  /\ GoodStack(config, state', stack[t])
                      /\ \A k \in Mutual(config, m) : state[k] = init
    OBVIOUS
  <2> DEFINE s == stack[t]
  <2>1. /\ StackOK(s) /\ s # <<>> /\ f = s[1] /\ GoodStack(config, state, s)
        /\ config \in Configs
    BY <1>1, <1>2
  <2>2. s[1].at = "request" /\ s[1].rest # <<init>> /\ s[1].mod = m
    BY <1>1, <2>1
  <2>3. \A k \in Modules : k # s[1].mod => state'[k] = state[k]
    BY <1>5, <2>2
  <2> HIDE DEF s, m, f
  <2>4. /\ GoodStack(config, state', s)
        /\ \A k \in Mutual(config, s[1].mod) : state[k] = init
    BY <2>1, <2>2, <2>3, GoodWhenRaised
  <2> QED BY <2>2, <2>4 DEF s
<1>7. GoodStack(config, state', stack[t])
  <2>1. CASE f.rest = <<init>>
    <3>1. \A k \in Modules : state'[k] \in {state[k], init}
      BY <1>4, <1>5, <2>1
    <3> QED BY <1>1, <1>2, <3>1, GoodWhenLowered
  <2> QED BY <2>1, <1>6
<1>8. Apart(config, state')
  <2>1. v = init \/ \A k \in Mutual(config, m) : state[k] = init
    BY <1>4, <1>6
  <2> HIDE DEF m, v
  <2>2. Apart(config, [state EXCEPT ![m] = v])
    <3>1. m \in Modules
      BY <1>2
    <3> QED BY <1>1, <2>1, <3>1, ApartWhenMoved
  <2> QED BY <1>1, <2>2
<1>9. CASE Tail(f.rest) = <<>> /\ Return(t)
  <2>1. f.target = init => state'[m] = init
    BY <1>3, <1>5, <1>9
  <2> QED BY <1>1, <1>7, <1>8, <1>9, <2>1, ReturnGood
<1>10. CASE Tail(f.rest) # <<>> /\ GoOn(t, "request", Tail(f.rest))
  <2> DEFINE x == [f EXCEPT !.at = "request", !.rest = Tail(f.rest)]
  <2>1. /\ x \in Frames /\ x.at = "request" /\ x.mod = m /\ x.target = f.target
        /\ x.caller = f.caller /\ x.rest = Tail(f.rest)
    BY <1>2, <1>3 DEF Frames
  <2>2. f.rest # <<init>> /\ \A k \in Mutual(config, m) : state'[k] = init
    <3>1. \A k \in Mutual(config, m) : k \in Modules /\ k # m
      BY <1>1, <1>2, MutualOf
    <3> QED BY <1>4, <1>5, <1>6, <1>10, <3>1
  <2>3. f.target # init => CallersOK(config, f)
    BY <1>1, TopIsGood
  <2>4. ~Settled(state', stack[t], m)
    BY <1>1, <1>2, <2>2 DEF Settled
  <2>5. TopInv(config, state', stack[t], x)
    <3> HIDE DEF x
    <3> QED BY <2>1, <2>2, <2>3, <2>4 DEF TopInv, CallersOK
  <2> QED BY <1>1, <1>7, <1>8, <1>10, <2>1, <2>5, GoOnGood
<1> QED BY <1>9, <1>10 DEF Request

(* A hook that throws leaves the module between two states; if it was in    *)
(* init and the request was init, no hook ran.                             *)
LEMMA RequestFailsGood ==
  ASSUME TypeOK, NEW t \in Threads, Good(t), Apart(config, state), RequestFails(t)
  PROVE  GoodStack(config, state', stack'[t]) /\ Apart(config, state')
<1> DEFINE f == Top(t)
           m == f.mod
           hooks == Hooks(state[m], Head(f.rest))
<1>1. /\ stack[t] # <<>> /\ f.at = "request" /\ state \in [Modules -> States]
      /\ Throw(t) /\ config \in Configs
  BY DEF RequestFails, At, TypeOK
<1>2. m \in Modules /\ f = stack[t][1] /\ StackOK(stack[t])
  BY <1>1, TopOf
<1>3. PICK k \in DOMAIN hooks : state' = [state EXCEPT ![m] = hooks[k][1]]
  BY DEF RequestFails
<1>4. state[m] # init => \A e \in Mutual(config, m) : state[e] = init
  BY <1>1, <1>2, ApartOf
<1>5. ASSUME state[m] = init
      PROVE  \A e \in Mutual(config, m) : state[e] = init
  <2>1. f.rest # <<init>>
    <3> SUFFICES ASSUME f.rest = <<init>>
                 PROVE  FALSE
      OBVIOUS
    <3>1. hooks = Hooks(init, init)
      BY <1>5
    <3>2. Rung(init) = 1 /\ init # error
      BY RungOf, StatesAreNumbers
    <3>3. hooks = DescentHooks(init, init)
      BY <3>1, <3>2 DEF Hooks
    <3>4. DOMAIN hooks = 1 .. 0
      BY <3>2, <3>3 DEF DescentHooks
    <3> QED BY <1>3, <3>4
  <2> DEFINE s == stack[t]
  <2>2. StackOK(s) /\ s # <<>> /\ f = s[1] /\ GoodStack(config, state, s)
    BY <1>1, <1>2 DEF Good
  <2>3. s[1].at = "request" /\ s[1].rest # <<init>> /\ s[1].mod = m
    BY <1>1, <2>1, <2>2
  <2> HIDE DEF s, m, f
  <2>4. \A e \in Mutual(config, s[1].mod) : state[e] = init
    BY <1>1, <2>2, <2>3, GoodWhenRaised
  <2> QED BY <2>3, <2>4
<1>6. \A e \in Mutual(config, m) : state[e] = init
  BY <1>4, <1>5
<1> HIDE DEF hooks, m
<1>7. Apart(config, [state EXCEPT ![m] = hooks[k][1]])
  BY <1>1, <1>2, <1>6, ApartWhenMoved
<1> QED BY <1>1, <1>3, <1>7, ThrowGood

LEMMA SetStateGood ==
  ASSUME Consistent, TypeOK, NEW t \in Threads, Good(t), Apart(config, state), SetState(t)
  PROVE  GoodStack(config, state', stack'[t]) /\ Apart(config, state')
<1>1. CASE Enter(t) \/ Depends(t) \/ Dependents(t) \/ Excludes(t) \/ Apply(t)
  <2>1. UNCHANGED state
    BY <1>1 DEF Enter, Depends, Dependents, Excludes, Apply
  <2> QED BY <1>1, <2>1, EnterGood, DependsGood, DependentsGood, ExcludesGood, ApplyGood
<1>2. CASE Request(t) \/ RequestFails(t)
  BY <1>2, RequestGood, RequestFailsGood
<1> QED BY <1>1, <1>2 DEF SetState

(* Every other step of the system leaves the modules as they are or brings *)
(* one to init, and leaves the active calls as they are or begins one.     *)
Besides ==
  /\ UNCHANGED state \/ \E m \in Modules : state' = [state EXCEPT ![m] = init]
  /\ UNCHANGED stack \/ \E t \in Threads : \E m, target : Begin(t, m, target)

LEMMA OtherSteps ==
  ASSUME TypeOK, MaySignal = {}, Next
  PROVE  UNCHANGED config /\ (Besides \/ \E t \in Threads : SetState(t))
<1>1. /\ UNCHANGED config
      /\ \/ MainStep \/ Signal \/ Rests
         \/ \E t \in Bridges : BridgeStep(t) \/ Serve(t)
  BY DEF Next, Running, Crash, Terminated, vars, Rests
<1>2. CASE StartPowerUp \/ StartStateCheck \/ Signal
  BY <1>1, <1>2 DEF StartPowerUp, StartStateCheck, LockAndLoop, Signal, Leave, NoCall, Besides
<1>3. CASE PowerUp
  BY <1>1, <1>3, MainIsThread DEF PowerUp, Leave, NoCall, Besides
<1>4. CASE StateCheck
  BY <1>1, <1>4, MainIsThread DEF StateCheck, Leave, NoCall, Besides
<1>5. CASE Shutdown
  BY <1>1, <1>5, MainIsThread DEF Shutdown, NoCall, Besides
<1>6. CASE Erase
  BY <1>1, <1>6 DEF Erase, Besides
<1>7. CASE Rests
  BY <1>7 DEF Rests, threadvars, Besides
<1>8. ASSUME NEW t \in Bridges, Serve(t)
      PROVE  Besides
  BY <1>8, MainIsThread
     DEF Serve, CallSetState, CallRemove, CallAdd, CallReconfigure, NoCall, Besides
<1>9. ASSUME NEW t \in Bridges, BridgeStep(t), ~SetState(t)
      PROVE  Besides
  <2>1. t \in Threads /\ arg[t] \in Modules
    BY MainIsThread DEF TypeOK
  <2>2. CASE EndCall(t) \/ Unconfigure(t)
    BY <2>2 DEF EndCall, Unconfigure, NoCall, Besides
  <2>3. CASE ReconfigureLookup(t)
    BY <2>1, <2>3 DEF ReconfigureLookup, NoCall, Besides
  <2>4. CASE Configure(t)
    BY <2>1, <2>4 DEF Configure, NoCall, Besides
  <2> QED BY <1>9, <2>2, <2>3, <2>4 DEF BridgeStep
<1>10. CASE SetState(Main)
  BY <1>1, <1>10, MainIsThread
<1>11. CASE \E t \in Bridges : BridgeStep(t) \/ Serve(t)
  BY <1>1, <1>8, <1>9, <1>11, MainIsThread
<1> QED BY <1>1, <1>2, <1>3, <1>4, <1>5, <1>6, <1>7, <1>10, <1>11 DEF MainStep

LEMMA BegunIsGood ==
  ASSUME NEW conf, NEW st, NEW m, NEW target
  PROVE  GoodStack(conf, st, <<Frame(m, target, {})>>)
<1> DEFINE x == Frame(m, target, {})
           s == <<x>>
<1>1. x.at = "enter" /\ x.caller = {}
  BY DEF Frame
<1> HIDE DEF x
<1>2. Len(s) = 1 /\ s[1] = x /\ 1 .. 1 - 1 = {} /\ \A i \in 1 .. 1 : i = 1
  OBVIOUS
<1> HIDE DEF s
<1>3. FrameInv(conf, st, s, 1)
  BY <1>1, <1>2 DEF FrameInv, CallersOK
<1> QED BY <1>2, <1>3 DEF GoodStack, s, x

LEMMA InitExcl ==
  ASSUME Init
  PROVE  ExclInv
<1>1. /\ config \in Configs /\ state = [m \in Modules |-> init]
      /\ stack = [t \in Threads |-> <<>>]
  BY DEF Init
<1>2. \A t \in Threads : GoodStack(config, state, stack[t])
  BY <1>1, NothingIsGood
<1>3. Apart(config, state)
  BY <1>1 DEF Apart
<1> QED BY <1>1, <1>2, <1>3 DEF ExclInv

LEMMA NextExcl ==
  ASSUME ~Overlap, MaySignal = {}, Consistent, IInv, ExclInv, [Next]_vars
  PROVE  ExclInv'
<1>1. /\ TypeOK /\ Apart(config, state) /\ config \in Configs
      /\ \A t, u \in Threads : stack[t] # <<>> /\ stack[u] # <<>> => t = u
      /\ \A t \in Threads : GoodStack(config, state, stack[t]) /\ StackOK(stack[t])
      /\ stack \in [Threads -> Seq(Frames)] /\ state \in [Modules -> States]
  BY DEF IInv, TypeOK, ExclInv
<1>2. CASE UNCHANGED vars
  BY <1>1, <1>2 DEF vars, threadvars, ExclInv
<1>3. ASSUME NEW t \in Threads, SetState(t), UNCHANGED config
      PROVE  ExclInv'
  <2>1. /\ stack[t] # <<>> /\ stack' = [stack EXCEPT ![t] = stack'[t]]
    BY <1>1, <1>3, SetStateStep DEF SetStateResult, StackStep
  <2>2. GoodStack(config, state', stack'[t]) /\ Apart(config, state')
    BY <1>1, <1>3, SetStateGood DEF Good
  <2>3. \A u \in Threads : u # t => stack'[u] = <<>>
    BY <1>1, <2>1
  <2>4. \A u \in Threads : GoodStack(config, state', stack'[u])
    BY <2>2, <2>3, NothingIsGood
  <2> QED BY <1>3, <2>2, <2>3, <2>4 DEF ExclInv
<1>4. ASSUME Besides, UNCHANGED config
      PROVE  ExclInv'
  <2>1. Apart(config, state') /\ \A m \in Modules : state'[m] \in {state[m], init}
    <3>1. CASE UNCHANGED state
      BY <1>1, <3>1
    <3>2. CASE \E m \in Modules : state' = [state EXCEPT ![m] = init]
      <4>1. PICK m \in Modules : state' = [state EXCEPT ![m] = init]
        BY <3>2
      <4>2. Apart(config, [state EXCEPT ![m] = init])
        BY <1>1, ApartWhenMoved
      <4> QED BY <1>1, <4>1, <4>2
    <3> QED BY <1>4, <3>1, <3>2 DEF Besides
  <2>2. CASE UNCHANGED stack
    <3>1. \A u \in Threads : GoodStack(config, state', stack[u])
      BY <1>1, <2>1, GoodWhenLowered
    <3> QED BY <1>1, <1>4, <2>1, <2>2, <3>1 DEF ExclInv
  <2>3. CASE \E t \in Threads : \E m, target : Begin(t, m, target)
    <3>0. PICK t \in Threads : \E m, target : Begin(t, m, target)
      BY <2>3
    <3>1. PICK m, target : Begin(t, m, target)
      BY <3>0
    <3> DEFINE s == <<Frame(m, target, {})>>
    <3>2. stack' = [stack EXCEPT ![t] = s] /\ \A u \in Threads : stack[u] = <<>>
      BY <3>1 DEF Begin
    <3>3. GoodStack(config, state', s)
      BY BegunIsGood
    <3> HIDE DEF s
    <3>4. stack'[t] = s /\ \A u \in Threads : u # t => stack'[u] = <<>>
      BY <1>1, <3>2
    <3>5. \A u \in Threads : GoodStack(config, state', stack'[u])
      BY <3>3, <3>4, NothingIsGood
    <3> QED BY <1>4, <2>1, <3>4, <3>5 DEF ExclInv
  <2> QED BY <1>4, <2>2, <2>3 DEF Besides
<1> QED BY <1>1, <1>2, <1>3, <1>4, OtherSteps

(* Two modules that exclude each other are never both above init, in every *)
(* configuration, if set_state calls do not overlap, no module switches    *)
(* itself to error and no module depends on one with which it excludes     *)
(* each other.  Without any one of the three it fails, see README.md.      *)
THEOREM ExclusionHoldsAlways ==
  ~Overlap /\ MaySignal = {} /\ Consistent => (Spec => []ExclusionHolds)
<1> SUFFICES ASSUME ~Overlap, MaySignal = {}, Consistent
             PROVE  Spec => []ExclusionHolds
  OBVIOUS
<1>1. Init => ExclInv
  BY InitExcl
<1>2. IInv /\ ExclInv /\ [Next]_vars => ExclInv'
  BY NextExcl
<1>3. IInv /\ ExclInv => ExclusionHolds
  <2> SUFFICES ASSUME IInv, ExclInv, NEW m \in module_map,
                      NEW e \in Excluded(m) \cap module_map
               PROVE  init \in {state[m], state[e]}
    BY DEF ExclusionHolds
  <2>1. m \in Modules /\ Apart(config, state)
    BY DEF IInv, TypeOK, ExclInv
  <2>2. e \in Mutual(config, m)
    BY DEF Excluded, Mutual, excludes
  <2> QED BY <2>1, <2>2 DEF Apart
<1> QED BY <1>1, <1>2, <1>3, Invariance, PTL DEF Spec

-----------------------------------------------------------------------------
(* Between calls every module is at most as high as what it depends on.    *)

(* The level of a state (see Level), and what a module depends on.         *)
Lv(v) == IF v = boot THEN init ELSE v
Needs(conf, m) == ToSet(conf.depends[m])

(* Each module has at most one that depends on it, no dependency leads back *)
(* to where it started, and no module excludes itself or another one below *)
(* the same module.                                                        *)
Straight ==
  \A conf \in Configs :
    /\ \A m, k \in Modules : Needs(conf, m) \cap Needs(conf, k) # {} => m = k
    /\ \A m \in Modules : m \notin Below(conf, m)
    /\ \A m \in Modules : \A x, y \in Below(conf, m) \cup {m} : y \notin ToSet(conf.excludes[x])

Supported(conf, map, st) ==
  \A m \in map : \A d \in Needs(conf, m) : Lv(st[m]) <= Lv(st[d])

(* What holds of an active call f of which the calls "over" are nested:    *)
(* the module is no higher than what it is asked for,                      *)
Low(st, f) == Lv(st[f.mod]) <= Lv(f.target)
On(over, m, target) == \E g \in over : g.mod = m /\ g.target = target

(* while its dependencies are raised if the call is one of its own callers, *)
(* and at any time if it is to be brought to boot;                         *)
CalledLow(st, f, over) ==
  /\ f.at \in {"enter", "depends"} /\ f.mod \in f.caller => Low(st, f)
  /\ f.target = boot /\ f.at # "enter" => Low(st, f) \/ On(over, f.mod, init)

(* if one of its callers is above it, the one that depends on it is and is *)
(* no higher than what is asked for;                                       *)
CallerLow(conf, st, f) ==
  f.mod \notin f.caller => \A k \in f.caller : f.mod \in Below(conf, k) =>
    \E m \in f.caller : f.mod \in Needs(conf, m) /\ Lv(st[m]) <= Lv(f.target)

(* its dependencies have been raised, or are being, or will be;            *)
NeedsUp(conf, st, f, over) ==
  /\ f.at = "depends" => \A d \in ToSet(f.rest) : Lv(st[f.mod]) <= Lv(st[d])
  /\ f.target \notin {init, boot} /\ f.at # "enter" =>
       \A d \in Needs(conf, f.mod) :
         \/ Lv(st[d]) >= f.target
         \/ f.at = "depends" /\ (d \in ToSet(f.rest) \/ On(over, d, f.target))

(* if it is higher than what it is asked for, those that depend on it have *)
(* been lowered, or are being, or will be;                                 *)
NeededLow(conf, map, st, f, over) ==
  f.at \notin {"enter", "depends"} => Low(st, f) \/
    \A m \in map : f.mod \in Needs(conf, m) =>
      \/ Lv(st[m]) <= Lv(f.target)
      \/ f.at = "dependents" /\ (On(over, m, init) \/ (m \in ToSet(f.rest) /\ f.mod \notin f.caller))

(* and the loop over those it excludes and its requests are what they say. *)
RestOK(conf, st, f) ==
  /\ f.at = "excludes" =>
       \A e \in ToSet(f.rest) : f.target # init /\ e \in ToSet(conf.excludes[f.mod])
  /\ f.at = "request" => f.target # error /\ f.rest = Requests(st[f.mod], f.target)

Local(conf, map, st, f, over) ==
  /\ CalledLow(st, f, over) /\ CallerLow(conf, st, f) /\ NeedsUp(conf, st, f, over)
  /\ NeededLow(conf, map, st, f, over) /\ RestOK(conf, st, f)

(* A call g nested in f, directly or not, raises a module below that of f  *)
(* to the same state, and no higher; or lowers one that f does not need.   *)
Pair(conf, st, f, g) ==
  /\ g.target # init => /\ f.target = g.target /\ g.mod \in Below(conf, f.mod)
                        /\ f.mod \in g.caller
                        /\ g.target # boot => Lv(st[g.mod]) <= g.target
  /\ g.target = init /\ f.target # boot =>
       g.mod \notin Below(conf, f.mod) \/ Lv(st[g.mod]) = init

Over(s, i) == IF i = 1 THEN {} ELSE {s[i - 1]}

UpFrame(conf, map, here, st, s, i) ==
  /\ s[i].at # "enter" => s[i].mod \in here
  /\ Local(conf, map, st, s[i], Over(s, i))
  /\ \A j \in 1 .. i - 1 : Pair(conf, st, s[i], s[j])

UpStack(conf, map, here, st, s) == \A i \in 1 .. Len(s) : UpFrame(conf, map, here, st, s, i)

(* As long as robotkernel runs, a call past its first step is about a module *)
(* that is in the map, and a module out of the map is down.                *)
Here == IF Ending THEN Modules ELSE module_map

UpInv ==
  /\ \A m \in Modules : state[m] # error
  /\ \A t \in Bridges : pc[t] \in {"idle", "set_state", "remove"}
  /\ Supported(config, module_map, state)
  /\ \A m \in Modules \ Here : Lv(state[m]) = init
  /\ \A t \in Threads : UpStack(config, module_map, Here, state, stack[t])

-----------------------------------------------------------------------------
(* Levels, requests and hooks. *)

LEMMA LvOf ==
  /\ \A v \in States : Lv(v) \in Nat /\ Lv(v) >= init /\ Lv(v) <= v
  /\ \A v \in States : v # boot => Lv(v) = v
  /\ Lv(boot) = init /\ Lv(init) = init /\ init \in States /\ init # boot /\ init \in Nat
  /\ \A v \in States : v # error => Lv(v) = Ladder[Rung(v)]
  /\ \A v \in States : v \in Nat
  /\ boot \in States /\ error \in States /\ error # boot /\ error # init
  /\ \A v \in States : v <= error
<1>1. \A v \in States : Lv(v) \in Nat /\ Lv(v) >= init /\ Lv(v) <= v /\ v <= error /\ v \in Nat
  BY StatesAreNumbers DEF Lv
<1>2. \A v \in States : v # boot => Lv(v) = v
  BY DEF Lv
<1>3. /\ Lv(boot) = init /\ Lv(init) = init /\ init \in States /\ init # boot /\ init \in Nat
      /\ boot \in States /\ error \in States /\ error # boot /\ error # init
  BY StatesAreNumbers DEF Lv
<1>4. \A v \in States : v # error => Lv(v) = Ladder[Rung(v)]
  BY StatesAreNumbers, RungOf, LadderOf DEF Lv
<1> QED BY <1>1, <1>2, <1>3, <1>4

(* From one state to another without passing by. *)
Between(a, v, b) ==
  /\ v \in States \ {error}
  /\ Lv(a) <= Lv(b) => Lv(a) <= Lv(v) /\ Lv(v) <= Lv(b)
  /\ Lv(b) <= Lv(a) => Lv(b) <= Lv(v) /\ Lv(v) <= Lv(a)

LEMMA BetweenRungs ==
  ASSUME NEW a \in States \ {error}, NEW v \in States \ {error}, NEW b \in States \ {error},
         Rung(a) <= Rung(b) => Rung(a) <= Rung(v) /\ Rung(v) <= Rung(b),
         Rung(b) <= Rung(a) => Rung(b) <= Rung(v) /\ Rung(v) <= Rung(a)
  PROVE  Between(a, v, b)
BY StatesAreNumbers, RungOf DEF Between, Lv

(* The part from m to n of a sequence: its head, and its tail. *)
PartFrom(q, m, n) ==
  /\ SubSeq(q, m, n) # <<>> /\ Head(SubSeq(q, m, n)) = q[m]
  /\ Tail(SubSeq(q, m, n)) = SubSeq(q, m + 1, n)
  /\ m = n <=> SubSeq(q, m + 1, n) = <<>>

LEMMA PartOf ==
  ASSUME NEW q \in Seq(States), NEW m \in 1 .. Len(q), NEW n \in m .. Len(q)
  PROVE  PartFrom(q, m, n)
<1> DEFINE r == SubSeq(q, m, n)
           p == SubSeq(q, m + 1, n)
<1>1. /\ m \in Int /\ n \in Int /\ \A i \in m .. n : q[i] \in States
      /\ m + 1 \in Int /\ \A i \in m + 1 .. n : q[i] \in States
      /\ m <= n
  OBVIOUS
<1>2. /\ r \in Seq(States) /\ Len(r) = n - m + 1
      /\ \A i \in 1 .. n - m + 1 : r[i] = q[m + i - 1]
  BY <1>1, SubSeqProperties
<1>3. /\ p \in Seq(States) /\ Len(p) = IF m + 1 <= n THEN n - (m + 1) + 1 ELSE 0
      /\ \A i \in 1 .. n - (m + 1) + 1 : p[i] = q[m + 1 + i - 1]
  BY <1>1, SubSeqProperties
<1>4. Len(p) = n - m
  BY <1>1, <1>3
<1> HIDE DEF r, p
<1>5. r # <<>> /\ Head(r) = q[m]
  <2>1. 1 \in 1 .. n - m + 1 /\ m + 1 - 1 = m
    BY <1>1
  <2>2. r[1] = q[m]
    BY <1>2, <2>1
  <2>3. Len(r) # 0
    BY <1>1, <1>2
  <2> QED BY <1>2, <2>2, <2>3
<1>6. Tail(r) = p
  <2> DEFINE z == Tail(r)
  <2>1. z \in Seq(States) /\ Len(z) = n - m /\ \A i \in 1 .. n - m : z[i] = r[i + 1]
    BY <1>1, <1>2, <1>5
  <2> HIDE DEF z
  <2>2. \A i \in 1 .. n - m : z[i] = p[i]
    <3> TAKE i \in 1 .. n - m
    <3>1. /\ i + 1 \in 1 .. n - m + 1 /\ m + (i + 1) - 1 = m + 1 + i - 1
          /\ i \in 1 .. n - (m + 1) + 1
      BY <1>1
    <3> QED BY <1>2, <1>3, <2>1, <3>1
  <2>3. z = p
    BY <1>3, <1>4, <2>1, <2>2, SeqEqual
  <2> QED BY <2>3 DEF z
<1>7. (m = n => p = <<>>) /\ (m # n => p # <<>>)
  BY <1>1, <1>3, <1>4, EmptySeq
<1> QED BY <1>5, <1>6, <1>7 DEF r, p, PartFrom

(* Each request leads on towards the target, and the rest are those of     *)
(* the state it leads to.                                                  *)
LEMMA RequestsHead ==
  ASSUME NEW from \in States \ {error}, NEW to \in States \ {error}, Known(from, to)
  PROVE  LET q == Requests(from, to) IN
         /\ q # <<>> /\ Between(from, Head(q), to)
         /\ Tail(q) = <<>> => Head(q) = to
         /\ Tail(q) # <<>> => Tail(q) = Requests(Head(q), to)
<1> DEFINE q == Requests(from, to)
<1>0. /\ Rung(from) \in 1 .. 4 /\ Rung(to) \in 1 .. 4 /\ Ladder \in Seq(States) /\ Len(Ladder) = 4
      /\ \A i \in 1 .. 4 : Ladder[i] \in States \ {error} /\ Rung(Ladder[i]) = i /\ Ladder[i] # boot
  <2>1. \A i \in 1 .. 4 : i = 1 \/ i = 2 \/ i = 3 \/ i = 4
    OBVIOUS
  <2> QED BY <2>1, RungOf, LadderOf, StatesAreNumbers
<1>1. CASE from = to \/ (from = op /\ to = safeop)
  <2>1. q = <<to>>
    BY <1>1 DEF Requests
  <2>2. Between(from, to, to)
    BY StatesAreNumbers DEF Between, Lv
  <2> QED BY <2>1, <2>2
<1>2. CASE from = boot /\ to # boot
  <2>1. q = <<init>> \o SubSeq(Ladder, 2, Rung(to))
    <3>1. Rung(init) + 1 = 2
      BY RungOf, StatesAreNumbers
    <3>2. ~(from = error \/ from = to \/ (from = op /\ to = safeop))
      BY <1>2, StatesAreNumbers
    <3> QED BY <1>2, <3>1, <3>2 DEF Requests, Climb
  <2>2. to \in {init, preop, safeop, op}
    BY <1>2, StatesAreNumbers
  <2> DEFINE r == SubSeq(Ladder, 2, Rung(to))
  <2>3. r \in Seq(States) /\ (Rung(to) = 1 => r = <<>>) /\ (Rung(to) # 1 => r # <<>>)
    <3>1. /\ 2 \in Int /\ Rung(to) \in Int /\ \A i \in 2 .. Rung(to) : i \in 1 .. 4 /\ Ladder[i] \in States
      BY <1>0
    <3>2. r \in Seq(States) /\ Len(r) = IF 2 <= Rung(to) THEN Rung(to) - 2 + 1 ELSE 0
      BY <1>0, <3>1, SubSeqProperties
    <3> HIDE DEF r
    <3> QED BY <1>0, <3>2, EmptySeq
  <2>4. Head(q) = init /\ Tail(q) = r /\ q # <<>>
    <3> HIDE DEF r
    <3>1. init \in States
      BY StatesAreNumbers
    <3>2. Head(<<init>> \o r) = init /\ Tail(<<init>> \o r) = r /\ <<init>> \o r # <<>>
      BY <2>3, <3>1, HeadTailAppend
    <3> QED BY <2>1, <3>2 DEF r
  <2>5. Between(from, init, to)
    BY <1>2, <2>2, StatesAreNumbers DEF Between, Lv
  <2>6. CASE to = init
    <3>1. Rung(to) = 1
      BY <2>6, RungOf, StatesAreNumbers
    <3> QED BY <2>3, <2>4, <2>5, <2>6, <3>1
  <2>7. CASE to # init
    <3>1. Rung(to) # 1
      BY <2>2, <2>7, RungOf, StatesAreNumbers
    <3>2. Requests(init, to) = r
      BY <2>2, <2>7, RungOf, StatesAreNumbers DEF Requests, Climb
    <3> QED BY <2>3, <2>4, <2>5, <3>1, <3>2
  <2> QED BY <2>6, <2>7
<1>3. CASE ~(from = to \/ (from = op /\ to = safeop)) /\ from # boot /\ from < to /\ to # boot
  <2>1. from \in {init, preop, safeop} /\ to \in {preop, safeop, op}
    BY <1>3, StatesAreNumbers
  <2> DEFINE a == Rung(from) + 1
             b == Rung(to)
             v == Ladder[a]
  <2>2. q = SubSeq(Ladder, a, b)
    BY <1>3 DEF Requests, Climb
  <2>3. /\ a \in 2 .. 4 /\ b \in 2 .. 4 /\ a <= b /\ Ladder[b] = to
    BY <1>3, <2>1, RungOf, LadderOf, StatesAreNumbers
  <2>4. a \in 1 .. Len(Ladder) /\ b \in a .. Len(Ladder)
    BY <1>0, <2>3
  <2>5. /\ q # <<>> /\ Head(q) = v /\ Tail(q) = SubSeq(Ladder, a + 1, b)
        /\ (a = b => Tail(q) = <<>>) /\ (a # b => Tail(q) # <<>>)
    <3> HIDE DEF a, b, q
    <3>1. Ladder \in Seq(States)
      BY <1>0
    <3>2. PartFrom(Ladder, a, b)
      BY <2>4, <3>1, PartOf
    <3> QED BY <2>2, <3>2 DEF PartFrom
  <2>6. v \in States \ {error} /\ Rung(v) = a /\ v # boot
    BY <1>0, <2>3
  <2>7. Between(from, v, to)
    <3>1. Rung(from) <= Rung(v) /\ Rung(v) <= Rung(to) /\ ~(Rung(to) <= Rung(from))
      BY <1>0, <2>3, <2>6
    <3> HIDE DEF v
    <3> QED BY <2>6, <3>1, BetweenRungs
  <2>8. a # b => Requests(v, to) = SubSeq(Ladder, a + 1, b)
    <3> SUFFICES ASSUME a # b PROVE Requests(v, to) = SubSeq(Ladder, a + 1, b)
      OBVIOUS
    <3>1. Rung(v) < Rung(to)
      BY <1>0, <2>3, <2>6
    <3> HIDE DEF a, b
    <3>2. v < to /\ v # to /\ v # op /\ v # error
      <4> HIDE DEF v
      <4> QED BY <2>1, <2>6, <3>1, RungOf, StatesAreNumbers
    <3> HIDE DEF v
    <3>3. Requests(v, to) = Climb(v, to)
      BY <1>3, <2>6, <3>2 DEF Requests
    <3> QED BY <2>6, <3>3 DEF Climb, b
  <2>9. a = b => v = to
    BY <2>3
  <2> QED BY <2>5, <2>7, <2>8, <2>9
<1>4. CASE ~(from = to \/ (from = op /\ to = safeop)) /\ from # boot /\ ~(from < to /\ to # boot)
  <2> DEFINE D == <<preop, init, boot>>
             a == CASE from = init -> 3 [] from = preop -> 2 [] OTHER -> 1
             b == CASE to = preop -> 1 [] to = init -> 2 [] OTHER -> 3
             v == D[a]
  <2>1. q = SubSeq(D, a, b)
    BY <1>4, StatesAreNumbers DEF Requests, Descent
  <2>2. /\ D \in Seq(States) /\ Len(D) = 3 /\ D[1] = preop /\ D[2] = init /\ D[3] = boot
    BY StatesAreNumbers
  <2>3. /\ a \in 1 .. 3 /\ b \in 1 .. 3 /\ a <= b /\ D[b] = to
        /\ from \in {init, preop, safeop, op} /\ to \in {preop, init, boot}
        /\ from = init => a = 3
        /\ from = preop => a = 2
        /\ a = 3 => from = init
        /\ a = 2 => from = preop
    BY <1>4, <2>2, StatesAreNumbers DEF Known
  <2>3a. /\ b = 1 => to = preop
         /\ b = 2 => to = init
         /\ b = 3 => to = boot
    BY <2>2, <2>3
  <2> HIDE DEF D, a, b
  <2>4. a \in 1 .. Len(D) /\ b \in a .. Len(D)
    BY <2>2, <2>3
  <2>5. /\ q # <<>> /\ Head(q) = v /\ Tail(q) = SubSeq(D, a + 1, b)
        /\ (a = b => Tail(q) = <<>>) /\ (a # b => Tail(q) # <<>>)
    <3> HIDE DEF q
    <3>1. PartFrom(D, a, b)
      BY <2>2, <2>4, PartOf
    <3> QED BY <2>1, <3>1 DEF PartFrom
  <2>6. (a = 1 \/ a = 2 \/ a = 3) /\ (b = 1 \/ b = 2 \/ b = 3)
    BY <2>3
  <2>7. v \in {preop, init, boot} /\ (a = 1 => v = preop) /\ (a = 2 => v = init) /\ (a = 3 => v = boot)
    BY <2>2, <2>6
  <2>8. Between(from, v, to)
    <3> HIDE DEF v
    <3>1. CASE a = 1
      BY <2>3, <2>7, <3>1, StatesAreNumbers DEF Between, Lv
    <3>2. CASE a = 2
      BY <2>3, <2>3a, <2>6, <2>7, <3>2, StatesAreNumbers DEF Between, Lv
    <3>3. CASE a = 3
      BY <2>3, <2>3a, <2>6, <2>7, <3>3, StatesAreNumbers DEF Between, Lv
    <3> QED BY <2>6, <3>1, <3>2, <3>3
  <2>9. a # b => Requests(v, to) = SubSeq(D, a + 1, b)
    <3> SUFFICES ASSUME a # b PROVE Requests(v, to) = SubSeq(D, a + 1, b)
      OBVIOUS
    <3> DEFINE z == CASE v = init -> 3 [] v = preop -> 2 [] OTHER -> 1
    <3>1. /\ a + 1 = z /\ v \in {preop, init} /\ to \in {init, boot} /\ v # to
          /\ v = init => to = boot
      <4> HIDE DEF v
      <4> QED BY <2>3, <2>3a, <2>6, <2>7, StatesAreNumbers
    <3> HIDE DEF v
    <3>2. Requests(v, to) = Descent(v, to)
      BY <3>1, StatesAreNumbers DEF Requests
    <3>3. Descent(v, to) = SubSeq(D, z, b)
      BY DEF Descent, D, b
    <3> QED BY <3>1, <3>2, <3>3
  <2>10. a = b => v = to
    BY <2>3
  <2> QED BY <2>5, <2>8, <2>9, <2>10
<1>5. from = boot /\ to = boot => from = to
  OBVIOUS
<1> QED BY <1>1, <1>2, <1>3, <1>4, <1>5

(* A hook that throws leaves the module between the two states. *)
LEMMA HooksBetween ==
  ASSUME NEW from \in States \ {error}, NEW to \in States \ {error},
         NEW k \in DOMAIN Hooks(from, to)
  PROVE  Between(from, Hooks(from, to)[k][1], to)
<1>1. Rung(from) \in 1 .. 4 /\ Rung(to) \in 1 .. 4
  BY RungOf
<1>2. \A i \in 1 .. 4 : Ladder[i] \in States \ {error} /\ Rung(Ladder[i]) = i
  <2>1. \A i \in 1 .. 4 : i = 1 \/ i = 2 \/ i = 3 \/ i = 4
    OBVIOUS
  <2> QED BY <2>1, RungOf, LadderOf, StatesAreNumbers
<1>3. error \notin {from, to}
  OBVIOUS
<1>4. CASE Rung(from) < Rung(to)
  <2> DEFINE v == Hooks(from, to)[k][1]
             i == Rung(from) + k - 1
  <2>1. Hooks(from, to) = ClimbHooks(from, to)
    BY <1>3, <1>4 DEF Hooks
  <2>2. k \in 1 .. Rung(to) - Rung(from)
    BY <2>1, <1>1 DEF ClimbHooks
  <2>3. v = Ladder[i]
    BY <2>1, <2>2 DEF ClimbHooks
  <2>4. i \in 1 .. 4 /\ Rung(from) <= i /\ i <= Rung(to)
    BY <1>1, <2>2
  <2> HIDE DEF v, i
  <2>5. v \in States \ {error} /\ Rung(v) = i
    BY <1>2, <2>3, <2>4
  <2>6. Between(from, v, to)
    BY <1>1, <1>4, <2>4, <2>5, BetweenRungs
  <2> QED BY <2>6 DEF v
<1>5. CASE ~(Rung(from) < Rung(to))
  <2> DEFINE v == Hooks(from, to)[k][1]
             i == Rung(from) - k + 1
  <2>1. Hooks(from, to) = DescentHooks(from, to)
    BY <1>3, <1>5 DEF Hooks
  <2>2. k \in 1 .. Rung(from) - Rung(to)
    BY <2>1, <1>1 DEF DescentHooks
  <2>3. v = Ladder[i]
    BY <2>1, <2>2 DEF DescentHooks
  <2>4. i \in 1 .. 4 /\ i <= Rung(from) /\ Rung(to) <= i /\ Rung(to) < Rung(from)
    BY <1>1, <2>2
  <2> HIDE DEF v, i
  <2>5. v \in States \ {error} /\ Rung(v) = i
    BY <1>2, <2>3, <2>4
  <2>6. Between(from, v, to)
    BY <1>1, <2>4, <2>5, BetweenRungs
  <2> QED BY <2>6 DEF v
<1> QED BY <1>4, <1>5

(* What is between two states on the way to a third is on the way to it.   *)
LEMMA BetweenAgain ==
  ASSUME NEW a \in States \ {error}, NEW b \in States \ {error}, NEW v, NEW w,
         Between(a, v, b), Between(a, w, v)
  PROVE  Between(a, w, b)
BY LvOf DEF Between

(* What a module depends on, in a configuration without cycles in which no *)
(* two modules depend on the same one.                                     *)
LEMMA NeedsOf ==
  ASSUME Straight, NEW conf \in Configs, NEW m \in Modules
  PROVE  /\ Needs(conf, m) \subseteq Modules /\ Needs(conf, m) \subseteq Below(conf, m)
         /\ m \notin Needs(conf, m) /\ m \notin Below(conf, m) /\ Below(conf, m) \subseteq Modules
         /\ \A k \in Modules : Needs(conf, m) \cap Needs(conf, k) # {} => m = k
         /\ \A x, y \in Below(conf, m) \cup {m} : y \notin ToSet(conf.excludes[x])
<1>1. conf.depends[m] \in Seq(Modules \ {m})
  BY ConfigAssumption
<1>2. Needs(conf, m) \subseteq Modules \ {m}
  BY <1>1 DEF Needs, ToSet
<1>3. Needs(conf, m) \subseteq Below(conf, m)
  BY <1>2, BelowOf DEF Needs
<1>4. Below(conf, m) \subseteq Modules
  BY DEF Below
<1>5. /\ m \notin Below(conf, m)
      /\ \A k \in Modules : Needs(conf, m) \cap Needs(conf, k) # {} => m = k
      /\ \A x, y \in Below(conf, m) \cup {m} : y \notin ToSet(conf.excludes[x])
  BY DEF Straight
<1> QED BY <1>2, <1>3, <1>4, <1>5

LEMMA BelowDown ==
  ASSUME NEW conf, NEW k \in Modules, NEW m \in Below(conf, k)
  PROVE  Below(conf, m) \subseteq Below(conf, k)
<1> SUFFICES ASSUME NEW x \in Below(conf, m), NEW D \in SUBSET Modules,
                    ToSet(conf.depends[k]) \subseteq D,
                    \A d \in D : ToSet(conf.depends[d]) \subseteq D
             PROVE  x \in D
  BY DEF Below
<1>1. m \in D
  BY DEF Below
<1> QED BY <1>1 DEF Below

-----------------------------------------------------------------------------
(* The stack when the innermost call goes on, nests another one or returns. *)

(* Of the calls it is nested in only its module and target matter.         *)
LEMMA LocalUnder ==
  ASSUME NEW conf, NEW map, NEW st, NEW f, NEW g, NEW h,
         Local(conf, map, st, f, {g}), Same(g, h)
  PROVE  Local(conf, map, st, f, {h})
<1>1. \A m, target : On({g}, m, target) <=> On({h}, m, target)
  BY DEF On, Same
<1> QED BY <1>1 DEF Local, CalledLow, NeedsUp, NeededLow

LEMMA PairUnder ==
  ASSUME NEW conf, NEW st, NEW f, NEW g, NEW h, Pair(conf, st, f, g), Same(g, h),
         g.caller \subseteq h.caller
  PROVE  Pair(conf, st, f, h)
BY DEF Pair, Same

LEMMA UpWhenReplaced ==
  ASSUME NEW conf, NEW map, NEW here, NEW st, NEW s, StackOK(s), s # <<>>,
         \A i \in 2 .. Len(s) : UpFrame(conf, map, here, st, s, i),
         NEW x \in Frames, Same(s[1], x), s[1].caller \subseteq x.caller, x.mod \in here,
         Local(conf, map, st, x, {})
  PROVE  UpStack(conf, map, here, st, <<x>> \o Tail(s))
<1> DEFINE r == <<x>> \o Tail(s)
           n == Len(s)
<1>1. /\ n \in Nat \ {0} /\ Len(r) = n /\ r[1] = x
      /\ \A i \in 2 .. n : r[i] = s[i]
  BY Indices
<1> HIDE DEF r
<1> SUFFICES ASSUME NEW i \in 1 .. n
             PROVE  UpFrame(conf, map, here, st, r, i)
  BY <1>1 DEF UpStack, r
<1>2. CASE i = 1
  BY <1>1, <1>2 DEF UpFrame, Over
<1>3. CASE i # 1
  <2>1. i \in 2 .. n /\ r[i] = s[i] /\ i - 1 \in 1 .. n
    BY <1>1, <1>3
  <2>2. UpFrame(conf, map, here, st, s, i)
    BY <2>1
  <2>3. /\ Local(conf, map, st, s[i], {s[i - 1]}) /\ (s[i].at # "enter" => s[i].mod \in here)
        /\ \A j \in 1 .. i - 1 : Pair(conf, st, s[i], s[j])
    BY <1>3, <2>2 DEF UpFrame, Over
  <2>4. \A j \in 1 .. i - 1 : j = 1 \/ r[j] = s[j]
    BY <1>1, <2>1
  <2>5. Local(conf, map, st, s[i], {r[i - 1]})
    <3>1. CASE i - 1 = 1
      BY <1>1, <2>3, <3>1, LocalUnder
    <3>2. CASE i - 1 # 1
      <4>1. i - 1 \in 2 .. n
        BY <2>1, <3>2
      <4> QED BY <1>1, <2>3, <4>1
    <3> QED BY <3>1, <3>2
  <2>6. \A j \in 1 .. i - 1 : Pair(conf, st, s[i], r[j])
    <3> TAKE j \in 1 .. i - 1
    <3>1. CASE j = 1
      BY <1>1, <2>3, <3>1, PairUnder
    <3>2. CASE j # 1
      BY <2>3, <2>4, <3>2
    <3> QED BY <3>1, <3>2
  <2> QED BY <1>3, <2>1, <2>3, <2>5, <2>6 DEF UpFrame, Over
<1> QED BY <1>2, <1>3

LEMMA UpWhenNested ==
  ASSUME NEW conf, NEW map, NEW here, NEW st, NEW s, StackOK(s), s # <<>>,
         UpStack(conf, map, here, st, s),
         NEW x \in Frames, Same(s[1], x), s[1].caller \subseteq x.caller, x.mod \in here,
         NEW y \in Frames, y.at = "enter",
         Local(conf, map, st, x, {y}), Local(conf, map, st, y, {}), Pair(conf, st, x, y),
         \A i \in 2 .. Len(s) : Pair(conf, st, s[i], y)
  PROVE  UpStack(conf, map, here, st, <<y, x>> \o Tail(s))
<1> DEFINE r == <<y, x>> \o Tail(s)
           n == Len(s)
<1>1. /\ n \in Nat \ {0} /\ Len(r) = n + 1 /\ r[1] = y /\ r[2] = x
      /\ \A i \in 2 .. n : r[i + 1] = s[i]
  BY NestIndices
<1> HIDE DEF r
<1> SUFFICES ASSUME NEW i \in 1 .. n + 1
             PROVE  UpFrame(conf, map, here, st, r, i)
  BY <1>1 DEF UpStack, r
<1>2. CASE i = 1
  BY <1>1, <1>2 DEF UpFrame, Over
<1>3. CASE i = 2
  <2>1. \A j \in 1 .. 2 - 1 : j = 1
    OBVIOUS
  <2>2. 2 # 1 /\ 2 - 1 = 1
    OBVIOUS
  <2> QED BY <1>1, <1>3, <2>1, <2>2 DEF UpFrame, Over
<1>4. CASE i > 2
  <2> DEFINE k == i - 1
  <2>1. k \in 2 .. n /\ r[i] = s[k] /\ k \in 1 .. n /\ i # 1 /\ k # 1
    <3>1. k \in 2 .. n /\ k + 1 = i
      BY <1>1, <1>4
    <3> QED BY <1>1, <1>4, <3>1
  <2>2. UpFrame(conf, map, here, st, s, k)
    BY <2>1 DEF UpStack
  <2>3. /\ Local(conf, map, st, s[k], {s[k - 1]}) /\ (s[k].at # "enter" => s[k].mod \in here)
        /\ \A j \in 1 .. k - 1 : Pair(conf, st, s[k], s[j])
    BY <2>1, <2>2 DEF UpFrame, Over
  <2>4. \A j \in 1 .. i - 1 : j = 1 \/ j = 2 \/ (j - 1 \in 2 .. k - 1 /\ r[j] = s[j - 1])
    <3> SUFFICES ASSUME NEW j \in 1 .. i - 1, j # 1, j # 2
                 PROVE  j - 1 \in 2 .. k - 1 /\ r[j] = s[j - 1]
      OBVIOUS
    <3>1. j - 1 \in 2 .. k - 1 /\ j - 1 \in 2 .. n /\ j - 1 + 1 = j
      BY <1>1, <2>1
    <3> QED BY <1>1, <3>1
  <2>5. Local(conf, map, st, s[k], {r[i - 1]})
    <3>1. CASE i = 3
      <4>1. k = 2 /\ k - 1 = 1 /\ i - 1 = 2
        BY <3>1
      <4>2. Local(conf, map, st, s[k], {s[1]}) /\ r[i - 1] = x
        BY <1>1, <2>3, <4>1
      <4> QED BY <4>2, LocalUnder
    <3>2. CASE i # 3
      <4>1. i - 1 \in 1 .. i - 1 /\ i - 1 # 1 /\ i - 1 # 2 /\ (i - 1) - 1 = k - 1
        BY <1>4, <3>2
      <4>2. r[i - 1] = s[k - 1]
        BY <2>4, <4>1
      <4> QED BY <2>3, <4>2
    <3> QED BY <3>1, <3>2
  <2>6. \A j \in 1 .. i - 1 : Pair(conf, st, s[k], r[j])
    <3> TAKE j \in 1 .. i - 1
    <3>1. CASE j = 1
      BY <1>1, <2>1, <3>1
    <3>2. CASE j = 2
      <4>1. 1 \in 1 .. k - 1
        BY <2>1
      <4>2. Pair(conf, st, s[k], s[1])
        BY <2>3, <4>1
      <4> QED BY <1>1, <3>2, <4>2, PairUnder
    <3>3. CASE j # 1 /\ j # 2
      <4>1. j - 1 \in 1 .. k - 1 /\ r[j] = s[j - 1]
        BY <2>4, <3>3
      <4> QED BY <2>3, <4>1
    <3> QED BY <3>1, <3>2, <3>3
  <2> QED BY <2>1, <2>3, <2>5, <2>6 DEF UpFrame, Over
<1>5. i = 1 \/ i = 2 \/ i > 2
  BY <1>1
<1> QED BY <1>2, <1>3, <1>4, <1>5

(* A nested call that returns has brought its module to its target. *)
LEMMA LocalAlone ==
  ASSUME NEW conf, NEW map, NEW st, NEW f \in Frames, NEW g \in Frames,
         Local(conf, map, st, f, {g}), st[g.mod] = g.target
  PROVE  Local(conf, map, st, f, {})
<1>1. f.target \in States /\ g.target \in States
  BY DEF Frames
<1>2. On({g}, f.mod, init) => Low(st, f)
  BY <1>1, LvOf DEF On, Low
<1>3. f.target \notin {init, boot} => \A d : On({g}, d, f.target) => Lv(st[d]) >= f.target
  <2> SUFFICES ASSUME f.target \notin {init, boot}, NEW d, On({g}, d, f.target)
               PROVE  Lv(st[d]) >= f.target
    OBVIOUS
  <2>1. st[d] = f.target
    BY DEF On
  <2>2. Lv(st[d]) = f.target /\ f.target \in Nat
    BY <1>1, <2>1, LvOf
  <2> QED BY <2>2
<1>4. \A m : On({g}, m, init) => Lv(st[m]) <= Lv(f.target)
  BY <1>1, LvOf DEF On
<1>5. CalledLow(st, f, {})
  BY <1>2 DEF Local, CalledLow
<1>6. NeedsUp(conf, st, f, {})
  BY <1>3 DEF Local, NeedsUp
<1>7. NeededLow(conf, map, st, f, {})
  BY <1>4 DEF Local, NeededLow
<1> QED BY <1>5, <1>6, <1>7 DEF Local

LEMMA UpWhenReturned ==
  ASSUME NEW conf, NEW map, NEW here, NEW st, NEW s, StackOK(s), s # <<>>,
         \A i \in 2 .. Len(s) : UpFrame(conf, map, here, st, s, i),
         st[s[1].mod] = s[1].target
  PROVE  UpStack(conf, map, here, st, Tail(s))
<1> DEFINE r == Tail(s)
           n == Len(s)
<1>1. /\ n \in Nat \ {0} /\ Len(r) = n - 1 /\ \A i \in 1 .. n - 1 : r[i] = s[i + 1]
      /\ \A i \in 1 .. n : s[i] \in Frames
  BY DEF StackOK
<1> HIDE DEF r
<1> SUFFICES ASSUME NEW i \in 1 .. n - 1
             PROVE  UpFrame(conf, map, here, st, r, i)
  BY <1>1 DEF UpStack, r
<1> DEFINE k == i + 1
<1>2. k \in 2 .. n /\ k # 1 /\ k - 1 = i /\ r[i] = s[k] /\ i \in 1 .. n /\ k \in 1 .. n
  BY <1>1
<1>3. UpFrame(conf, map, here, st, s, k)
  BY <1>2
<1> HIDE DEF k
<1>4. /\ Local(conf, map, st, s[k], {s[i]}) /\ (s[k].at # "enter" => s[k].mod \in here)
      /\ \A j \in 1 .. i : Pair(conf, st, s[k], s[j])
  BY <1>2, <1>3 DEF UpFrame, Over
<1>5. Local(conf, map, st, r[i], Over(r, i))
  <2>1. CASE i = 1
    BY <1>1, <1>2, <1>4, <2>1, LocalAlone DEF Over
  <2>2. CASE i # 1
    <3>1. i - 1 \in 1 .. n - 1 /\ i - 1 + 1 = i
      BY <2>2
    <3>2. r[i - 1] = s[i]
      BY <1>1, <3>1
    <3> QED BY <1>2, <1>4, <2>2, <3>2 DEF Over
  <2> QED BY <2>1, <2>2
<1>6. \A j \in 1 .. i - 1 : Pair(conf, st, r[i], r[j])
  <2> TAKE j \in 1 .. i - 1
  <2>1. j \in 1 .. n - 1 /\ j + 1 \in 1 .. i
    BY <1>1
  <2> QED BY <1>1, <1>2, <1>4, <2>1
<1> QED BY <1>2, <1>4, <1>5, <1>6 DEF UpFrame

-----------------------------------------------------------------------------
(* The steps of set_state keep what the active calls rely on. *)

Up(t) == UpStack(config, module_map, Here, state, stack[t])
UpNow(t) == UpStack(config, module_map, Here, state, stack'[t])

(* All that is known of the innermost call. *)
LEMMA TopIsUp ==
  ASSUME TypeOK, NEW t \in Threads, stack[t] # <<>>, Up(t)
  PROVE  /\ config \in Configs /\ Top(t) = stack[t][1] /\ StackOK(stack[t])
         /\ Local(config, module_map, state, Top(t), {})
         /\ Top(t).at # "enter" => Top(t).mod \in Here
         /\ \A i \in 2 .. Len(stack[t]) :
              /\ UpFrame(config, module_map, Here, state, stack[t], i)
              /\ Pair(config, state, stack[t][i], Top(t))
              /\ stack[t][i] \in Frames /\ stack[t][i].mod \in Modules
<1>1. StackOK(stack[t]) /\ Top(t) = stack[t][1] /\ 1 \in 1 .. Len(stack[t])
  BY TopOf, Popped
<1>2. UpFrame(config, module_map, Here, state, stack[t], 1)
  BY <1>1 DEF Up, UpStack
<1>3. ASSUME NEW i \in 2 .. Len(stack[t])
      PROVE  /\ UpFrame(config, module_map, Here, state, stack[t], i)
             /\ Pair(config, state, stack[t][i], Top(t))
             /\ stack[t][i] \in Frames /\ stack[t][i].mod \in Modules
  <2>1. i \in 1 .. Len(stack[t]) /\ 1 \in 1 .. i - 1
    OBVIOUS
  <2>2. UpFrame(config, module_map, Here, state, stack[t], i)
    BY <2>1 DEF Up, UpStack
  <2>3. stack[t][i] \in Frames
    BY <1>1, <2>1 DEF StackOK, FrameOK
  <2>4. stack[t][i].mod \in Modules
    BY <2>3 DEF Frames
  <2>5. Pair(config, state, stack[t][i], stack[t][1])
    BY <2>1, <2>2 DEF UpFrame
  <2> QED BY <1>1, <2>2, <2>3, <2>4, <2>5
<1>4. config \in Configs
  BY DEF TypeOK
<1> QED BY <1>1, <1>2, <1>3, <1>4 DEF UpFrame, Over

LEMMA HereOf ==
  ASSUME TypeOK
  PROVE  module_map \subseteq Here /\ Here \subseteq Modules
BY DEF Here, TypeOK

LEMMA GoOnUp ==
  ASSUME TypeOK, NEW t \in Threads, stack[t] # <<>>, Up(t),
         NEW at, NEW rest, GoOn(t, at, rest), Top(t).mod \in Here,
         [Top(t) EXCEPT !.at = at, !.rest = rest] \in Frames,
         Local(config, module_map, state, [Top(t) EXCEPT !.at = at, !.rest = rest], {})
  PROVE  UpNow(t)
<1> DEFINE x == [Top(t) EXCEPT !.at = at, !.rest = rest]
           s == <<x>> \o Tail(stack[t])
<1>1. /\ StackOK(stack[t]) /\ Top(t) = stack[t][1] /\ Top(t) \in Frames
      /\ \A i \in 2 .. Len(stack[t]) : UpFrame(config, module_map, Here, state, stack[t], i)
  BY TopOf, TopIsUp
<1>2. Same(stack[t][1], x) /\ stack[t][1].caller \subseteq x.caller /\ x.mod \in Here
  BY <1>1 DEF Same, Frames
<1>3. SetStack(t, s)
  BY DEF GoOn
<1>4. x \in Frames /\ Local(config, module_map, state, x, {})
  OBVIOUS
<1> HIDE DEF x
<1>5. UpStack(config, module_map, Here, state, s)
  BY <1>1, <1>2, <1>4, UpWhenReplaced
<1> HIDE DEF s
<1>6. stack'[t] = s
  BY <1>3, SetStackStep
<1> QED BY <1>5, <1>6 DEF UpNow

LEMMA NestUp ==
  ASSUME TypeOK, NEW t \in Threads, stack[t] # <<>>, Up(t),
         NEW x \in Frames, Same(Top(t), x), Top(t).caller \subseteq x.caller, x.mod \in Here,
         NEW y \in Frames, y.at = "enter",
         Local(config, module_map, state, x, {y}), Local(config, module_map, state, y, {}),
         Pair(config, state, x, y),
         \A i \in 2 .. Len(stack[t]) : Pair(config, state, stack[t][i], y),
         SetStack(t, <<y, x>> \o Tail(stack[t]))
  PROVE  UpNow(t)
<1> DEFINE s == <<y, x>> \o Tail(stack[t])
<1>1. StackOK(stack[t]) /\ Top(t) = stack[t][1]
  BY TopOf
<1>2. UpStack(config, module_map, Here, state, s)
  BY <1>1, UpWhenNested DEF Up
<1>3. SetStack(t, s)
  OBVIOUS
<1> HIDE DEF s
<1>4. stack'[t] = s
  BY <1>3, SetStackStep
<1> QED BY <1>2, <1>4 DEF UpNow

LEMMA ReturnUp ==
  ASSUME TypeOK, NEW t \in Threads, stack[t] # <<>>, Up(t), Return(t),
         state[Top(t).mod] = Top(t).target
  PROVE  UpNow(t)
<1> DEFINE s == Tail(stack[t])
<1>1. /\ StackOK(stack[t]) /\ Top(t) = stack[t][1]
      /\ \A i \in 2 .. Len(stack[t]) : UpFrame(config, module_map, Here, state, stack[t], i)
  BY TopIsUp
<1>2. UpStack(config, module_map, Here, state, s)
  BY <1>1, UpWhenReturned
<1>3. SetStack(t, s)
  BY DEF Return
<1> HIDE DEF s
<1>4. stack'[t] = s
  BY <1>3, SetStackStep
<1> QED BY <1>2, <1>4 DEF UpNow

LEMMA NothingIsUp ==
  ASSUME NEW conf, NEW map, NEW here, NEW st
  PROVE  UpStack(conf, map, here, st, <<>>)
BY DEF UpStack

LEMMA ThrowUp ==
  ASSUME TypeOK, NEW t \in Threads, Throw(t)
  PROVE  UpNow(t) /\ stack'[t] = <<>>
<1>1. stack'[t] = <<>>
  BY DEF Throw, TypeOK
<1> QED BY <1>1, NothingIsUp DEF UpNow

(* A nested call that has not begun. *)
LEMMA FrameOf ==
  ASSUME NEW m \in Modules, NEW target \in States, NEW caller \in SUBSET Modules
  PROVE  LET y == Frame(m, target, caller) IN
         /\ y \in Frames /\ y.mod = m /\ y.target = target /\ y.caller = caller
         /\ y.at = "enter" /\ y.rest = <<>>
<1>1. <<>> \in Seq(Modules)
  OBVIOUS
<1> QED BY <1>1 DEF Frame, Frames

LEMMA BegunLocal ==
  ASSUME NEW conf, NEW map, NEW st, NEW y, y.at = "enter",
         y.mod \in y.caller => Low(st, y),
         y.mod \notin y.caller => \A k \in y.caller : y.mod \in Below(conf, k) =>
           \E m \in y.caller : y.mod \in Needs(conf, m) /\ Lv(st[m]) <= Lv(y.target)
  PROVE  Local(conf, map, st, y, {})
BY DEF Local, CalledLow, CallerLow, NeedsUp, NeededLow, RestOK

LEMMA EnterUp ==
  ASSUME TypeOK, Supported(config, module_map, state), NEW t \in Threads, Up(t), Enter(t)
  PROVE  UpNow(t)
<1> DEFINE f == Top(t)
           begun == [f EXCEPT !.at = "depends", !.rest = depends[f.mod]]
<1>1. /\ stack[t] # <<>> /\ f.at = "enter" /\ UNCHANGED state
  BY DEF Enter, At
<1>2. /\ f \in Frames /\ f.mod \in Modules /\ f.target \in States /\ StackOK(stack[t])
      /\ Local(config, module_map, state, f, {})
  BY <1>1, TopOf, TopIsUp
<1>3. /\ begun \in Frames /\ Same(f, begun) /\ begun.at = "depends"
      /\ begun.rest = depends[f.mod] /\ begun.mod = f.mod /\ begun.target = f.target
      /\ begun.caller = f.caller
  <2>1. depends[f.mod] \in Seq(Modules)
    BY <1>2, ConfigOf
  <2> QED BY <1>2, <2>1 DEF Frames, Loops, Same
<1>4. ASSUME f.mod \in module_map, NEW over, f.target = boot => On(over, f.mod, init)
      PROVE  Local(config, module_map, state, begun, over)
  <2> HIDE DEF begun
  <2>1. ToSet(begun.rest) = Needs(config, f.mod)
    BY <1>3 DEF Needs, depends
  <2>2. \A d \in Needs(config, f.mod) : Lv(state[f.mod]) <= Lv(state[d])
    BY <1>4 DEF Supported
  <2>3. Low(state, begun) <=> Low(state, f)
    BY <1>3 DEF Low
  <2>4. CalledLow(state, begun, over)
    BY <1>1, <1>2, <1>3, <1>4, <2>3 DEF Local, CalledLow
  <2>5. CallerLow(config, state, begun)
    BY <1>2, <1>3 DEF Local, CallerLow
  <2>6. NeedsUp(config, state, begun, over)
    BY <1>3, <2>1, <2>2 DEF NeedsUp
  <2>7. NeededLow(config, module_map, state, begun, over) /\ RestOK(config, state, begun)
    BY <1>3 DEF NeededLow, RestOK
  <2> QED BY <2>4, <2>5, <2>6, <2>7 DEF Local
<1>5. \/ Throw(t)
      \/ Return(t) /\ state[f.mod] = f.target
      \/ /\ f.mod \in module_map /\ f.target = boot
         /\ SetStack(t, <<Frame(f.mod, init, {})>> \o <<begun>> \o Tail(stack[t]))
      \/ /\ f.mod \in module_map /\ f.target # boot
         /\ SetStack(t, <<>> \o <<begun>> \o Tail(stack[t]))
  BY DEF Enter, Readable
<1>6. CASE /\ f.mod \in module_map /\ f.target = boot
           /\ SetStack(t, <<Frame(f.mod, init, {})>> \o <<begun>> \o Tail(stack[t]))
  <2> DEFINE y == Frame(f.mod, init, {})
  <2>1. /\ y \in Frames /\ y.mod = f.mod /\ y.target = init /\ y.caller = {} /\ y.at = "enter"
    BY <1>2, LvOf, FrameOf
  <2>2. SetStack(t, <<y, begun>> \o Tail(stack[t]))
    <3>1. <<y>> \o <<begun>> = <<y, begun>>
      <4> HIDE DEF y, begun
      <4> QED BY <1>3, <2>1, PairOf
    <3>2. SetStack(t, <<y>> \o <<begun>> \o Tail(stack[t]))
      BY <1>6
    <3> HIDE DEF y, begun
    <3> QED BY <3>1, <3>2
  <2>3. Local(config, module_map, state, begun, {y})
    <3>1. On({y}, f.mod, init)
      BY <2>1 DEF On
    <3> HIDE DEF y, begun
    <3> QED BY <1>4, <1>6, <3>1
  <2> HIDE DEF y
  <2>4. Local(config, module_map, state, y, {})
    BY <2>1, BegunLocal
  <2>5. Pair(config, state, begun, y)
    <3> HIDE DEF begun
    <3> QED BY <1>3, <1>6, <2>1 DEF Pair
  <2>6. \A i \in 2 .. Len(stack[t]) : Pair(config, state, stack[t][i], y)
    <3> TAKE i \in 2 .. Len(stack[t])
    <3>1. Pair(config, state, stack[t][i], f)
      BY <1>1, TopIsUp
    <3> HIDE DEF f
    <3> QED BY <1>6, <2>1, <3>1, LvOf DEF Pair
  <2>7. f.mod \in Here /\ f.caller \subseteq begun.caller
    BY <1>3, <1>6, HereOf
  <2> HIDE DEF begun, f
  <2> QED BY <1>1, <1>3, <2>1, <2>2, <2>3, <2>4, <2>5, <2>6, <2>7, NestUp DEF f
<1>7. CASE /\ f.mod \in module_map /\ f.target # boot
           /\ SetStack(t, <<>> \o <<begun>> \o Tail(stack[t]))
  <2>1. <<>> \o <<begun>> = <<begun>>
    BY ConcatEmptySeq
  <2>2. GoOn(t, "depends", depends[f.mod])
    BY <1>7, <2>1 DEF GoOn
  <2>3. Local(config, module_map, state, begun, {})
    <3> HIDE DEF begun
    <3> QED BY <1>4, <1>7
  <2>4. f.mod \in Here
    BY <1>7, HereOf
  <2> QED BY <1>1, <1>3, <2>2, <2>3, <2>4, GoOnUp
<1>8. CASE Return(t) /\ state[f.mod] = f.target
  BY <1>1, <1>8, ReturnUp
<1> QED BY <1>5, <1>6, <1>7, <1>8, ThrowUp

(* The innermost call, between two steps of its loops. *)
LEMMA LoopUp ==
  ASSUME TypeOK, NEW t \in Threads, Up(t), NEW at \in Loops, At(t, at)
  PROVE  LET f == Top(t) IN
         /\ stack[t] # <<>> /\ f.at = at /\ f \in Frames /\ FrameOK(f) /\ f.rest \in Seq(Modules)
         /\ f.mod \in Modules /\ f.target \in States /\ f.caller \in SUBSET Modules
         /\ Local(config, module_map, state, f, {}) /\ f.mod \in Here /\ config \in Configs
         /\ f.rest # <<>> => /\ Head(f.rest) \in Modules /\ Tail(f.rest) \in Seq(Modules)
                             /\ Head(f.rest) \in ToSet(f.rest)
                             /\ ToSet(Tail(f.rest)) \subseteq ToSet(f.rest)
                             /\ \A x \in ToSet(f.rest) : x = Head(f.rest) \/ x \in ToSet(Tail(f.rest))
<1>1. /\ stack[t] # <<>> /\ Top(t).at = at /\ Top(t).rest \in Seq(Modules)
      /\ Top(t).rest # <<>> =>
           Head(Top(t).rest) \in Modules /\ Tail(Top(t).rest) \in Seq(Modules)
  BY RestOf
<1>2. at # "enter"
  BY DEF Loops
<1> QED BY <1>1, <1>2, TopOf, TopIsUp, ToSetOf

(* The loop over the modules this one depends on goes on with x. *)
LEMMA DependsOn ==
  ASSUME NEW conf, NEW map, NEW st, NEW f, NEW x, NEW over, NEW d,
         Local(conf, map, st, f, {}), f.at = "depends", x.at = "depends",
         x.mod = f.mod, x.target = f.target,
         x.caller = f.caller \/ (f.mod \in x.caller /\ Low(st, f)),
         \A k \in ToSet(f.rest) : k = d \/ k \in ToSet(x.rest),
         ToSet(x.rest) \subseteq ToSet(f.rest),
         f.target \notin {init, boot} => Lv(st[d]) >= f.target \/ On(over, d, f.target)
  PROVE  Local(conf, map, st, x, over)
<1>1. Low(st, x) <=> Low(st, f)
  BY DEF Low
<1>2. CalledLow(st, x, over)
  <2>1. f.target = boot => Low(st, f)
    BY DEF Local, CalledLow, On
  <2> QED BY <1>1, <2>1 DEF Local, CalledLow
<1>3. CallerLow(conf, st, x)
  BY DEF Local, CallerLow
<1>4. NeedsUp(conf, st, x, over)
  BY DEF Local, NeedsUp, On
<1>5. NeededLow(conf, map, st, x, over) /\ RestOK(conf, st, x)
  BY DEF NeededLow, RestOK
<1> QED BY <1>2, <1>3, <1>4, <1>5 DEF Local

LEMMA DependsUp ==
  ASSUME Straight, TypeOK, Supported(config, module_map, state),
         \A m \in Modules : state[m] # error,
         NEW t \in Threads, Up(t), Good(t), Depends(t)
  PROVE  UpNow(t)
<1> DEFINE f == Top(t)
           d == Head(f.rest)
           caller == f.caller \cup {f.mod}
           later == [f EXCEPT !.rest = Tail(f.rest), !.caller = caller]
<1>1. /\ At(t, "depends") /\ UNCHANGED state /\ "depends" \in Loops
      /\ state \in [Modules -> States]
  BY DEF Depends, Loops, TypeOK
<1>2. /\ stack[t] # <<>> /\ f.at = "depends" /\ f \in Frames /\ FrameOK(f) /\ f.rest \in Seq(Modules)
      /\ f.mod \in Modules /\ f.target \in States /\ f.caller \in SUBSET Modules
      /\ Local(config, module_map, state, f, {}) /\ f.mod \in Here /\ config \in Configs
      /\ f.rest # <<>> => /\ d \in Modules /\ Tail(f.rest) \in Seq(Modules) /\ d \in ToSet(f.rest)
                          /\ ToSet(Tail(f.rest)) \subseteq ToSet(f.rest)
                          /\ \A x \in ToSet(f.rest) : x = d \/ x \in ToSet(Tail(f.rest))
  BY <1>1, LoopUp
<1>3. /\ f.target # init => CallersOK(config, f)
      /\ ToSet(f.rest) \subseteq Needs(config, f.mod)
  BY <1>2, TopIsGood DEF FrameInv, Needs
<1>4. /\ f.mod \notin Needs(config, f.mod) /\ f.mod \notin Below(config, f.mod)
      /\ Needs(config, f.mod) \subseteq Below(config, f.mod)
  BY <1>2, NeedsOf
<1>5. CASE f.rest = <<>> /\ GoOn(t, "dependents", Order)
  <2> DEFINE x == [f EXCEPT !.at = "dependents", !.rest = Order]
  <2>1. /\ x \in Frames /\ x.at = "dependents" /\ x.rest = Order /\ x.mod = f.mod
        /\ x.target = f.target /\ x.caller = f.caller
    BY <1>2, OrderIsSeq DEF Frames, Loops
  <2>2. ToSet(f.rest) = {}
    BY <1>2, <1>5, ToSetOf
  <2>3. Local(config, module_map, state, x, {})
    <3> HIDE DEF x
    <3> DEFINE L == Low(state, f)
    <3>1. Low(state, x) <=> L
      BY <2>1 DEF Low
    <3>2. /\ f.mod \in f.caller => L
          /\ f.target = boot => L
      BY <1>2 DEF Local, CalledLow, On
    <3> HIDE DEF L
    <3>3. CalledLow(state, x, {})
      BY <2>1, <3>1, <3>2 DEF CalledLow
    <3>4. CallerLow(config, state, x)
      BY <1>2, <2>1 DEF Local, CallerLow
    <3>5. NeedsUp(config, state, x, {})
      BY <1>2, <2>1, <2>2 DEF Local, NeedsUp, On
    <3>6. NeededLow(config, module_map, state, x, {})
      <4>1. module_map \subseteq ToSet(Order)
        BY DEF TypeOK, Modules
      <4> QED BY <2>1, <3>1, <3>2, <4>1 DEF NeededLow
    <3>7. RestOK(config, state, x)
      BY <2>1 DEF RestOK
    <3> QED BY <3>3, <3>4, <3>5, <3>6, <3>7 DEF Local
  <2> QED BY <1>1, <1>2, <1>5, <2>1, <2>3, GoOnUp
<1>6. ASSUME f.rest # <<>>, GoOn(t, "depends", Tail(f.rest)),
             f.target \notin {init, boot} => Lv(state[d]) >= f.target
      PROVE  UpNow(t)
  <2> DEFINE x == [f EXCEPT !.at = "depends", !.rest = Tail(f.rest)]
  <2>1. /\ x \in Frames /\ x.at = "depends" /\ x.mod = f.mod /\ x.target = f.target
        /\ x.caller = f.caller /\ x.rest = Tail(f.rest)
    BY <1>2, <1>6 DEF Frames, Loops
  <2>2. Local(config, module_map, state, x, {})
    <3> HIDE DEF x, d, f
    <3> QED BY <1>2, <1>6, <2>1, DependsOn
  <2> QED BY <1>1, <1>2, <1>6, <2>1, <2>2, GoOnUp
<1>7. CASE f.rest # <<>> /\ d \in f.caller /\ GoOn(t, "depends", Tail(f.rest))
  <2>1. f.target # init => FALSE
    <3> SUFFICES ASSUME f.target # init PROVE FALSE
      OBVIOUS
    <3>1. d \in Needs(config, f.mod) /\ d \in Below(config, f.mod) /\ d # f.mod
      BY <1>2, <1>3, <1>4, <1>7
    <3>2. f.mod \in Below(config, d)
      BY <1>3, <1>7, <3>1 DEF CallersOK
    <3>3. d \in Below(config, d) /\ d \in Modules
      BY <1>2, <1>7, <3>1, <3>2, BelowDown
    <3> QED BY <1>2, <3>3, NeedsOf
  <2> QED BY <1>6, <1>7, <2>1
<1>8. CASE f.rest # <<>> /\ state[d] >= f.target /\ state[d] # boot /\ GoOn(t, "depends", Tail(f.rest))
  <2>1. state[d] \in States
    BY <1>1, <1>2, <1>8
  <2>2. Lv(state[d]) = state[d]
    BY <1>8, <2>1, LvOf
  <2> QED BY <1>6, <1>8, <2>2
<1>9. CASE /\ f.rest # <<>> /\ d \notin f.caller /\ (state[d] < f.target \/ state[d] = boot)
           /\ Nest(t, Tail(f.rest), d, f.target)
  <2> DEFINE y == Frame(d, f.target, caller)
  <2>1. SetStack(t, <<y, later>> \o Tail(stack[t]))
    BY <1>9 DEF Nest
  <2>2. /\ d \in Modules /\ caller \in SUBSET Modules /\ Tail(f.rest) \in Seq(Modules)
    BY <1>2, <1>9
  <2>3. /\ later \in Frames /\ later.at = f.at /\ later.rest = Tail(f.rest) /\ Same(f, later)
        /\ later.mod = f.mod /\ later.target = f.target /\ later.caller = caller
    BY <1>2, <2>2 DEF Frames, Same
  <2>4. y \in Frames /\ y.mod = d /\ y.target = f.target /\ y.caller = caller /\ y.at = "enter"
    BY <1>2, <2>2, FrameOf
  <2>5. /\ d \in Needs(config, f.mod) /\ d \in Below(config, f.mod) /\ d # f.mod
    BY <1>2, <1>3, <1>4, <1>9
  <2> HIDE DEF y, later
  <2>6. /\ f.target \notin {init, boot} => Lv(state[d]) <= f.target
        /\ f.target = init => Lv(state[d]) = init
        /\ Lv(state[f.mod]) <= Lv(state[d])
        /\ Low(state, f)
    <3> DEFINE u == state[d]
               T == f.target
               w == state[f.mod]
    <3>1. u \in States /\ T \in States /\ w \in States /\ (u < T \/ u = boot)
      BY <1>1, <1>2, <1>9, <2>2
    <3>2. Lv(w) <= Lv(u)
      BY <1>2, <1>9 DEF Local, NeedsUp
    <3>3. T = boot => Lv(w) <= Lv(T)
      BY <1>2 DEF Local, CalledLow, On, Low
    <3> HIDE DEF u, T, w
    <3>5. T # boot => Lv(u) <= Lv(T)
      BY <3>1, StatesAreNumbers DEF Lv
    <3>6. T = init => Lv(u) = init
      BY <3>1, StatesAreNumbers DEF Lv
    <3>7. T \notin {init, boot} => Lv(u) <= T
      BY <3>1, StatesAreNumbers DEF Lv
    <3>8. Lv(w) <= Lv(T)
      BY <3>1, <3>2, <3>3, <3>5, LvOf
    <3> QED BY <3>2, <3>6, <3>7, <3>8 DEF u, T, w, Low
  <2>7. Local(config, module_map, state, later, {y})
    <3>1. On({y}, d, f.target)
      BY <2>4 DEF On
    <3> HIDE DEF d, f, caller
    <3>2. f.mod \in later.caller
      BY <2>3 DEF caller
    <3> QED BY <1>2, <1>9, <2>3, <2>6, <3>1, <3>2, DependsOn
  <2>8. Local(config, module_map, state, y, {})
    <3>1. y.mod \notin y.caller
      BY <1>9, <2>4, <2>5
    <3>2. f.mod \in y.caller /\ y.mod \in Needs(config, f.mod) /\ Lv(state[f.mod]) <= Lv(y.target)
      BY <2>4, <2>5, <2>6 DEF Low
    <3> QED BY <2>4, <3>1, <3>2, BegunLocal
  <2>9. Pair(config, state, later, y)
    <3> HIDE DEF d, f
    <3> QED BY <2>3, <2>4, <2>5, <2>6 DEF Pair
  <2>10. \A i \in 2 .. Len(stack[t]) : Pair(config, state, stack[t][i], y)
    <3> TAKE i \in 2 .. Len(stack[t])
    <3> DEFINE g == stack[t][i]
    <3>1. Pair(config, state, g, f) /\ g.mod \in Modules
      BY <1>2, TopIsUp
    <3>2. f.mod \in Below(config, g.mod) => d \in Below(config, g.mod)
      BY <2>5, <3>1, BelowDown
    <3> HIDE DEF g, d, f
    <3>3. Pair(config, state, g, y)
      BY <2>4, <2>6, <3>1, <3>2 DEF Pair
    <3> QED BY <3>3 DEF g
  <2>11. f.caller \subseteq later.caller /\ later.mod \in Here
    BY <1>2, <2>3
  <2> QED BY <1>2, <2>1, <2>3, <2>4, <2>7, <2>8, <2>9, <2>10, <2>11, NestUp
<1>10. f.rest # <<>> => state[d] # error /\ state[d] \in Nat /\ f.target \in Nat
  BY <1>1, <1>2, LvOf
<1>11. \/ f.rest = <<>> /\ GoOn(t, "dependents", Order)
       \/ f.rest # <<>> /\ d \in f.caller /\ GoOn(t, "depends", Tail(f.rest))
       \/ Throw(t)
       \/ /\ f.rest # <<>> /\ d \notin f.caller /\ (state[d] < f.target \/ state[d] = boot)
          /\ Nest(t, Tail(f.rest), d, f.target)
       \/ /\ f.rest # <<>> /\ ~(state[d] < f.target \/ state[d] = boot)
          /\ GoOn(t, "depends", Tail(f.rest))
  BY <1>10 DEF Depends
<1>12. f.rest # <<>> /\ ~(state[d] < f.target \/ state[d] = boot) => state[d] >= f.target /\ state[d] # boot
  <2> HIDE DEF d, f
  <2> QED BY <1>10
<1> QED BY <1>5, <1>7, <1>8, <1>9, <1>11, <1>12, ThrowUp

(* Past the first loop a call goes on with x. *)
LEMMA GoesOn ==
  ASSUME NEW conf, NEW map, NEW st, NEW f, NEW x, NEW over,
         Local(conf, map, st, f, {}), f.at \notin {"enter", "depends"},
         x.at \notin {"enter", "depends"}, x.mod = f.mod, x.target = f.target,
         x.caller = f.caller \/ f.mod \in x.caller,
         NeededLow(conf, map, st, x, over), RestOK(conf, st, x)
  PROVE  Local(conf, map, st, x, over)
<1>1. Low(st, x) <=> Low(st, f)
  BY DEF Low
<1>2. CalledLow(st, x, over)
  BY <1>1 DEF Local, CalledLow, On
<1>3. CallerLow(conf, st, x)
  BY DEF Local, CallerLow
<1>4. NeedsUp(conf, st, x, over)
  BY DEF Local, NeedsUp
<1> QED BY <1>2, <1>3, <1>4 DEF Local

(* Only the module that depends on this one can be the next to lower.      *)
LEMMA DependentsUp ==
  ASSUME Straight, TypeOK, Supported(config, module_map, state),
         \A m \in Modules : state[m] # error,
         NEW t \in Threads, Up(t), Dependents(t)
  PROVE  UpNow(t)
<1> DEFINE f == Top(t)
           m == Head(f.rest)
           caller == f.caller \cup {f.mod}
           later == [f EXCEPT !.rest = Tail(f.rest), !.caller = caller]
<1>1. /\ At(t, "dependents") /\ UNCHANGED state /\ "dependents" \in Loops
      /\ state \in [Modules -> States]
  BY DEF Dependents, Loops, TypeOK
<1>2. /\ stack[t] # <<>> /\ f.at = "dependents" /\ f \in Frames /\ FrameOK(f) /\ f.rest \in Seq(Modules)
      /\ f.mod \in Modules /\ f.target \in States /\ f.caller \in SUBSET Modules
      /\ Local(config, module_map, state, f, {}) /\ f.mod \in Here /\ config \in Configs
      /\ f.rest # <<>> => /\ m \in Modules /\ Tail(f.rest) \in Seq(Modules) /\ m \in ToSet(f.rest)
                          /\ ToSet(Tail(f.rest)) \subseteq ToSet(f.rest)
                          /\ \A x \in ToSet(f.rest) : x = m \/ x \in ToSet(Tail(f.rest))
  BY <1>1, LoopUp
<1>3. /\ f.mod \notin Needs(config, f.mod) /\ f.mod \notin Below(config, f.mod)
      /\ Needs(config, f.mod) \subseteq Below(config, f.mod)
  BY <1>2, NeedsOf
<1>4. /\ f.target = boot => Low(state, f)
      /\ f.mod \notin f.caller => \A k \in f.caller : f.mod \in Below(config, k) =>
           \E x \in f.caller : f.mod \in Needs(config, x) /\ Lv(state[x]) <= Lv(f.target)
      /\ Low(state, f) \/ \A x \in module_map : f.mod \in Needs(config, x) =>
           \/ Lv(state[x]) <= Lv(f.target)
           \/ x \in ToSet(f.rest) /\ f.mod \notin f.caller
  BY <1>2 DEF Local, CalledLow, CallerLow, NeededLow, On
<1>5. CASE f.rest = <<>> /\ GoOn(t, "excludes", IF f.target = init THEN <<>> ELSE excludes[f.mod])
  <2> DEFINE rest == IF f.target = init THEN <<>> ELSE excludes[f.mod]
             x == [f EXCEPT !.at = "excludes", !.rest = rest]
  <2>1. rest \in Seq(Modules)
    BY <1>2, ConfigOf
  <2>2. \A e \in ToSet(rest) : f.target # init /\ e \in ToSet(config.excludes[f.mod])
    BY DEF excludes, ToSet
  <2>3. GoOn(t, "excludes", rest)
    BY <1>5
  <2> HIDE DEF rest
  <2>4. /\ x \in Frames /\ x.at = "excludes" /\ x.rest = rest /\ x.mod = f.mod
        /\ x.target = f.target /\ x.caller = f.caller
    BY <1>2, <2>1 DEF Frames, Loops
  <2>5. ToSet(f.rest) = {}
    BY <1>2, <1>5, ToSetOf
  <2>6. Local(config, module_map, state, x, {})
    <3> HIDE DEF x, f
    <3>1. Low(state, x) <=> Low(state, f)
      BY <2>4 DEF Low
    <3>2. NeededLow(config, module_map, state, x, {})
      BY <1>4, <2>4, <2>5, <3>1 DEF NeededLow
    <3>3. RestOK(config, state, x)
      BY <2>2, <2>4 DEF RestOK
    <3> QED BY <1>2, <2>4, <3>2, <3>3, GoesOn
  <2> QED BY <1>1, <1>2, <2>3, <2>4, <2>6, GoOnUp
<1>6. ASSUME f.rest # <<>>, GoOn(t, "dependents", Tail(f.rest)),
             Low(state, f) \/ (m \in module_map /\ f.mod \in Needs(config, m) /\ f.mod \notin f.caller
                                 => Lv(state[m]) <= Lv(f.target))
      PROVE  UpNow(t)
  <2> DEFINE x == [f EXCEPT !.at = "dependents", !.rest = Tail(f.rest)]
  <2>1. /\ x \in Frames /\ x.at = "dependents" /\ x.mod = f.mod /\ x.target = f.target
        /\ x.caller = f.caller /\ x.rest = Tail(f.rest)
    BY <1>2, <1>6 DEF Frames, Loops
  <2>2. Local(config, module_map, state, x, {})
    <3> HIDE DEF x, m, f
    <3>1. Low(state, x) <=> Low(state, f)
      BY <2>1 DEF Low
    <3>2. NeededLow(config, module_map, state, x, {})
      BY <1>2, <1>4, <1>6, <2>1, <3>1 DEF NeededLow
    <3>3. RestOK(config, state, x)
      BY <2>1 DEF RestOK
    <3> QED BY <1>2, <2>1, <3>2, <3>3, GoesOn
  <2> QED BY <1>1, <1>2, <1>6, <2>1, <2>2, GoOnUp
<1>7. CASE /\ f.rest # <<>> /\ GoOn(t, "dependents", Tail(f.rest))
           /\ \/ m = f.mod \/ m \notin module_map \/ f.mod \notin ToSet(depends[m]) \ f.caller
              \/ ~(state[m] > f.target)
  <2>1. CASE m = f.mod \/ m \notin module_map \/ f.mod \notin ToSet(depends[m]) \ f.caller
    BY <1>3, <1>6, <1>7, <2>1 DEF Needs, depends
  <2>2. CASE ~(state[m] > f.target)
    <3>1. f.target # boot => Lv(state[m]) <= Lv(f.target)
      <4> DEFINE u == state[m]
                 T == f.target
      <4>1. u \in States /\ T \in States /\ ~(u > T)
        BY <1>1, <1>2, <1>7, <2>2
      <4> HIDE DEF u, T
      <4>2. T # boot => Lv(u) <= Lv(T)
        BY <4>1, StatesAreNumbers DEF Lv
      <4> QED BY <4>2 DEF u, T
    <3> QED BY <1>4, <1>6, <1>7, <3>1
  <2> QED BY <1>7, <2>1, <2>2
<1>8. CASE /\ f.rest # <<>> /\ m # f.mod /\ m \in module_map /\ f.mod \in ToSet(depends[m]) \ f.caller
           /\ state[m] > f.target /\ Nest(t, Tail(f.rest), m, init)
  <2> DEFINE y == Frame(m, init, caller)
  <2>1. SetStack(t, <<y, later>> \o Tail(stack[t]))
    BY <1>8 DEF Nest
  <2>2. /\ m \in Modules /\ caller \in SUBSET Modules /\ Tail(f.rest) \in Seq(Modules)
        /\ init \in States
    BY <1>2, <1>8, LvOf
  <2>3. /\ later \in Frames /\ later.at = f.at /\ later.rest = Tail(f.rest) /\ Same(f, later)
        /\ later.mod = f.mod /\ later.target = f.target /\ later.caller = caller
    BY <1>2, <2>2 DEF Frames, Same
  <2>4. y \in Frames /\ y.mod = m /\ y.target = init /\ y.caller = caller /\ y.at = "enter"
    BY <2>2, FrameOf
  <2> HIDE DEF y, later
  <2>5. /\ f.mod \in Needs(config, m) /\ f.mod \in Below(config, m)
        /\ f.mod \notin f.caller
        /\ \A x \in Modules : f.mod \in Needs(config, x) => x = m
    <3>1. f.mod \in Needs(config, m) /\ f.mod \notin f.caller
      BY <1>8 DEF Needs, depends
    <3> QED BY <1>2, <2>2, <3>1, NeedsOf
  <2>6. Lv(state[m]) <= Lv(f.target) => Lv(state[m]) = init
    <3> DEFINE u == state[m]
               T == f.target
    <3>1. u \in States /\ T \in States /\ u > T /\ u # error
      BY <1>1, <1>2, <1>8, <2>2
    <3> HIDE DEF u, T
    <3>2. Lv(u) <= Lv(T) => Lv(u) = init
      BY <3>1, StatesAreNumbers DEF Lv
    <3> QED BY <3>2 DEF u, T
  <2>7. \A k \in f.caller : f.mod \in Below(config, k) => m \in f.caller /\ Lv(state[m]) = init
    BY <1>2, <1>4, <2>5, <2>6
  <2>8. m \notin Below(config, f.mod)
    <3> SUFFICES ASSUME m \in Below(config, f.mod) PROVE FALSE
      OBVIOUS
    <3>1. Below(config, m) \subseteq Below(config, f.mod)
      BY <1>2, BelowDown
    <3> QED BY <1>3, <2>5, <3>1
  <2>9. \A k \in Modules : m \in Below(config, k) => f.mod \in Below(config, k)
    BY <2>5, BelowDown
  <2>10. Local(config, module_map, state, later, {y})
    <3>1. On({y}, m, init)
      BY <2>4 DEF On
    <3>2. NeededLow(config, module_map, state, later, {y})
      <4> SUFFICES ASSUME NEW x \in module_map, f.mod \in Needs(config, x)
                   PROVE  On({y}, x, init)
        BY <1>2, <2>3 DEF NeededLow
      <4>1. x \in Modules
        BY DEF TypeOK
      <4> QED BY <2>5, <3>1, <4>1
    <3>3. RestOK(config, state, later)
      BY <1>2, <2>3 DEF RestOK
    <3> HIDE DEF m, f
    <3>4. f.mod \in later.caller
      BY <2>3
    <3> HIDE DEF caller
    <3> QED BY <1>2, <2>3, <3>2, <3>3, <3>4, GoesOn
  <2>11. Local(config, module_map, state, y, {})
    <3>1. y.mod \in y.caller => Low(state, y)
      <4> SUFFICES ASSUME m \in caller PROVE Low(state, y)
        BY <2>4
      <4>1. m \in f.caller
        BY <1>8
      <4>2. Lv(state[m]) = init
        BY <2>5, <2>7, <4>1
      <4> QED BY <2>4, <4>2, LvOf DEF Low
    <3>2. y.mod \notin y.caller => \A k \in y.caller : y.mod \notin Below(config, k)
      <4> SUFFICES ASSUME m \notin caller, NEW k \in caller, m \in Below(config, k) PROVE FALSE
        BY <2>4
      <4>1. k \in f.caller /\ k \in Modules
        BY <1>2, <2>8
      <4>2. m \in f.caller
        BY <2>7, <2>9, <4>1
      <4> QED BY <4>2
    <3> QED BY <2>4, <3>1, <3>2, BegunLocal
  <2>12. Pair(config, state, later, y)
    BY <2>3, <2>4, <2>8 DEF Pair
  <2>13. \A i \in 2 .. Len(stack[t]) : Pair(config, state, stack[t][i], y)
    <3> TAKE i \in 2 .. Len(stack[t])
    <3> DEFINE g == stack[t][i]
    <3>1. Pair(config, state, g, f) /\ g.mod \in Modules
      BY <1>2, TopIsUp
    <3> HIDE DEF g
    <3>2. m \in Below(config, g.mod) => f.mod \in Below(config, g.mod)
      BY <2>9, <3>1
    <3>3. f.target = init /\ Lv(state[f.mod]) = init => Lv(state[m]) = init
      <4>1. Lv(state[m]) <= Lv(state[f.mod])
        BY <1>8, <2>5 DEF Supported
      <4> QED BY <2>6, <4>1, LvOf
    <3>4. f.target # init => f.mod \in Below(config, g.mod) /\ g.mod \in f.caller /\ f.target = g.target
      BY <3>1 DEF Pair
    <3>5. f.target # init => Lv(state[m]) = init
      BY <2>7, <3>4
    <3>6. f.target = init /\ g.target # boot => m \notin Below(config, g.mod) \/ Lv(state[m]) = init
      BY <3>1, <3>2, <3>3 DEF Pair
    <3>7. Pair(config, state, g, y)
      BY <2>4, <3>5, <3>6 DEF Pair
    <3> QED BY <3>7 DEF g
  <2>14. f.caller \subseteq later.caller /\ later.mod \in Here
    BY <1>2, <2>3
  <2> QED BY <1>2, <2>1, <2>3, <2>4, <2>10, <2>11, <2>12, <2>13, <2>14, NestUp
<1>9. \/ f.rest = <<>> /\ GoOn(t, "excludes", IF f.target = init THEN <<>> ELSE excludes[f.mod])
      \/ /\ f.rest # <<>> /\ GoOn(t, "dependents", Tail(f.rest))
         /\ \/ m = f.mod \/ m \notin module_map \/ f.mod \notin ToSet(depends[m]) \ f.caller
            \/ ~(state[m] > f.target)
      \/ Throw(t)
      \/ /\ f.rest # <<>> /\ m # f.mod /\ m \in module_map /\ f.mod \in ToSet(depends[m]) \ f.caller
         /\ state[m] > f.target /\ Nest(t, Tail(f.rest), m, init)
  BY DEF Dependents
<1> QED BY <1>5, <1>7, <1>8, <1>9, ThrowUp

(* What is excluded is nothing the active calls need. *)
LEMMA ExcludesUp ==
  ASSUME Straight, TypeOK, NEW t \in Threads, Up(t), Good(t), Excludes(t)
  PROVE  UpNow(t)
<1> DEFINE f == Top(t)
           e == Head(f.rest)
           later == [f EXCEPT !.rest = Tail(f.rest)]
<1>1. /\ At(t, "excludes") /\ UNCHANGED state /\ "excludes" \in Loops
  BY DEF Excludes, Loops
<1>2. /\ stack[t] # <<>> /\ f.at = "excludes" /\ f \in Frames /\ FrameOK(f) /\ f.rest \in Seq(Modules)
      /\ f.mod \in Modules /\ f.target \in States /\ f.caller \in SUBSET Modules
      /\ Local(config, module_map, state, f, {}) /\ f.mod \in Here /\ config \in Configs
      /\ f.rest # <<>> => /\ e \in Modules /\ Tail(f.rest) \in Seq(Modules) /\ e \in ToSet(f.rest)
                          /\ ToSet(Tail(f.rest)) \subseteq ToSet(f.rest)
                          /\ \A x \in ToSet(f.rest) : x = e \/ x \in ToSet(Tail(f.rest))
  BY <1>1, LoopUp
<1>3. /\ \A x \in ToSet(f.rest) : f.target # init /\ x \in ToSet(config.excludes[f.mod])
      /\ Low(state, f) \/ \A x \in module_map : f.mod \in Needs(config, x) =>
           Lv(state[x]) <= Lv(f.target)
  BY <1>2 DEF Local, RestOK, NeededLow
<1>4. f.target # init => CallersOK(config, f)
  BY <1>2, TopIsGood
<1>5. ASSUME NEW x, x.mod = f.mod, x.target = f.target, x.caller = f.caller, NEW over,
             x.at = "apply" \/ (x.at = "excludes" /\ ToSet(x.rest) \subseteq ToSet(f.rest))
      PROVE  Local(config, module_map, state, x, over)
  <2> HIDE DEF f
  <2>1. Low(state, x) <=> Low(state, f)
    BY <1>5 DEF Low
  <2>2. NeededLow(config, module_map, state, x, over)
    BY <1>3, <1>5, <2>1 DEF NeededLow
  <2>3. RestOK(config, state, x)
    BY <1>3, <1>5 DEF RestOK
  <2> QED BY <1>2, <1>5, <2>2, <2>3, GoesOn
<1>6. CASE GoOn(t, "apply", <<>>)
  <2> DEFINE x == [f EXCEPT !.at = "apply", !.rest = <<>>]
  <2>1. <<>> \in Seq(Modules)
    OBVIOUS
  <2>2. /\ x \in Frames /\ x.at = "apply" /\ x.mod = f.mod
        /\ x.target = f.target /\ x.caller = f.caller
    BY <1>2, <2>1 DEF Frames, Loops
  <2>3. Local(config, module_map, state, x, {})
    <3> HIDE DEF x
    <3> QED BY <1>5, <2>2
  <2> QED BY <1>1, <1>2, <1>6, <2>2, <2>3, GoOnUp
<1>7. CASE f.rest # <<>> /\ GoOn(t, "excludes", Tail(f.rest))
  <2> DEFINE x == [f EXCEPT !.at = "excludes", !.rest = Tail(f.rest)]
  <2>1. /\ x \in Frames /\ x.at = "excludes" /\ x.mod = f.mod /\ x.rest = Tail(f.rest)
        /\ x.target = f.target /\ x.caller = f.caller
    BY <1>2, <1>7 DEF Frames, Loops
  <2>2. Local(config, module_map, state, x, {})
    <3> HIDE DEF x
    <3> QED BY <1>2, <1>5, <1>7, <2>1
  <2> QED BY <1>1, <1>2, <1>7, <2>1, <2>2, GoOnUp
<1>8. CASE /\ f.rest # <<>> /\ e \notin f.caller
           /\ SetStack(t, <<Frame(e, init, f.caller), later>> \o Tail(stack[t]))
  <2> DEFINE y == Frame(e, init, f.caller)
  <2>1. SetStack(t, <<y, later>> \o Tail(stack[t]))
    BY <1>8
  <2>2. e \in Modules /\ Tail(f.rest) \in Seq(Modules) /\ init \in States
    BY <1>2, <1>8, LvOf
  <2>3. /\ later \in Frames /\ later.at = "excludes" /\ later.rest = Tail(f.rest) /\ Same(f, later)
        /\ later.mod = f.mod /\ later.target = f.target /\ later.caller = f.caller
    BY <1>2, <2>2 DEF Frames, Same
  <2>4. y \in Frames /\ y.mod = e /\ y.target = init /\ y.caller = f.caller /\ y.at = "enter"
    BY <1>2, <2>2, FrameOf
  <2> HIDE DEF y, later
  <2>5. /\ f.target # init /\ e \in ToSet(config.excludes[f.mod])
    BY <1>2, <1>3, <1>8
  <2>6. \A k \in Modules : k = f.mod \/ f.mod \in Below(config, k) => e \notin Below(config, k)
    BY <1>2, <2>5, NeedsOf
  <2>7. Local(config, module_map, state, later, {y})
    BY <1>2, <1>5, <1>8, <2>3
  <2>8. Local(config, module_map, state, y, {})
    <3>1. \A k \in f.caller : e \notin Below(config, k)
      BY <1>2, <1>4, <2>5, <2>6 DEF CallersOK
    <3> QED BY <1>8, <2>4, <3>1, BegunLocal
  <2>9. Pair(config, state, later, y)
    BY <1>2, <2>3, <2>4, <2>6 DEF Pair
  <2>10. \A i \in 2 .. Len(stack[t]) : Pair(config, state, stack[t][i], y)
    <3> TAKE i \in 2 .. Len(stack[t])
    <3>1. Pair(config, state, stack[t][i], f) /\ stack[t][i].mod \in Modules
      BY <1>2, TopIsUp
    <3>2. f.mod \in Below(config, stack[t][i].mod)
      BY <2>5, <3>1 DEF Pair
    <3> QED BY <2>4, <2>6, <3>1, <3>2 DEF Pair
  <2>11. f.caller \subseteq later.caller /\ later.mod \in Here
    BY <1>2, <2>3
  <2> QED BY <1>2, <2>1, <2>3, <2>4, <2>7, <2>8, <2>9, <2>10, <2>11, NestUp
<1>9. \/ GoOn(t, "apply", <<>>)
      \/ f.rest # <<>> /\ GoOn(t, "excludes", Tail(f.rest))
      \/ Throw(t)
      \/ /\ f.rest # <<>> /\ e \notin f.caller
         /\ SetStack(t, <<Frame(e, init, f.caller), later>> \o Tail(stack[t]))
  BY DEF Excludes
<1> QED BY <1>6, <1>7, <1>8, <1>9, ThrowUp

LEMMA ApplyUp ==
  ASSUME TypeOK, \A m \in Modules : state[m] # error, NEW t \in Threads, Up(t), Apply(t)
  PROVE  UpNow(t)
<1> DEFINE f == Top(t)
           rest == Requests(state[f.mod], f.target)
           x == [f EXCEPT !.at = "request", !.rest = rest]
<1>1. /\ stack[t] # <<>> /\ f.at = "apply" /\ UNCHANGED state /\ state \in [Modules -> States]
  BY DEF Apply, At, TypeOK
<1>2. /\ f \in Frames /\ f.mod \in Modules /\ f.target \in States
      /\ Local(config, module_map, state, f, {}) /\ f.mod \in Here
  BY <1>1, TopOf, TopIsUp
<1>3. CASE Known(state[f.mod], f.target) /\ GoOn(t, "request", rest)
  <2>1. rest \in Seq(States) /\ f.target # error
    <3>1. f.target # error
      BY <1>3, StatesAreNumbers DEF Known
    <3> QED BY <1>1, <1>2, <1>3, <3>1, RequestsEnd
  <2>2. GoOn(t, "request", rest)
    BY <1>3
  <2> HIDE DEF rest
  <2>3. /\ x \in Frames /\ x.at = "request" /\ x.mod = f.mod /\ x.target = f.target
        /\ x.caller = f.caller /\ x.rest = rest
    BY <1>2, <2>1 DEF Frames
  <2>4. Local(config, module_map, state, x, {})
    <3> HIDE DEF x, f
    <3>1. Low(state, x) <=> Low(state, f)
      BY <2>3 DEF Low
    <3>2. NeededLow(config, module_map, state, x, {})
      BY <1>1, <1>2, <2>3, <3>1 DEF Local, NeededLow
    <3>3. RestOK(config, state, x)
      BY <2>1, <2>3 DEF RestOK, rest
    <3> QED BY <1>1, <1>2, <2>3, <3>2, <3>3, GoesOn
  <2> QED BY <1>1, <1>2, <2>2, <2>3, <2>4, GoOnUp
<1>4. Throw(t) \/ (Known(state[f.mod], f.target) /\ GoOn(t, "request", rest))
  BY DEF Apply
<1> QED BY <1>3, <1>4, ThrowUp

-----------------------------------------------------------------------------
(* A request of the innermost call. *)

(* A module p that goes from one state to the next raises what depends on  *)
(* it, or lowers what it depends on, only as far as the others allow.      *)
LEMMA SupportedWhenMoved ==
  ASSUME NEW conf, NEW map \in SUBSET Modules, NEW st \in [Modules -> States],
         NEW p \in Modules, NEW v \in States, Supported(conf, map, st),
         \A m \in Modules : Needs(conf, m) \subseteq Modules /\ m \notin Needs(conf, m),
         Lv(st[p]) < Lv(v) => \A d \in Needs(conf, p) : Lv(v) <= Lv(st[d]),
         Lv(v) < Lv(st[p]) => \A m \in map : p \in Needs(conf, m) => Lv(st[m]) <= Lv(v)
  PROVE  Supported(conf, map, [st EXCEPT ![p] = v])
<1> DEFINE st2 == [st EXCEPT ![p] = v]
<1> SUFFICES ASSUME NEW m \in map, NEW d \in Needs(conf, m)
             PROVE  Lv(st2[m]) <= Lv(st2[d])
  BY DEF Supported
<1>1. m \in Modules /\ d \in Modules /\ m # d
  OBVIOUS
<1>2. Lv(st[m]) <= Lv(st[d])
  BY DEF Supported
<1>3. Lv(st[m]) \in Nat /\ Lv(st[d]) \in Nat /\ Lv(v) \in Nat
  BY <1>1, LvOf
<1>4. CASE m = p
  BY <1>1, <1>2, <1>3, <1>4
<1>5. CASE d = p
  BY <1>1, <1>2, <1>3, <1>5
<1>6. CASE m # p /\ d # p
  BY <1>1, <1>2, <1>6
<1> QED BY <1>4, <1>5, <1>6

(* What a call in the middle of a request knows of its module p and of a   *)
(* state v on the way to its target.                                       *)
LEMMA RequestKnows ==
  ASSUME NEW conf, NEW map, NEW st \in [Modules -> States], NEW f \in Frames, f.at = "request",
         Local(conf, map, st, f, {}), st[f.mod] # error, NEW v, Between(st[f.mod], v, f.target),
         Needs(conf, f.mod) \subseteq Modules, map \subseteq Modules
  PROVE  /\ f.target \in States \ {error} /\ v \in States \ {error} /\ st[f.mod] \in States
         /\ f.target = boot => Lv(st[f.mod]) = init /\ Lv(v) = init
         /\ Lv(st[f.mod]) < Lv(v) =>
              /\ f.target \notin {init, boot} /\ Lv(v) <= f.target
              /\ \A d \in Needs(conf, f.mod) : Lv(v) <= Lv(st[d])
         /\ Lv(v) < Lv(st[f.mod]) =>
              /\ Lv(f.target) <= Lv(v)
              /\ \A m \in map : f.mod \in Needs(conf, m) => Lv(st[m]) <= Lv(v)
<1> DEFINE u == st[f.mod]
           T == f.target
<1>1. u \in States \ {error} /\ T \in States \ {error} /\ v \in States \ {error}
  BY DEF Frames, Local, RestOK, Between
<1>2. /\ Lv(u) \in Nat /\ Lv(v) \in Nat /\ Lv(T) \in Nat /\ T \in Nat
      /\ init <= Lv(u) /\ init <= Lv(v) /\ Lv(T) <= T /\ init \in Nat
      /\ T \in {init, boot} => Lv(T) = init
      /\ T \notin {init, boot} => Lv(T) = T
  BY <1>1, LvOf
<1>3. /\ Lv(u) <= Lv(T) => Lv(u) <= Lv(v) /\ Lv(v) <= Lv(T)
      /\ Lv(T) <= Lv(u) => Lv(T) <= Lv(v) /\ Lv(v) <= Lv(u)
  BY DEF Between
<1>4. /\ T = boot => Lv(u) <= Lv(T)
      /\ T \notin {init, boot} => \A d \in Needs(conf, f.mod) : Lv(st[d]) >= T
      /\ Lv(u) <= Lv(T) \/ \A m \in map : f.mod \in Needs(conf, m) => Lv(st[m]) <= Lv(T)
  BY DEF Local, CalledLow, NeedsUp, NeededLow, On, Low
<1>5. \A m \in Modules : Lv(st[m]) \in Nat
  BY LvOf
<1> HIDE DEF u, T
<1>6. T = boot => Lv(u) = init /\ Lv(v) = init
  BY <1>2, <1>3, <1>4
<1>7. Lv(u) < Lv(v) => T \notin {init, boot} /\ Lv(v) <= T
  BY <1>2, <1>3
<1>8. Lv(u) < Lv(v) => \A d \in Needs(conf, f.mod) : Lv(v) <= Lv(st[d])
  <2> SUFFICES ASSUME Lv(u) < Lv(v), NEW d \in Needs(conf, f.mod) PROVE Lv(v) <= Lv(st[d])
    OBVIOUS
  <2>1. Lv(st[d]) >= T /\ Lv(st[d]) \in Nat
    BY <1>4, <1>5, <1>7
  <2> QED BY <1>2, <1>7, <2>1
<1>9. Lv(v) < Lv(u) => Lv(T) <= Lv(v) /\ ~(Lv(u) <= Lv(T))
  BY <1>2, <1>3
<1>10. Lv(v) < Lv(u) => \A m \in map : f.mod \in Needs(conf, m) => Lv(st[m]) <= Lv(v)
  <2> SUFFICES ASSUME Lv(v) < Lv(u), NEW m \in map, f.mod \in Needs(conf, m)
               PROVE  Lv(st[m]) <= Lv(v)
    OBVIOUS
  <2>1. Lv(st[m]) <= Lv(T) /\ Lv(st[m]) \in Nat
    BY <1>4, <1>5, <1>9
  <2> QED BY <1>2, <1>9, <2>1
<1> QED BY <1>1, <1>6, <1>7, <1>8, <1>9, <1>10 DEF u, T

(* The calls it is nested in, if it raises its module: they raise modules  *)
(* above it and have not looked at it again;                               *)
LEMMA OuterWhenRaised ==
  ASSUME NEW conf, NEW map \in SUBSET Modules, NEW here, NEW st \in [Modules -> States],
         NEW st2 \in [Modules -> States],
         NEW p \in Modules, \A m \in Modules : m # p => st2[m] = st[m],
         Lv(st[p]) <= Lv(st2[p]),
         NEW s, StackOK(s), NEW i \in 2 .. Len(s), UpFrame(conf, map, here, st, s, i),
         \A j \in 1 .. Len(s) : s[j].target \notin {init, boot} /\ Lv(st2[p]) <= s[j].target,
         s[i].at = "depends", s[i].mod # p, s[i].caller \subseteq Modules,
         ToSet(s[i].rest) \subseteq Needs(conf, s[i].mod), Needs(conf, s[i].mod) \subseteq Modules
  PROVE  UpFrame(conf, map, here, st2, s, i)
<1> DEFINE f == s[i]
           over == Over(s, i)
<1>1. i \in 1 .. Len(s) /\ f \in Frames
  BY DEF StackOK
<1>2. f.mod \in Modules /\ f.target \in States
  BY <1>1 DEF Frames
<1>3. \A m \in Modules : Lv(st[m]) <= Lv(st2[m]) /\ Lv(st[m]) \in Nat /\ Lv(st2[m]) \in Nat
  BY LvOf
<1>4. st2[f.mod] = st[f.mod] /\ Lv(st2[p]) <= Lv(f.target)
  <2>1. Lv(f.target) = f.target
    BY <1>1, <1>2, LvOf
  <2> QED BY <1>1, <1>2, <2>1
<1>5. Local(conf, map, st, f, over)
  BY DEF UpFrame
<1> HIDE DEF over
<1>6. CalledLow(st2, f, over)
  BY <1>4, <1>5 DEF Local, CalledLow, Low
<1>7. CallerLow(conf, st2, f)
  <2> SUFFICES ASSUME f.mod \notin f.caller, NEW k \in f.caller, f.mod \in Below(conf, k)
               PROVE  \E m \in f.caller : f.mod \in Needs(conf, m) /\ Lv(st2[m]) <= Lv(f.target)
    BY DEF CallerLow
  <2>1. PICK m \in f.caller : f.mod \in Needs(conf, m) /\ Lv(st[m]) <= Lv(f.target)
    BY <1>5 DEF Local, CallerLow
  <2>2. Lv(st2[m]) <= Lv(f.target)
    BY <1>4, <2>1
  <2> QED BY <2>1, <2>2
<1>8. NeedsUp(conf, st2, f, over)
  <2>1. \A d \in ToSet(f.rest) : Lv(st2[f.mod]) <= Lv(st2[d])
    <3> TAKE d \in ToSet(f.rest)
    <3>1. Lv(st[f.mod]) <= Lv(st[d])
      BY <1>5 DEF Local, NeedsUp
    <3>2. d \in Modules
      OBVIOUS
    <3> QED BY <1>2, <1>3, <1>4, <3>1, <3>2
  <2>2. \A d \in Needs(conf, f.mod) : f.target \notin {init, boot} =>
           \/ Lv(st2[d]) >= f.target
           \/ f.at = "depends" /\ (d \in ToSet(f.rest) \/ On(over, d, f.target))
    <3> TAKE d \in Needs(conf, f.mod)
    <3>1. d \in Modules /\ f.target \in Nat
      BY <1>2, LvOf
    <3>2. Lv(st[d]) >= f.target => Lv(st2[d]) >= f.target
      BY <1>3, <3>1
    <3> QED BY <1>5, <3>2 DEF Local, NeedsUp
  <2> HIDE DEF f
  <2> QED BY <2>1, <2>2 DEF NeedsUp
<1>9. NeededLow(conf, map, st2, f, over) /\ RestOK(conf, st2, f)
  BY DEF NeededLow, RestOK
<1>10. \A j \in 1 .. i - 1 : Pair(conf, st2, f, s[j])
  <2> TAKE j \in 1 .. i - 1
  <2>1. j \in 1 .. Len(s)
    BY <1>1
  <2>2. s[j].mod \in Modules
    BY <2>1 DEF StackOK, FrameOK, Frames
  <2>3. Pair(conf, st, f, s[j])
    BY DEF UpFrame
  <2>4. s[j].target # init /\ (Lv(st[s[j].mod]) <= s[j].target => Lv(st2[s[j].mod]) <= s[j].target)
    BY <2>1, <2>2
  <2> QED BY <2>3, <2>4 DEF Pair
<1> QED BY <1>6, <1>7, <1>8, <1>9, <1>10 DEF Local, UpFrame, over

(* and if it lowers it: none of them that needs it is any higher.          *)
LEMMA OuterWhenLowered ==
  ASSUME NEW conf, NEW map \in SUBSET Modules, NEW here, NEW st \in [Modules -> States],
         NEW st2 \in [Modules -> States],
         NEW p \in Modules, \A m \in Modules : m # p => st2[m] = st[m],
         Lv(st2[p]) <= Lv(st[p]),
         NEW s, StackOK(s), NEW i \in 2 .. Len(s), UpFrame(conf, map, here, st, s, i),
         s[i].at \in Loops,
         s[i].at = "depends" => ToSet(s[i].rest) \subseteq Needs(conf, s[i].mod),
         Needs(conf, s[i].mod) \subseteq Modules, s[i].mod \notin Needs(conf, s[i].mod),
         \/ p \notin Needs(conf, s[i].mod)
         \/ Lv(st2[p]) = Lv(st[p])
         \/ s[i].target = boot /\ Lv(st[s[i].mod]) = init
  PROVE  UpFrame(conf, map, here, st2, s, i)
<1> DEFINE f == s[i]
           over == Over(s, i)
<1>1. i \in 1 .. Len(s) /\ f \in Frames
  BY DEF StackOK
<1>2. f.mod \in Modules /\ f.target \in States /\ f.caller \subseteq Modules /\ f.at # "enter" /\ f.at # "request"
  BY <1>1 DEF Frames, Loops
<1>3. \A m \in Modules : /\ Lv(st2[m]) <= Lv(st[m]) /\ Lv(st[m]) \in Nat /\ Lv(st2[m]) \in Nat
                         /\ init <= Lv(st2[m])
  BY LvOf
<1>4. Local(conf, map, st, f, over)
  BY DEF UpFrame
<1>5. Lv(f.target) \in Nat /\ init \in Nat
  BY <1>2, LvOf
<1> HIDE DEF over
<1>6. \A m \in Modules : Lv(st[m]) <= Lv(f.target) => Lv(st2[m]) <= Lv(f.target)
  BY <1>3, <1>5
<1>7. CalledLow(st2, f, over)
  BY <1>2, <1>4, <1>6 DEF Local, CalledLow, Low
<1>8. CallerLow(conf, st2, f)
  <2> SUFFICES ASSUME f.mod \notin f.caller, NEW k \in f.caller, f.mod \in Below(conf, k)
               PROVE  \E m \in f.caller : f.mod \in Needs(conf, m) /\ Lv(st2[m]) <= Lv(f.target)
    BY DEF CallerLow
  <2>1. PICK m \in f.caller : f.mod \in Needs(conf, m) /\ Lv(st[m]) <= Lv(f.target)
    BY <1>4 DEF Local, CallerLow
  <2> QED BY <1>2, <1>6, <2>1
<1>9. f.at = "depends" => \A d \in ToSet(f.rest) : Lv(st2[f.mod]) <= Lv(st2[d])
  <2> SUFFICES ASSUME f.at = "depends", NEW d \in ToSet(f.rest)
               PROVE  Lv(st2[f.mod]) <= Lv(st2[d])
    OBVIOUS
  <2>1. Lv(st[f.mod]) <= Lv(st[d]) /\ d \in Needs(conf, f.mod) /\ d \in Modules /\ d # f.mod
    BY <1>4 DEF Local, NeedsUp
  <2>2. CASE Lv(st2[d]) = Lv(st[d])
    BY <1>2, <1>3, <2>1, <2>2
  <2>3. CASE Lv(st2[d]) # Lv(st[d])
    <3>1. d = p /\ f.target = boot /\ Lv(st[f.mod]) = init
      BY <2>1, <2>3
    <3>2. Lv(st2[f.mod]) = Lv(st[f.mod])
      BY <1>2, <2>1, <3>1
    <3> QED BY <1>3, <2>1, <3>1, <3>2
  <2> QED BY <2>2, <2>3
<1>10. NeedsUp(conf, st2, f, over)
  <2>1. \A d \in Needs(conf, f.mod) : f.target \notin {init, boot} => Lv(st2[d]) = Lv(st[d])
    OBVIOUS
  <2> HIDE DEF f
  <2> QED BY <1>4, <1>9, <2>1 DEF Local, NeedsUp
<1>11. NeededLow(conf, map, st2, f, over)
  <2>1. Low(st, f) => Low(st2, f)
    BY <1>2, <1>6 DEF Low
  <2>2. \A m \in map : Lv(st[m]) <= Lv(f.target) => Lv(st2[m]) <= Lv(f.target)
    BY <1>6
  <2> HIDE DEF f
  <2> QED BY <1>4, <2>1, <2>2 DEF Local, NeededLow
<1>12. RestOK(conf, st2, f)
  BY <1>2, <1>4 DEF Local, RestOK
<1>13. \A j \in 1 .. i - 1 : Pair(conf, st2, f, s[j])
  <2> TAKE j \in 1 .. i - 1
  <2>1. j \in 1 .. Len(s)
    BY <1>1
  <2>2. s[j].mod \in Modules /\ s[j].target \in States
    BY <2>1 DEF StackOK, FrameOK, Frames
  <2>3. Pair(conf, st, f, s[j])
    BY DEF UpFrame
  <2> DEFINE a == Lv(st[s[j].mod])
             b == Lv(st2[s[j].mod])
             T == s[j].target
  <2>4. a \in Nat /\ b \in Nat /\ b <= a /\ init <= b /\ T \in Nat
    BY <1>3, <2>2, LvOf
  <2> HIDE DEF a, b, T
  <2>5. (a <= T => b <= T) /\ (a = init => b = init)
    BY <1>5, <2>4
  <2>6. /\ Lv(st[s[j].mod]) <= s[j].target => Lv(st2[s[j].mod]) <= s[j].target
        /\ Lv(st[s[j].mod]) = init => Lv(st2[s[j].mod]) = init
    BY <2>5 DEF a, b, T
  <2> QED BY <2>3, <2>6 DEF Pair
<1> QED BY <1>7, <1>8, <1>10, <1>11, <1>12, <1>13 DEF Local, UpFrame, over

(* The first of the requests leads towards the target, the rest goes on.   *)
LEMMA RequestsLead ==
  ASSUME NEW from \in States \ {error}, NEW to \in States \ {error}, NEW q, q = Requests(from, to)
  PROVE  /\ q # <<>> /\ Between(from, Head(q), to)
         /\ Tail(q) = <<>> => Head(q) = to
         /\ Tail(q) # <<>> => Tail(q) = Requests(Head(q), to)
<1>1. CASE Known(from, to)
  BY <1>1, RequestsHead
<1>2. CASE ~Known(from, to)
  <2>1. from = boot /\ to = boot
    BY <1>2, StatesAreNumbers DEF Known
  <2>2. q = <<boot>>
    BY <2>1 DEF Requests
  <2>3. Between(boot, boot, boot)
    BY StatesAreNumbers DEF Between, Lv
  <2>4. <<boot>> # <<>> /\ Head(<<boot>>) = boot /\ Tail(<<boot>>) = <<>>
    OBVIOUS
  <2> QED BY <2>1, <2>2, <2>3, <2>4
<1> QED BY <1>1, <1>2

LEMMA OuterKept ==
  ASSUME Straight, NEW conf \in Configs, NEW map \in SUBSET Modules, NEW here,
         NEW st \in [Modules -> States], NEW s, StackOK(s), s # <<>>,
         UpStack(conf, map, here, st, s), GoodStack(conf, st, s), s[1].at = "request",
         st[s[1].mod] # error, NEW v, Between(st[s[1].mod], v, s[1].target)
  PROVE  \A i \in 2 .. Len(s) : UpFrame(conf, map, here, [st EXCEPT ![s[1].mod] = v], s, i)
<1> DEFINE f == s[1]
           p == s[1].mod
           st2 == [st EXCEPT ![s[1].mod] = v]
           n == Len(s)
<1>1. /\ n \in Nat /\ 1 \in 1 .. n
      /\ \A i \in 1 .. n : /\ s[i] \in Frames /\ s[i].mod \in Modules /\ s[i].target \in States
                           /\ s[i].caller \subseteq Modules
  BY Popped DEF StackOK, FrameOK, Frames
<1>2. /\ UpFrame(conf, map, here, st, s, 1) /\ \A i \in 1 .. n : UpFrame(conf, map, here, st, s, i)
      /\ \A i \in 1 .. n : FrameInv(conf, st, s, i)
  BY <1>1 DEF UpStack, GoodStack
<1>3. Needs(conf, p) \subseteq Modules /\ p \in Modules /\ Local(conf, map, st, f, {})
  BY <1>1, <1>2, NeedsOf DEF UpFrame, Over
<1>4. /\ f.target \in States \ {error} /\ v \in States \ {error} /\ st[p] \in States
      /\ f.target = boot => Lv(st[p]) = init /\ Lv(v) = init
      /\ Lv(st[p]) < Lv(v) => f.target \notin {init, boot} /\ Lv(v) <= f.target
      /\ Lv(v) < Lv(st[p]) => Lv(f.target) <= Lv(v)
  BY <1>1, <1>3, RequestKnows
<1>5. /\ st2 \in [Modules -> States] /\ st2[p] = v /\ \A m \in Modules : m # p => st2[m] = st[m]
  BY <1>3, <1>4
<1>6. \A i \in 2 .. n : /\ i \in 1 .. n /\ 1 \in 1 .. i - 1
                        /\ Pair(conf, st, s[i], f) /\ s[i].at \in Loops
                        /\ f.target # init => s[i].at = "depends"
                        /\ s[i].at = "depends" => ToSet(s[i].rest) \subseteq Needs(conf, s[i].mod)
  <2> TAKE i \in 2 .. n
  <2>1. i \in 1 .. n /\ 1 \in 1 .. i - 1 /\ i > 1
    BY <1>1
  <2> QED BY <1>2, <2>1 DEF UpFrame, FrameInv, Needs
<1>7. Lv(v) \in Nat /\ Lv(st[p]) \in Nat /\ Lv(f.target) \in Nat /\ init \in Nat /\ init <= Lv(v)
  BY <1>4, LvOf
<1> SUFFICES ASSUME NEW i \in 2 .. n
             PROVE  UpFrame(conf, map, here, st2, s, i)
  OBVIOUS
<1> DEFINE g == s[i]
<1>8. /\ g \in Frames /\ g.mod \in Modules /\ g.target \in States /\ g.caller \subseteq Modules
      /\ Pair(conf, st, g, f) /\ g.at \in Loops /\ UpFrame(conf, map, here, st, s, i)
      /\ f.target # init => g.at = "depends"
      /\ g.at = "depends" => ToSet(g.rest) \subseteq Needs(conf, g.mod)
  BY <1>1, <1>2, <1>6
<1>9. /\ Needs(conf, g.mod) \subseteq Modules /\ g.mod \notin Needs(conf, g.mod)
      /\ g.mod \notin Below(conf, g.mod) /\ Needs(conf, g.mod) \subseteq Below(conf, g.mod)
  BY <1>8, NeedsOf
<1>10. CASE Lv(st[p]) < Lv(v)
  <2>1. \A j \in 1 .. n : s[j].target \notin {init, boot} /\ Lv(v) <= s[j].target
    <3> TAKE j \in 1 .. n
    <3>1. CASE j = 1
      BY <1>4, <1>10, <3>1
    <3>2. CASE j # 1
      <4>1. Pair(conf, st, s[j], f)
        BY <1>6, <3>2
      <4> QED BY <1>4, <1>10, <4>1 DEF Pair
    <3> QED BY <3>1, <3>2
  <2>2. g.mod # p /\ g.at = "depends"
    BY <1>4, <1>8, <1>9, <1>10 DEF Pair
  <2>3. Lv(st[p]) <= Lv(st2[p])
    BY <1>5, <1>7, <1>10
  <2> HIDE DEF st2, p
  <2>4. \A j \in 1 .. n : s[j].target \notin {init, boot} /\ Lv(st2[p]) <= s[j].target
    BY <1>5, <2>1
  <2> QED BY <1>3, <1>5, <1>8, <1>9, <2>2, <2>3, <2>4, OuterWhenRaised
<1>11. CASE ~(Lv(st[p]) < Lv(v))
  <2>1. Lv(st2[p]) <= Lv(st[p])
    BY <1>5, <1>7, <1>11
  <2>2. ASSUME p \in Needs(conf, g.mod), Lv(v) # Lv(st[p])
        PROVE  g.target = boot /\ Lv(st[g.mod]) = init
    <3>1. Lv(v) < Lv(st[p]) /\ p \in Below(conf, g.mod) /\ p # g.mod /\ Lv(f.target) <= Lv(v)
      BY <1>4, <1>7, <1>9, <1>11, <2>2
    <3>2. f.target = init
      <4> SUFFICES ASSUME f.target # init PROVE FALSE
        OBVIOUS
      <4>1. f.target # boot
        BY <1>4, <1>7, <3>1
      <4>2. Lv(st[p]) <= f.target /\ Lv(f.target) = f.target
        BY <1>4, <1>8, <4>1, LvOf DEF Pair
      <4> QED BY <1>7, <3>1, <4>2
    <3>3. Lv(st[p]) # init
      BY <1>7, <3>1
    <3>4. g.target = boot
      BY <1>8, <3>1, <3>2, <3>3 DEF Pair
    <3>5. i \in 1 .. n /\ i - 1 \in 1 .. n /\ i # 1 /\ (i - 1 # 1 => i - 1 \in 2 .. n)
      BY <1>1
    <3>6. Low(st, g) \/ On({s[i - 1]}, g.mod, init)
      <4>1. CalledLow(st, g, {s[i - 1]})
        BY <1>8, <3>5 DEF UpFrame, Over, Local
      <4>2. g.at # "enter"
        BY <1>8 DEF Loops
      <4> HIDE DEF g
      <4> QED BY <3>4, <4>1, <4>2 DEF CalledLow
    <3>7. ~On({s[i - 1]}, g.mod, init)
      <4> SUFFICES ASSUME s[i - 1].mod = g.mod, s[i - 1].target = init PROVE FALSE
        BY DEF On
      <4>1. i - 1 # 1
        BY <3>1
      <4>2. Pair(conf, st, s[i - 1], f)
        BY <1>6, <3>5, <4>1
      <4> QED BY <3>1, <3>2, <3>3, <4>2, LvOf DEF Pair
    <3>8. Lv(st[g.mod]) <= init /\ Lv(st[g.mod]) >= init /\ Lv(st[g.mod]) \in Nat
      BY <1>8, <3>4, <3>6, <3>7, LvOf DEF Low
    <3> QED BY <1>7, <3>4, <3>8
  <2>3. \/ p \notin Needs(conf, g.mod)
        \/ Lv(st2[p]) = Lv(st[p])
        \/ g.target = boot /\ Lv(st[g.mod]) = init
    BY <1>5, <2>2
  <2> HIDE DEF st2, p
  <2> QED BY <1>3, <1>5, <1>8, <1>9, <2>1, <2>3, OuterWhenLowered
<1> QED BY <1>10, <1>11

(* The module of the innermost call itself. *)
LEMMA InnerKept ==
  ASSUME NEW conf, NEW map \in SUBSET Modules, NEW st \in [Modules -> States],
         NEW f \in Frames, f.at = "request", Local(conf, map, st, f, {}), st[f.mod] # error,
         NEW v, Between(st[f.mod], v, f.target),
         Needs(conf, f.mod) \subseteq Modules, f.mod \notin Needs(conf, f.mod),
         NEW x, x.at = "request", x.mod = f.mod, x.target = f.target, x.caller = f.caller,
         x.rest = Requests(v, f.target)
  PROVE  Local(conf, map, [st EXCEPT ![f.mod] = v], x, {})
<1> DEFINE st2 == [st EXCEPT ![f.mod] = v]
<1>1. f.mod \in Modules /\ f.caller \subseteq Modules
  BY DEF Frames
<1>2. st2[f.mod] = v /\ \A m \in Modules : m # f.mod => st2[m] = st[m]
  BY <1>1
<1>3. /\ f.target \in States \ {error} /\ v \in States \ {error} /\ st[f.mod] \in States
      /\ f.target = boot => Lv(st[f.mod]) = init /\ Lv(v) = init
  BY RequestKnows
<1> HIDE DEF st2
<1>4. Low(st, f) => Low(st2, x)
  BY <1>2 DEF Low, Between
<1>5. CalledLow(st2, x, {})
  <2>1. x.target = boot => Low(st2, x)
    BY <1>2, <1>3, LvOf DEF Low
  <2> QED BY <2>1 DEF CalledLow
<1>6. CallerLow(conf, st2, x)
  <2> SUFFICES ASSUME f.mod \notin f.caller, NEW k \in f.caller, f.mod \in Below(conf, k)
               PROVE  \E m \in f.caller : f.mod \in Needs(conf, m) /\ Lv(st2[m]) <= Lv(f.target)
    BY DEF CallerLow
  <2>1. PICK m \in f.caller : f.mod \in Needs(conf, m) /\ Lv(st[m]) <= Lv(f.target)
    BY DEF Local, CallerLow
  <2> QED BY <1>1, <1>2, <2>1
<1>7. NeedsUp(conf, st2, x, {})
  <2>1. \A d \in Needs(conf, f.mod) : st2[d] = st[d]
    BY <1>2
  <2> QED BY <2>1 DEF Local, NeedsUp
<1>8. NeededLow(conf, map, st2, x, {})
  <2> SUFFICES ASSUME ~Low(st2, x), NEW m \in map, f.mod \in Needs(conf, m)
               PROVE  Lv(st2[m]) <= Lv(f.target)
    BY DEF NeededLow
  <2>1. Lv(st[m]) <= Lv(f.target)
    BY <1>4 DEF Local, NeededLow
  <2>2. m # f.mod
    OBVIOUS
  <2> QED BY <1>2, <2>1, <2>2
<1>9. RestOK(conf, st2, x)
  BY <1>2, <1>3 DEF RestOK
<1> QED BY <1>5, <1>6, <1>7, <1>8, <1>9 DEF Local, st2

(* What a step of set_state changes. *)
StepUp(t) ==
  /\ \A m \in Modules : state'[m] # error
  /\ \A m \in Modules \ Here : state'[m] = state[m]
  /\ Supported(config, module_map, state')
  /\ UpStack(config, module_map, Here, state', stack'[t])

LEMMA MovedUp ==
  ASSUME Straight, TypeOK, Supported(config, module_map, state),
         \A m \in Modules : state[m] # error, NEW t \in Threads, Up(t), At(t, "request"),
         NEW v, Between(state[Top(t).mod], v, Top(t).target),
         state' = [state EXCEPT ![Top(t).mod] = v]
  PROVE  /\ \A m \in Modules : state'[m] # error
         /\ \A m \in Modules \ Here : state'[m] = state[m]
         /\ Supported(config, module_map, state')
<1> DEFINE f == Top(t)
           p == Top(t).mod
<1>1. /\ stack[t] # <<>> /\ f.at = "request" /\ state \in [Modules -> States]
      /\ module_map \in SUBSET Modules
  BY DEF At, TypeOK
<1>2. /\ f \in Frames /\ p \in Modules /\ p \in Here /\ config \in Configs
      /\ Local(config, module_map, state, f, {})
  BY <1>1, TopOf, TopIsUp
<1>3. \A m \in Modules : Needs(config, m) \subseteq Modules /\ m \notin Needs(config, m)
  BY <1>2, NeedsOf
<1>4. /\ v \in States \ {error}
      /\ Lv(state[p]) < Lv(v) => \A d \in Needs(config, p) : Lv(v) <= Lv(state[d])
      /\ Lv(v) < Lv(state[p]) =>
           \A m \in module_map : p \in Needs(config, m) => Lv(state[m]) <= Lv(v)
  <2>1. Between(state[f.mod], v, f.target) /\ state[f.mod] # error /\ Needs(config, f.mod) \subseteq Modules
    BY <1>2, <1>3
  <2> HIDE DEF f
  <2> QED BY <1>1, <1>2, <2>1, RequestKnows DEF f
<1> HIDE DEF p
<1>5. Supported(config, module_map, [state EXCEPT ![p] = v])
  BY <1>1, <1>2, <1>3, <1>4, SupportedWhenMoved
<1>6. state' = [state EXCEPT ![p] = v]
  BY DEF p
<1> QED BY <1>1, <1>2, <1>4, <1>5, <1>6

LEMMA RequestUp ==
  ASSUME Straight, TypeOK, Supported(config, module_map, state),
         \A m \in Modules : state[m] # error, NEW t \in Threads, Up(t), Good(t), Request(t)
  PROVE  StepUp(t)
<1> DEFINE f == Top(t)
           s == stack[t]
           v == Head(f.rest)
<1>1. /\ At(t, "request") /\ s # <<>> /\ f.at = "request" /\ state \in [Modules -> States]
      /\ module_map \in SUBSET Modules /\ state' = [state EXCEPT ![f.mod] = v]
  BY DEF Request, At, TypeOK
<1>2. /\ f \in Frames /\ f.mod \in Modules /\ f.mod \in Here /\ config \in Configs /\ StackOK(s)
      /\ f = s[1] /\ Local(config, module_map, state, f, {}) /\ f.target \in States
      /\ FrameOK(f)
  BY <1>1, TopOf, TopIsUp
<1>3. f.rest = Requests(state[f.mod], f.target) /\ f.target # error
  BY <1>1, <1>2 DEF Local, RestOK
<1>4. /\ f.rest # <<>> /\ Between(state[f.mod], v, f.target)
      /\ Tail(f.rest) = <<>> => v = f.target
      /\ Tail(f.rest) # <<>> => Tail(f.rest) = Requests(v, f.target)
  <2>1. state[f.mod] \in States \ {error} /\ f.target \in States \ {error}
    BY <1>1, <1>2, <1>3
  <2> DEFINE q == f.rest
  <2>2. q = Requests(state[f.mod], f.target)
    BY <1>3
  <2> HIDE DEF q, f
  <2> QED BY <2>1, <2>2, RequestsLead DEF q
<1>5. /\ \A m \in Modules : state'[m] # error
      /\ \A m \in Modules \ Here : state'[m] = state[m]
      /\ Supported(config, module_map, state')
  BY <1>1, <1>4, MovedUp
<1>6. \A i \in 2 .. Len(s) : UpFrame(config, module_map, Here, state', s, i)
  <2> HIDE DEF s, v, f
  <2>1. /\ UpStack(config, module_map, Here, state, s) /\ GoodStack(config, state, s)
        /\ state[s[1].mod] # error /\ Between(state[s[1].mod], v, s[1].target)
        /\ s[1].at = "request"
    BY <1>1, <1>2, <1>4 DEF Up, Good, s
  <2>2. \A i \in 2 .. Len(s) :
          UpFrame(config, module_map, Here, [state EXCEPT ![s[1].mod] = v], s, i)
    BY <1>1, <1>2, <2>1, OuterKept
  <2> QED BY <1>1, <1>2, <2>2
<1>7. CASE Tail(f.rest) = <<>> /\ Return(t)
  <2>1. state'[s[1].mod] = s[1].target
    BY <1>1, <1>2, <1>4, <1>7
  <2>2. SetStack(t, Tail(s))
    BY <1>7 DEF Return
  <2>3. stack'[t] = Tail(s)
    BY <2>2, SetStackStep
  <2> HIDE DEF s, f, v
  <2>4. UpStack(config, module_map, Here, state', Tail(s))
    BY <1>1, <1>2, <1>6, <2>1, UpWhenReturned
  <2> QED BY <1>5, <2>3, <2>4 DEF StepUp
<1>8. CASE Tail(f.rest) # <<>> /\ GoOn(t, "request", Tail(f.rest))
  <2> DEFINE x == [f EXCEPT !.at = "request", !.rest = Tail(f.rest)]
             r == <<x>> \o Tail(s)
  <2>1. Tail(f.rest) \in Seq(States)
    BY <1>1, <1>2, <1>4 DEF FrameOK
  <2>2. /\ x \in Frames /\ x.at = "request" /\ x.mod = f.mod /\ x.target = f.target
        /\ x.caller = f.caller /\ x.rest = Requests(v, f.target)
    BY <1>2, <1>4, <1>8, <2>1 DEF Frames
  <2>3. SetStack(t, r)
    BY <1>8 DEF GoOn
  <2> HIDE DEF x
  <2>4. Local(config, module_map, state', x, {})
    <3>1. Needs(config, f.mod) \subseteq Modules /\ f.mod \notin Needs(config, f.mod)
      BY <1>2, NeedsOf
    <3>2. state[f.mod] # error
      BY <1>2
    <3> HIDE DEF f, v
    <3>3. Local(config, module_map, [state EXCEPT ![f.mod] = v], x, {})
      BY <1>1, <1>2, <1>4, <2>2, <3>1, <3>2, InnerKept
    <3> QED BY <1>1, <3>3
  <2>5. Same(s[1], x) /\ s[1].caller \subseteq x.caller /\ x.mod \in Here
    BY <1>2, <2>2 DEF Same
  <2> HIDE DEF r
  <2>6. stack'[t] = r
    BY <2>3, SetStackStep
  <2> HIDE DEF s, f, v
  <2>7. UpStack(config, module_map, Here, state', r)
    BY <1>1, <1>2, <1>6, <2>2, <2>4, <2>5, UpWhenReplaced DEF r
  <2> QED BY <1>5, <2>6, <2>7 DEF StepUp
<1> QED BY <1>7, <1>8 DEF Request

LEMMA RequestFailsUp ==
  ASSUME Straight, TypeOK, Supported(config, module_map, state),
         \A m \in Modules : state[m] # error, NEW t \in Threads, Up(t), RequestFails(t)
  PROVE  StepUp(t)
<1> DEFINE f == Top(t)
           v == Head(f.rest)
           hooks == Hooks(state[f.mod], v)
<1>1. /\ At(t, "request") /\ stack[t] # <<>> /\ f.at = "request" /\ Throw(t)
      /\ state \in [Modules -> States]
  BY DEF RequestFails, At, TypeOK
<1>2. /\ f \in Frames /\ f.mod \in Modules /\ Local(config, module_map, state, f, {})
      /\ f.target \in States
  BY <1>1, TopOf, TopIsUp
<1>3. PICK k \in DOMAIN hooks : state' = [state EXCEPT ![f.mod] = hooks[k][1]]
  BY DEF RequestFails
<1>4. state[f.mod] \in States \ {error} /\ f.target \in States \ {error}
      /\ f.rest = Requests(state[f.mod], f.target)
  BY <1>1, <1>2 DEF Local, RestOK
<1>5. Between(state[f.mod], v, f.target)
  <2> DEFINE q == f.rest
  <2>1. q = Requests(state[f.mod], f.target)
    BY <1>4
  <2> HIDE DEF q, f
  <2> QED BY <1>4, <2>1, RequestsLead DEF q
<1> DEFINE w == hooks[k][1]
<1>6. Between(state[f.mod], w, v)
  <2>1. v \in States \ {error}
    BY <1>5 DEF Between
  <2> HIDE DEF v, f
  <2> QED BY <1>4, <2>1, HooksBetween
<1>7. Between(state[f.mod], w, f.target)
  <2> HIDE DEF w, v, f
  <2> QED BY <1>4, <1>5, <1>6, BetweenAgain
<1>8. /\ \A m \in Modules : state'[m] # error
      /\ \A m \in Modules \ Here : state'[m] = state[m]
      /\ Supported(config, module_map, state')
  <2>1. state' = [state EXCEPT ![Top(t).mod] = w]
    BY <1>3
  <2> HIDE DEF w
  <2> QED BY <1>1, <1>7, <2>1, MovedUp
<1>9. stack'[t] = <<>>
  BY <1>1, ThrowUp
<1> QED BY <1>8, <1>9, NothingIsUp DEF StepUp

LEMMA SetStateUp ==
  ASSUME Straight, TypeOK, Supported(config, module_map, state),
         \A m \in Modules : state[m] # error, NEW t \in Threads, Up(t), Good(t), SetState(t)
  PROVE  StepUp(t)
<1>1. CASE Enter(t) \/ Depends(t) \/ Dependents(t) \/ Excludes(t) \/ Apply(t)
  <2>1. UNCHANGED state
    BY <1>1 DEF Enter, Depends, Dependents, Excludes, Apply
  <2>2. UpNow(t)
    BY <1>1, EnterUp, DependsUp, DependentsUp, ExcludesUp, ApplyUp
  <2> QED BY <2>1, <2>2 DEF StepUp, UpNow
<1>2. CASE Request(t) \/ RequestFails(t)
  BY <1>2, RequestUp, RequestFailsUp
<1> QED BY <1>1, <1>2 DEF SetState

(* What every other step of the system leaves alone: modules stay at their *)
(* levels, those that come into the map are down, and a module goes out of *)
(* it only when it is down and no call is active, or when robotkernel ends. *)
Steady ==
  /\ \A t \in Bridges : pc'[t] \in {"idle", "set_state", "remove"}
  /\ module_map' \subseteq Modules
  /\ \A m \in Modules : Lv(state'[m]) = Lv(state[m]) /\ state'[m] # error
  /\ \A m \in Here : state'[m] = state[m]
  /\ \A m \in module_map' \ module_map : Lv(state[m]) = init
  /\ Here \subseteq Here' \/ \A t \in Threads : stack'[t] = <<>>
  /\ \A m \in Modules \ Here' : Lv(state[m]) = init

LEMMA NeedsAre ==
  ASSUME NEW conf \in Configs, NEW m \in Modules
  PROVE  Needs(conf, m) \subseteq Modules
<1>1. conf.depends[m] \in Seq(Modules \ {m})
  BY ConfigAssumption
<1> QED BY <1>1 DEF Needs, ToSet

LEMMA KeptUp ==
  ASSUME NEW conf \in Configs, NEW map, NEW map2 \in SUBSET Modules, NEW here, NEW here2, NEW st, NEW st2,
         NEW s, StackOK(s), UpStack(conf, map, here, st, s), here \subseteq here2,
         \A m \in Modules : Lv(st2[m]) = Lv(st[m]), \A m \in here : st2[m] = st[m],
         st2 \in [Modules -> States],
         \A m \in map2 \ map : Lv(st2[m]) = init
  PROVE  UpStack(conf, map2, here2, st2, s)
<1> SUFFICES ASSUME NEW i \in 1 .. Len(s)
             PROVE  UpFrame(conf, map2, here2, st2, s, i)
  BY DEF UpStack
<1> DEFINE f == s[i]
           over == Over(s, i)
<1>1. UpFrame(conf, map, here, st, s, i) /\ Len(s) \in Nat
  BY DEF UpStack, StackOK
<1>2. /\ \A j \in 1 .. i : s[j] \in Frames /\ s[j].mod \in Modules /\ s[j].target \in States
                           /\ s[j].caller \subseteq Modules
  <2> SUFFICES ASSUME NEW j \in 1 .. i
               PROVE  s[j] \in Frames
    BY DEF Frames
  <2>1. j \in 1 .. Len(s)
    BY <1>1
  <2> QED BY <2>1 DEF StackOK
<1>3. f \in Frames /\ f.mod \in Modules /\ f.target \in States /\ f.caller \subseteq Modules
  BY <1>1, <1>2
<1>4. /\ Needs(conf, f.mod) \subseteq Modules
      /\ f.at = "depends" => ToSet(f.rest) \subseteq Modules
  <2>1. FrameOK(f)
    BY DEF StackOK
  <2> QED BY <1>3, <2>1, NeedsAre DEF FrameOK, Loops, ToSet
<1>5. Local(conf, map, st, f, over) /\ (f.at # "enter" => f.mod \in here)
  BY <1>1 DEF UpFrame
<1>6. Low(st2, f) <=> Low(st, f)
  BY <1>3 DEF Low
<1> HIDE DEF f, over
<1>7. CalledLow(st2, f, over)
  BY <1>5, <1>6 DEF Local, CalledLow
<1>8. CallerLow(conf, st2, f)
  BY <1>3, <1>5 DEF Local, CallerLow
<1>9. NeedsUp(conf, st2, f, over)
  <2>1. f.at = "depends" => \A d \in ToSet(f.rest) : Lv(st2[f.mod]) <= Lv(st2[d])
    <3> SUFFICES ASSUME f.at = "depends", NEW d \in ToSet(f.rest)
                 PROVE  Lv(st2[f.mod]) <= Lv(st2[d])
      OBVIOUS
    <3>1. Lv(st[f.mod]) <= Lv(st[d])
      BY <1>5 DEF Local, NeedsUp
    <3>2. d \in Modules
      BY <1>4
    <3> QED BY <1>3, <3>1, <3>2
  <2> QED BY <1>4, <1>5, <2>1 DEF Local, NeedsUp
<1>10. NeededLow(conf, map2, st2, f, over)
  <2> SUFFICES ASSUME f.at \notin {"enter", "depends"}, ~Low(st, f), NEW m \in map2,
                      f.mod \in Needs(conf, m)
               PROVE  \/ Lv(st2[m]) <= Lv(f.target)
                      \/ f.at = "dependents" /\ (On(over, m, init) \/ (m \in ToSet(f.rest) /\ f.mod \notin f.caller))
    BY <1>6 DEF NeededLow
  <2>1. CASE m \in map
    BY <1>5, <2>1 DEF Local, NeededLow
  <2>2. CASE m \notin map
    BY <1>3, <2>2, LvOf
  <2> QED BY <2>1, <2>2
<1>11. RestOK(conf, st2, f)
  BY <1>5 DEF Local, RestOK
<1>12. \A j \in 1 .. i - 1 : Pair(conf, st2, f, s[j])
  <2> SUFFICES ASSUME NEW j \in 1 .. i - 1
               PROVE  Pair(conf, st2, f, s[j])
    OBVIOUS
  <2>1. Pair(conf, st, f, s[j]) /\ s[j].mod \in Modules
    BY <1>1, <1>2 DEF UpFrame, f
  <2> QED BY <2>1 DEF Pair
<1> QED BY <1>5, <1>7, <1>8, <1>9, <1>10, <1>11, <1>12 DEF UpFrame, Local, f, over

LEMMA BegunIsUp ==
  ASSUME NEW conf, NEW map, NEW here, NEW st, NEW m, NEW target
  PROVE  UpStack(conf, map, here, st, <<Frame(m, target, {})>>)
<1> DEFINE x == Frame(m, target, {})
           s == <<x>>
<1>1. x.at = "enter" /\ x.caller = {}
  BY DEF Frame
<1> HIDE DEF x
<1>2. Len(s) = 1 /\ s[1] = x /\ 1 .. 1 - 1 = {} /\ \A i \in 1 .. 1 : i = 1
  OBVIOUS
<1> HIDE DEF s
<1>3. Local(conf, map, st, x, {})
  BY <1>1, BegunLocal
<1>4. UpFrame(conf, map, here, st, s, 1)
  BY <1>1, <1>2, <1>3 DEF UpFrame, Over
<1> QED BY <1>2, <1>4 DEF UpStack, s, x

LEMMA SteadyUp ==
  ASSUME TypeOK, TypeOK', UpInv, Steady, Besides, UNCHANGED config
  PROVE  UpInv'
<1>1. /\ config \in Configs /\ state \in [Modules -> States] /\ state' \in [Modules -> States]
      /\ module_map \subseteq Modules /\ module_map' \subseteq Modules
      /\ stack \in [Threads -> Seq(Frames)] /\ \A t \in Threads : StackOK(stack[t])
  BY DEF TypeOK
<1>2. \A m \in Modules : state'[m] # error
  BY DEF Steady
<1>3. Supported(config, module_map', state')
  <2> SUFFICES ASSUME NEW m \in module_map', NEW d \in Needs(config, m)
               PROVE  Lv(state'[m]) <= Lv(state'[d])
    BY DEF Supported
  <2>1. m \in Modules /\ d \in Modules /\ state'[m] \in States /\ state'[d] \in States
    BY <1>1, NeedsAre
  <2>2. CASE m \in module_map
    BY <2>1, <2>2 DEF Supported, Steady, UpInv
  <2>3. CASE m \notin module_map
    BY <2>1, <2>3, LvOf DEF Steady
  <2> QED BY <2>2, <2>3
<1>4. \A m \in Modules \ Here' : Lv(state'[m]) = init
  BY DEF Steady
<1>5. ASSUME NEW t \in Threads
      PROVE  UpStack(config, module_map', Here', state', stack'[t])
  <2>1. CASE stack'[t] = <<>>
    BY <2>1, NothingIsUp
  <2>2. CASE stack'[t] # <<>> /\ UNCHANGED stack
    <3>1. Here \subseteq Here' /\ UpStack(config, module_map, Here, state, stack[t])
      BY <2>2 DEF Steady, UpInv
    <3>2. /\ \A m \in Modules : Lv(state'[m]) = Lv(state[m])
          /\ \A m \in Here : state'[m] = state[m]
          /\ \A m \in module_map' \ module_map : Lv(state'[m]) = init
      BY <1>1 DEF Steady
    <3>3. UpStack(config, module_map', Here', state', stack[t])
      BY <1>1, <3>1, <3>2, KeptUp
    <3> QED BY <2>2, <3>3
  <2>3. CASE \E u \in Threads : \E m, target : Begin(u, m, target)
    <3>0. PICK u \in Threads : \E m, target : Begin(u, m, target)
      BY <2>3
    <3>1. PICK m, target : Begin(u, m, target)
      BY <3>0
    <3>2. CASE u = t
      <4> DEFINE s == <<Frame(m, target, {})>>
      <4>1. stack' = [stack EXCEPT ![t] = s]
        BY <3>1, <3>2 DEF Begin
      <4>2. UpStack(config, module_map', Here', state', s)
        BY BegunIsUp
      <4> HIDE DEF s
      <4>3. stack'[t] = s
        BY <1>1, <4>1
      <4> QED BY <4>2, <4>3
    <3>3. CASE u # t
      <4>1. stack'[t] = stack[t]
        BY <1>1, <3>1, <3>3 DEF Begin
      <4>2. Here \subseteq Here' /\ UpStack(config, module_map, Here, state, stack[t])
        BY <3>0, <3>1, <1>1, <2>1 DEF Steady, UpInv, Begin
      <4>3. /\ \A m_1 \in Modules : Lv(state'[m_1]) = Lv(state[m_1])
            /\ \A m_1 \in Here : state'[m_1] = state[m_1]
            /\ \A m_1 \in module_map' \ module_map : Lv(state'[m_1]) = init
        BY <1>1 DEF Steady
      <4>4. UpStack(config, module_map', Here', state', stack[t])
        BY <1>1, <4>2, <4>3, KeptUp
      <4> QED BY <4>1, <4>4
    <3> QED BY <3>2, <3>3
  <2> QED BY <2>1, <2>2, <2>3 DEF Besides
<1> QED BY <1>2, <1>3, <1>4, <1>5 DEF UpInv, Steady

(* The main thread, outside set_state. *)
LEMMA MainSteady ==
  ASSUME IInv, TypeOK', UpInv, MainStep \/ Signal, ~SetState(Main), Acts(Main)
  PROVE  Steady
<1>1. TypeOK
  BY DEF IInv
<1>2. UNCHANGED state /\ module_map' \subseteq module_map /\ (Erase \/ module_map' = module_map)
  BY DEF MainStep, StartPowerUp, StartStateCheck, LockAndLoop, PowerUp, StateCheck, Shutdown,
         Erase, Signal
<1>3. \A t \in Bridges : pc'[t] = pc[t]
  BY <1>1, MainIsThread DEF Acts, TypeOK
<1>4. Ending => Ending'
  <2>1. CASE pc[Main] = "shutdown"
    <3>1. Shutdown
      BY <2>1 DEF MainStep, StartPowerUp, StartStateCheck, LockAndLoop, PowerUp, StateCheck,
                  Idle, Erase, Signal
    <3>2. pc'[Main] \in {"shutdown", "erase"}
      BY <1>1, <3>1, MainIsThread DEF Shutdown, Loop, Goto, TypeOK
    <3> QED BY <3>2 DEF Ending
  <2>2. CASE pc[Main] \in {"erase", "done"}
    <3>1. Erase
      BY <2>2 DEF MainStep, StartPowerUp, StartStateCheck, LockAndLoop, PowerUp, StateCheck,
                  Idle, Shutdown, Signal
    <3>2. pc'[Main] \in {"erase", "done"}
      BY <1>1, <2>2, <3>1, MainIsThread DEF Erase, Goto, TypeOK
    <3> QED BY <3>2 DEF Ending
  <2> QED BY <2>1, <2>2 DEF Ending
<1>5. Erase => Ending'
  BY <1>4 DEF Erase, Ending
<1>6. /\ Here \subseteq Here' /\ \A m \in Modules \ Here' : Lv(state[m]) = init
  BY <1>1, <1>2, <1>4, <1>5, HereOf DEF Here, UpInv, TypeOK
<1> QED BY <1>1, <1>2, <1>3, <1>6 DEF Steady, UpInv, TypeOK

(* While a bridge removes a module and robotkernel does not end, no call   *)
(* but its own is active.                                                  *)
LEMMA AloneWhenRemoving ==
  ASSUME OneCaller, IInv, NEW t \in Bridges, pc[t] = "remove", stack[t] = <<>>, ~Ending
  PROVE  \A u \in Threads : stack[u] = <<>>
<1>1. /\ TypeOK /\ LockInv /\ StackInv /\ t \in Threads /\ Main \in Threads /\ t # Main
  BY MainIsThread DEF IInv
<1>2. module_map_mtx = t
  BY <1>1, SetsOfBridge DEF LockInv
<1>3. pc[Main] \in MainStages /\ pc[Main] \notin Holding(Main)
  BY <1>1, <1>2, SetsOfMain DEF TypeOK, LockInv
<1>4. pc[Main] \in Resting(Main)
  BY <1>3, SetsOfMain DEF Ending
<1>5. stack[Main] = <<>>
  BY <1>1, <1>4 DEF StackInv
<1> QED BY <1>5 DEF Threads, OneCaller

(* A bridge, outside set_state. *)
LEMMA BridgeSteady ==
  ASSUME OneCaller, "reconfigure" \notin Calls, IInv, RemoveInv, TypeOK', UpInv,
         NEW t \in Bridges, BridgeStep(t) \/ Serve(t), ~SetState(t), Acts(t)
  PROVE  Steady
<1>1. /\ TypeOK /\ t \in Threads /\ Main \in Threads /\ t # Main
      /\ module_map \subseteq Modules /\ module_map' \subseteq Modules
      /\ state \in [Modules -> States] /\ pc \in [Threads -> MainStages \cup BridgeStages]
  BY MainIsThread DEF IInv, TypeOK
<1>2. pc' = [pc EXCEPT ![t] = pc'[t]]
  BY DEF Acts
<1>3. pc'[Main] = pc[Main] /\ \A u \in Bridges : u # t => pc'[u] = pc[u]
  BY <1>1, <1>2, MainIsThread
<1>4. Ending' <=> Ending
  BY <1>3 DEF Ending
<1>5. pc[t] \in {"idle", "set_state", "remove"} /\ \A u \in Bridges : pc[u] \in {"idle", "set_state", "remove"}
  BY DEF UpInv
<1>6. \/ \E m \in Modules : CallAdd(t, m)
      \/ EndCall(t) /\ module_map' # module_map
      \/ UNCHANGED <<state, module_map>> /\ pc'[t] \in {"idle", "set_state", "remove"}
  <2>1. CASE EndCall(t)
    <3>1. UNCHANGED state /\ pc'[t] = "idle"
      BY <1>1, <2>1 DEF EndCall, Goto
    <3> QED BY <2>1, <3>1
  <2>2. CASE ReconfigureLookup(t) \/ Unconfigure(t) \/ Configure(t)
    BY <1>5, <2>2 DEF ReconfigureLookup, Unconfigure, Configure, Idle
  <2>3. CASE Serve(t)
    <3>1. PICK m \in Modules : \/ \E target \in Targets : CallSetState(t, m, target)
                               \/ CallRemove(t, m) \/ CallAdd(t, m) \/ CallReconfigure(t, m)
      BY <2>3 DEF Serve
    <3>2. CASE \E target \in Targets : CallSetState(t, m, target)
      BY <1>1, <3>2 DEF CallSetState, Goto
    <3>3. CASE CallRemove(t, m)
      BY <1>1, <3>3 DEF CallRemove, Goto
    <3>4. ~CallReconfigure(t, m)
      BY DEF CallReconfigure, Call
    <3> QED BY <3>1, <3>2, <3>3, <3>4
  <2> QED BY <2>1, <2>2, <2>3 DEF BridgeStep
<1>7. CASE UNCHANGED <<state, module_map>> /\ pc'[t] \in {"idle", "set_state", "remove"}
  <2>1. Here' = Here
    BY <1>4, <1>7 DEF Here
  <2> QED BY <1>1, <1>3, <1>5, <1>7, <2>1 DEF Steady, UpInv
<1>8. CASE \E m \in Modules : CallAdd(t, m)
  <2>1. PICK m \in Modules : CallAdd(t, m)
    BY <1>8
  <2>2. /\ m \notin module_map /\ module_map' = module_map \cup {m}
        /\ state' = [state EXCEPT ![m] = init] /\ UNCHANGED pc /\ ~Ending
    BY <2>1 DEF CallAdd, Call, Ending
  <2>3. Here = module_map /\ Here' = module_map'
    BY <1>4, <2>2 DEF Here
  <2>4. Lv(state[m]) = init
    BY <2>2, <2>3 DEF UpInv
  <2>5. /\ state'[m] = init /\ \A k \in Modules : k # m => state'[k] = state[k]
    BY <1>1, <2>2
  <2>6. \A k \in Modules : Lv(state'[k]) = Lv(state[k]) /\ state'[k] # error
    BY <2>4, <2>5, LvOf DEF UpInv
  <2>7. \A k \in Here : state'[k] = state[k]
    BY <1>1, <2>2, <2>3, <2>5
  <2> QED BY <1>1, <1>5, <2>2, <2>3, <2>4, <2>6, <2>7 DEF Steady, UpInv
<1>9. CASE EndCall(t) /\ module_map' # module_map
  <2>1. /\ pc[t] = "remove" /\ ~thrown[t] /\ module_map' = module_map \ {arg[t]}
        /\ stack[t] = <<>> /\ UNCHANGED <<state, stack>> /\ pc'[t] = "idle"
    BY <1>1, <1>9 DEF EndCall, Idle, NoCall, Goto
  <2>2. CASE Ending
    BY <1>1, <1>3, <1>4, <1>5, <2>1, <2>2 DEF Steady, UpInv, Here
  <2>3. CASE ~Ending
    <3>1. \A u \in Threads : stack'[u] = <<>>
      BY <2>1, <2>3, AloneWhenRemoving
    <3>2. Here = module_map /\ Here' = module_map'
      BY <1>4, <2>3 DEF Here
    <3>3. arg[t] \in Modules /\ state[arg[t]] \in {init, error}
      BY <1>1, <2>1, <2>3 DEF RemoveInv, TypeOK
    <3>4. Lv(state[arg[t]]) = init
      BY <3>3, LvOf DEF UpInv
    <3>5. \A m \in Modules \ Here' : Lv(state[m]) = init
      BY <2>1, <3>2, <3>4 DEF UpInv
    <3> QED BY <1>1, <1>3, <1>5, <2>1, <3>1, <3>2, <3>5 DEF Steady, UpInv
  <2> QED BY <2>2, <2>3
<1> QED BY <1>6, <1>7, <1>8, <1>9

LEMMA StraightIsConsistent ==
  ASSUME Straight
  PROVE  Consistent
<1> SUFFICES ASSUME NEW conf \in Configs, NEW m \in Modules,
                    NEW e \in Below(conf, m), e \in Mutual(conf, m)
             PROVE  FALSE
  BY DEF Consistent
<1>1. e \in ToSet(conf.excludes[m])
  BY DEF Mutual
<1> QED BY <1>1, NeedsOf

LEMMA InitUp ==
  ASSUME Init
  PROVE  UpInv
<1>1. /\ config \in Configs /\ state = [m \in Modules |-> init] /\ module_map = Modules
      /\ stack = [t \in Threads |-> <<>>]
      /\ pc = [t \in Threads |-> IF t = Main THEN "start" ELSE "idle"]
  BY DEF Init
<1>2. \A m \in Modules : state[m] = init
  BY <1>1
<1>3. \A t \in Threads : UpStack(config, module_map, Here, state, stack[t])
  BY <1>1, NothingIsUp
<1>4. Supported(config, module_map, state)
  <2> SUFFICES ASSUME NEW m \in Modules, NEW d \in Needs(config, m)
               PROVE  Lv(state[m]) <= Lv(state[d])
    BY <1>1 DEF Supported
  <2>1. d \in Modules
    BY <1>1, NeedsAre
  <2> QED BY <1>2, <2>1, LvOf
<1>5. \A t \in Bridges : pc[t] = "idle"
  BY <1>1, MainIsThread
<1>6. Here = Modules
  BY <1>1 DEF Here
<1> QED BY <1>2, <1>3, <1>4, <1>5, <1>6, LvOf DEF UpInv

LEMMA NextUp ==
  ASSUME ~Overlap, MaySignal = {}, OneCaller, "reconfigure" \notin Calls, Straight,
         IInv, RemoveInv, ExclInv, UpInv, [Next]_vars
  PROVE  UpInv'
<1>1. /\ TypeOK /\ TypeOK'
      /\ \A t, u \in Threads : stack[t] # <<>> /\ stack[u] # <<>> => t = u
  BY NextInv DEF IInv, ExclInv
<1>2. CASE Rests
  <2>1. UNCHANGED <<config, state, module_map, stack, pc>>
    BY <1>2 DEF Rests, threadvars
  <2> QED BY <2>1 DEF UpInv, Here, Ending
<1>3. ASSUME NEW t \in Threads, SetState(t), UNCHANGED config
      PROVE  UpInv'
  <2>1. /\ stack[t] # <<>> /\ stack' = [stack EXCEPT ![t] = stack'[t]]
        /\ UNCHANGED <<pc, module_map>>
    BY <1>1, <1>3, SetStateStep DEF SetStateResult, StackStep
  <2>2. Up(t) /\ Good(t) /\ Supported(config, module_map, state) /\ \A m \in Modules : state[m] # error
    BY DEF UpInv, ExclInv, Up, Good
  <2>3. StepUp(t)
    BY <1>1, <1>3, <2>2, SetStateUp
  <2>4. Here' = Here
    BY <2>1 DEF Here, Ending
  <2>5. \A u \in Threads : u # t => stack'[u] = <<>>
    BY <1>1, <2>1 DEF TypeOK
  <2>6. \A u \in Threads : UpStack(config, module_map, Here, state', stack'[u])
    BY <2>3, <2>5, NothingIsUp DEF StepUp
  <2> QED BY <1>3, <2>1, <2>3, <2>4, <2>6 DEF UpInv, StepUp
<1>4. CASE Next /\ ~\E t \in Threads : SetState(t)
  <2>1. UNCHANGED config /\ Besides
    BY <1>1, <1>4, OtherSteps
  <2>2. CASE (MainStep \/ Signal) /\ Acts(Main)
    <3>1. Steady
      BY <1>1, <1>4, <2>2, MainSteady, MainIsThread
    <3> QED BY <1>1, <2>1, <3>1, SteadyUp
  <2>3. CASE \E t \in Bridges : (BridgeStep(t) \/ Serve(t)) /\ Acts(t)
    <3>1. Steady
      BY <1>1, <1>4, <2>3, BridgeSteady, MainIsThread
    <3> QED BY <1>1, <2>1, <3>1, SteadyUp
  <2>4. ~\E m \in Modules : SignalError(m)
    <3> SUFFICES ASSUME NEW m \in Modules, SignalError(m) PROVE FALSE
      OBVIOUS
    <3>1. state'[m] = error /\ state[m] # error /\ error # init
      BY <1>1, LvOf DEF SignalError, TypeOK
    <3>2. CASE UNCHANGED state
      BY <3>1, <3>2
    <3>3. ASSUME NEW k \in Modules, state' = [state EXCEPT ![k] = init]
          PROVE  FALSE
      <4>1. state'[m] \in {state[m], init}
        BY <1>1, <3>3 DEF TypeOK
      <4> QED BY <3>1, <4>1
    <3> QED BY <2>1, <3>2, <3>3 DEF Besides
  <2> QED BY <1>2, <2>2, <2>3, <2>4, WhoActs
<1>5. CASE UNCHANGED vars
  BY <1>2, <1>5 DEF vars, Rests
<1> QED BY <1>1, <1>2, <1>3, <1>4, <1>5, OtherSteps

(* Whatever services are called and in whatever state modules stay when    *)
(* their hooks throw: when no call is active no module is in a higher      *)
(* state than one it depends on.  The hypotheses are what this takes, see  *)
(* README.md.                                                              *)
THEOREM DependenciesAreUpHolds ==
  ~Overlap /\ MaySignal = {} /\ OneCaller /\ "reconfigure" \notin Calls /\ Straight
    => (Spec => []DependenciesAreUp)
<1> SUFFICES ASSUME ~Overlap, MaySignal = {}, OneCaller, "reconfigure" \notin Calls, Straight
             PROVE  Spec => []DependenciesAreUp
  OBVIOUS
<1>1. Init => RemoveInv /\ ExclInv /\ UpInv
  BY InitRemove, InitExcl, InitUp
<1>2. IInv /\ RemoveInv /\ ExclInv /\ UpInv /\ [Next]_vars => RemoveInv' /\ ExclInv' /\ UpInv'
  BY NextRemove, NextExcl, NextUp, StraightIsConsistent
<1>3. IInv /\ UpInv => DependenciesAreUp
  <2> SUFFICES ASSUME IInv, UpInv, NEW m \in module_map, NEW d \in ToSet(depends[m]) 
               PROVE  Level(m) <= Level(d)
    BY DEF DependenciesAreUp
  <2>1. d \in Needs(config, m)
    BY DEF Needs, depends
  <2> QED BY <2>1 DEF UpInv, Supported, Lv, Level
<1> QED BY <1>1, <1>2, <1>3, Invariance, PTL DEF Spec
=============================================================================
