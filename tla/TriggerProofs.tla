--------------------------- MODULE TriggerProofs ---------------------------
(***************************************************************************)
(* A trigger device for every set of modules, waiters, worker keys and     *)
(* real-time threads and every number of calls: its type invariant, that   *)
(* what has been removed is quiet, and that what is registered is reached. *)
(* And what a trigger_collector, which may be one of its callbacks, says   *)
(* when it calls back.                                                     *)
(***************************************************************************)
EXTENDS Trigger, Collector, WellFoundedInduction, TLAPS

-----------------------------------------------------------------------------
(* Lists: what std::list::push_back and remove do. *)

Less == {p \in Nat \X Nat : p[1] < p[2]}

LEMMA LessIsWellFounded == IsWellFoundedOn(Less, Nat)
  BY NatLessThanWellFounded DEF OpToRel, Less

LEMMA NatMin ==
  ASSUME NEW T \in SUBSET Nat, T # {}
  PROVE  \E n \in T : \A m \in T : n <= m
<1>1. PICK x \in T : \A y \in T : ~(<<y, x>> \in Less)
  BY LessIsWellFounded, WFMin
<1>2. ASSUME NEW y \in T PROVE x <= y
  <2>1. x \in Nat /\ y \in Nat OBVIOUS
  <2>2. ~(<<y, x>> \in Less) BY <1>1
  <2> QED BY <2>1, <2>2 DEF Less
<1> QED BY <1>2

(* k is the table of the removal of x from s, up to the place n. *)
Keeps(s, x, n, k) ==
  k = [i \in 0 .. n |-> IF i = 0 THEN <<>>
                        ELSE IF s[i] = x THEN k[i - 1] ELSE Append(k[i - 1], s[i])]

LEMMA KeepsExists ==
  ASSUME NEW S, NEW s \in Seq(S), NEW x
  PROVE  \E k : Keeps(s, x, Len(s), k)
<1> DEFINE T == {n \in 0 .. Len(s) : ~ \E k : Keeps(s, x, n, k)}
<1>0. Len(s) \in Nat OBVIOUS
<1>1. SUFFICES ASSUME T # {} PROVE FALSE
  BY <1>0
<1>2. T \in SUBSET Nat BY <1>0
<1>3. PICK n \in T : \A m \in T : n <= m
  BY <1>1, <1>2, NatMin
<1>4. n \in 0 .. Len(s) /\ ~ \E k : Keeps(s, x, n, k)
  BY <1>3
<1> HIDE DEF T
<1>5. CASE n = 0
  <2> DEFINE k == [i \in 0 .. 0 |-> <<>>]
  <2>1. Keeps(s, x, 0, k)
    BY DEF Keeps
  <2> QED BY <2>1, <1>4, <1>5
<1>6. CASE n # 0
  <2>1. n - 1 \in 0 .. Len(s) /\ ~ (n <= n - 1) /\ n \in Nat
    BY <1>0, <1>4, <1>6
  <2>2. PICK k : Keeps(s, x, n - 1, k)
    BY <2>1, <1>3 DEF T
  <2> DEFINE kk == [i \in 0 .. n |-> IF i < n THEN k[i]
                       ELSE IF s[n] = x THEN k[n - 1] ELSE Append(k[n - 1], s[n])]
  <2>3. ASSUME NEW i \in 0 .. n
        PROVE kk[i] = IF i = 0 THEN <<>>
                        ELSE IF s[i] = x THEN kk[i - 1] ELSE Append(kk[i - 1], s[i])
    <3>1. CASE i = n
      <4>1. kk[n] = IF s[n] = x THEN k[n - 1] ELSE Append(k[n - 1], s[n])
        BY <2>1
      <4>2. kk[n - 1] = k[n - 1]
        BY <2>1, <1>6
      <4> QED BY <3>1, <4>1, <4>2, <1>6
    <3>2. CASE i # n
      <4>1. i \in 0 .. n - 1 /\ i < n
        BY <2>1, <3>2
      <4>2. kk[i] = k[i]
        BY <4>1
      <4>3. i # 0 => kk[i - 1] = k[i - 1]
        BY <4>1, <2>1
      <4>4. k[i] = IF i = 0 THEN <<>>
                        ELSE IF s[i] = x THEN k[i - 1] ELSE Append(k[i - 1], s[i])
        BY <2>2, <4>1 DEF Keeps
      <4> QED BY <4>2, <4>3, <4>4
    <3> QED BY <3>1, <3>2
  <2>4. Keeps(s, x, n, kk)
    BY <2>3 DEF Keeps
  <2> QED BY <2>4, <1>4
<1> QED BY <1>5, <1>6

(* What Without computes: the elements but x, one that occurs once not    *)
(* more often than that.                                                   *)
LEMMA WithoutList ==
  ASSUME NEW S, NEW s \in Seq(S), NEW x
  PROVE  /\ Without(s, x) \in Seq(S)
         /\ ToSet(Without(s, x)) = ToSet(s) \ {x}
         /\ \A y : Once(s, y) => Once(Without(s, x), y)
<1> DEFINE k == CHOOSE k : Keeps(s, x, Len(s), k)
           Places(i) == {y \in S : \E j \in 1 .. i : s[j] = y}
           Good(i) == /\ k[i] \in Seq(S)
                      /\ ToSet(k[i]) = {y \in S : y # x /\ \E j \in 1 .. i : s[j] = y}
                      /\ \A y : Once(s, y) => Once(k[i], y)
           T == {n \in 0 .. Len(s) : ~ Good(n)}
<1>0. Len(s) \in Nat /\ \A j \in 1 .. Len(s) : s[j] \in S
  OBVIOUS
<1>1. Keeps(s, x, Len(s), k)
  BY KeepsExists
<1>2. Without(s, x) = k[Len(s)]
  BY DEF Without, Keeps
<1> HIDE DEF k
<1>3. /\ k[0] = <<>>
      /\ \A i \in 1 .. Len(s) :
           k[i] = IF s[i] = x THEN k[i - 1] ELSE Append(k[i - 1], s[i])
  <2>1. ASSUME NEW i \in 0 .. Len(s)
        PROVE  k[i] = IF i = 0 THEN <<>>
                      ELSE IF s[i] = x THEN k[i - 1] ELSE Append(k[i - 1], s[i])
    BY <1>1 DEF Keeps
  <2>2. 0 \in 0 .. Len(s) /\ \A i \in 1 .. Len(s) : i \in 0 .. Len(s) /\ i # 0
    BY <1>0
  <2> QED BY <2>1, <2>2
<1>4. Good(0)
  BY <1>3 DEF ToSet, Once
<1>5. ASSUME NEW n \in 1 .. Len(s), Good(n - 1) PROVE Good(n)
  <2> DEFINE q == k[n - 1]
  <2>0. n \in Nat /\ n - 1 \in 0 .. Len(s) /\ 1 .. n = (1 .. n - 1) \cup {n}
    BY <1>0
  <2>1. CASE s[n] = x
    BY <2>0, <2>1, <1>3, <1>5
  <2>2. CASE s[n] # x
    <3>1. k[n] = Append(q, s[n]) /\ q \in Seq(S) /\ s[n] \in S
      BY <2>2, <1>3, <1>5, <1>0
    <3> HIDE DEF q
    <3>2. /\ k[n] \in Seq(S) /\ Len(k[n]) = Len(q) + 1 /\ Len(q) \in Nat
          /\ k[n][Len(q) + 1] = s[n]
          /\ \A j \in 1 .. Len(q) : k[n][j] = q[j]
      BY <3>1
    <3>3. ToSet(k[n]) = ToSet(q) \cup {s[n]}
      <4>1. DOMAIN k[n] = 1 .. Len(q) + 1 /\ DOMAIN q = 1 .. Len(q)
        BY <3>1, <3>2
      <4>2. 1 .. Len(q) + 1 = (1 .. Len(q)) \cup {Len(q) + 1}
        BY <3>2
      <4> HIDE DEF Good
      <4> QED BY <4>1, <4>2, <3>2 DEF ToSet
    <3>4. ToSet(k[n]) = {y \in S : y # x /\ \E j \in 1 .. n : s[j] = y}
      BY <3>3, <1>5, <2>0, <2>2, <3>1 DEF q
    <3>5. ASSUME NEW y, Once(s, y) PROVE Once(k[n], y)
      <4>1. Once(q, y)
        BY <1>5, <3>5 DEF q
      <4>2. CASE y # s[n]
        BY <3>1, <3>2, <4>1, <4>2 DEF Once
      <4>3. CASE y = s[n]
        <5>1. \A j \in 1 .. n - 1 : s[j] # y
          BY <3>5, <4>3, <1>0, <2>0 DEF Once
        <5>2. y \notin ToSet(q)
          BY <5>1, <1>5 DEF q
        <5> QED BY <5>2, <3>1, <3>2, <4>3 DEF Once, ToSet
      <4> QED BY <4>2, <4>3
    <3> QED BY <3>2, <3>4, <3>5
  <2> QED BY <2>1, <2>2
<1> HIDE DEF Good
<1>6. T = {}
  <2>1. SUFFICES ASSUME T # {} PROVE FALSE
    OBVIOUS
  <2>2. PICK n \in T : \A m \in T : n <= m
    <3>1. T \in SUBSET Nat
      BY <1>0
    <3> HIDE DEF T
    <3> QED BY <2>1, <3>1, NatMin
  <2>3. n \in 0 .. Len(s) /\ ~Good(n)
    BY <2>2
  <2>4. n # 0
    BY <2>3, <1>4
  <2>5. n \in 1 .. Len(s) /\ n - 1 \in 0 .. Len(s) /\ ~ (n <= n - 1)
    BY <2>3, <2>4, <1>0
  <2>6. Good(n - 1)
    BY <2>2, <2>5
  <2> QED BY <2>3, <2>5, <2>6, <1>5
<1>7. Good(Len(s))
  BY <1>0, <1>6
<1>8. ToSet(s) \ {x} = {y \in S : y # x /\ \E j \in 1 .. Len(s) : s[j] = y}
  BY <1>0 DEF ToSet
<1> QED BY <1>2, <1>7, <1>8 DEF Good

LEMMA AppendedList ==
  ASSUME NEW S, NEW s \in Seq(S), NEW x \in S
  PROVE  /\ Append(s, x) \in Seq(S)
         /\ Append(s, x) # <<>>
         /\ ToSet(Append(s, x)) = ToSet(s) \cup {x}
         /\ \A y : Once(s, y) /\ (y = x => x \notin ToSet(s)) => Once(Append(s, x), y)
<1>1. /\ Append(s, x) \in Seq(S) /\ Len(Append(s, x)) = Len(s) + 1 /\ Len(s) \in Nat
      /\ Append(s, x)[Len(s) + 1] = x
      /\ \A j \in 1 .. Len(s) : Append(s, x)[j] = s[j]
  OBVIOUS
<1>2. /\ DOMAIN Append(s, x) = (1 .. Len(s)) \cup {Len(s) + 1}
      /\ DOMAIN s = 1 .. Len(s)
  BY <1>1
<1> DEFINE q == Append(s, x)
<1> HIDE DEF q
<1>3. ToSet(q) = ToSet(s) \cup {x}
  BY <1>1, <1>2 DEF ToSet, q
<1>4. ASSUME NEW y, Once(s, y), y = x => x \notin ToSet(s) PROVE Once(q, y)
  BY <1>1, <1>2, <1>4 DEF Once, ToSet, q
<1> QED BY <1>1, <1>3, <1>4 DEF q

LEMMA EmptyList ==
  /\ ToSet(<<>>) = {} /\ \A y : Once(<<>>, y)
  /\ \A S : <<>> \in Seq(S) /\ \A s \in Seq(S) : s = <<>> <=> ToSet(s) = {}
  BY DEF ToSet, Once

LEMMA EntryOfList ==
  ASSUME NEW S, NEW s \in Seq(S), NEW i \in Nat \ {0}, i <= Len(s)
  PROVE  s[i] \in ToSet(s) /\ s[i] \in S
  BY DEF ToSet

-----------------------------------------------------------------------------
(* The invariant. *)

Labels == {"idle", "add", "remove", "join", "destroy", "added", "wait", "leave",
           "walk", "call", "start", "tick", "done"}

TypeOK ==
  /\ list_mtx \in Threads \cup {NoOne}
  /\ triggers \in Seq(Entries)
  /\ cnt \in [Entries -> Nat]
  /\ workers \in SUBSET Workers
  /\ list \in [Workers -> Seq(Callbacks)]
  /\ run_flag \in [Workers -> BOOLEAN]
  /\ pc \in [Threads -> Labels]
  /\ \A t \in Callbacks : pc[t] \in {"idle", "add", "remove", "join", "destroy"}
  /\ \A t \in Waiters : pc[t] \in {"idle", "added", "wait", "leave", "remove", "join"}
  /\ \A t \in Tickers : pc[t] \in {"idle", "walk", "call"}
  /\ \A t \in Workers : pc[t] \in {"idle", "start", "wait", "tick", "call", "done"}
  /\ arg \in [Threads -> Entries \cup {NoOne}]
  /\ pos \in [Tickers \cup Workers -> Nat \ {0}]
  /\ todo \in SUBSET Workers
  /\ calls \in Nat /\ ticks \in Nat /\ destroyed \in BOOLEAN
  /\ modes \in [Callbacks -> SUBSET (Workers \cup {"direct"})]

Callers == Callbacks \cup Waiters
Adding(k)  == \E t \in Callbacks : pc[t] = "add" /\ arg[t] = k
Joining(k) == \E t \in Callers : pc[t] = "join" /\ arg[t] = k

(* The destructor does not take list_mtx: nobody else is in a call. *)
Holds(t) ==
  \/ t \in Callers /\ (pc[t] \in {"add", "remove"} \/ (pc[t] = "join" /\ ~destroyed))
  \/ t \in Tickers /\ pc[t] # "idle"

LockInv ==
  /\ \A t \in Threads : Holds(t) <=> list_mtx = t
  /\ \A t \in Callers : pc[t] = "destroy" => destroyed
  /\ destroyed =>
       /\ \A t \in Waiters \cup Tickers : pc[t] = "idle"
       /\ \A t \in Callbacks : pc[t] \in {"idle", "destroy", "join"}
       /\ \A t, u \in Callbacks : pc[t] # "idle" /\ pc[u] # "idle" => t = u

(* A worker is in the map and in the list of the trigger, its thread lives *)
(* and it has a callback, or one is about to be added, or all of this ends.*)
WorkersInv ==
  /\ \A t \in Callbacks : pc[t] = "add" => arg[t] \in workers
  /\ \A t \in Callers : pc[t] = "join" => arg[t] \in Workers \ workers
  /\ \A k \in Workers :
       /\ run_flag[k] <=> k \in workers
       /\ pc[k] # "idle" <=> k \in workers \/ Joining(k)
       /\ pc[k] = "done" => k \notin workers
       /\ list[k] # <<>> => k \in workers \/ (destroyed /\ Joining(k))
       /\ list[k] = <<>> => \/ k \notin workers /\ ~(destroyed /\ Joining(k))
                            \/ Adding(k)
       /\ k \in workers /\ ~destroyed <=> k \in ToSet(triggers)
       /\ Once(triggers, k)

TodoInv ==
  /\ \A t \in Callers : pc[t] \in {"remove", "join"} => todo \subseteq workers
  /\ destroyed => triggers = <<>> /\ ((\E t \in Callbacks : pc[t] # "idle") => todo = workers)
  /\ destroyed /\ (\A t \in Callbacks : pc[t] = "idle") => workers = {}

Removing(t) == pc[t] \in {"remove", "join"}

(* The history agrees with the lists, as far as a call that is removing    *)
(* its callback has got.                                                   *)
RegInv ==
  /\ \A t \in Callbacks :
       /\ t \in ToSet(triggers) => "direct" \in modes[t]
       /\ \A k \in Workers : t \in ToSet(list[k]) => k \in modes[t]
       /\ ~destroyed /\ ~Removing(t) =>
            /\ "direct" \in modes[t] => t \in ToSet(triggers)
            /\ \A k \in Workers : k \in modes[t] => t \in ToSet(list[k])
       /\ ~destroyed /\ Removing(t) =>
            /\ t \notin ToSet(triggers)
            /\ \A k \in Workers : t \in ToSet(list[k]) => k \in todo
  /\ \A w \in Waiters :
       pc[w] \in {"idle", "remove", "join"} => w \notin ToSet(triggers)

(* A callback runs only as long as the list it was found in keeps it. *)
CallInv ==
  /\ \A d \in Tickers : pc[d] = "call" => arg[d] \in ToSet(triggers)
  /\ \A k \in Workers : pc[k] = "call" => arg[k] \in ToSet(list[k])

IInv == TypeOK /\ LockInv /\ WorkersInv /\ TodoInv /\ RegInv /\ CallInv

USE DEF Entries, Threads, Callers

-----------------------------------------------------------------------------
LEMMA InitInv == Init => IInv
<1> SUFFICES ASSUME Init PROVE IInv
  OBVIOUS
<1>0. /\ triggers = <<>> /\ ToSet(triggers) = {} /\ \A k \in Workers : Once(triggers, k)
      /\ \A k \in Workers : list[k] = <<>> /\ ToSet(list[k]) = {}
      /\ triggers \in Seq(Entries) /\ <<>> \in Seq(Callbacks)
  BY EmptyList DEF Init
<1>1. TypeOK
  <2>1. /\ list_mtx \in Threads \cup {NoOne} /\ triggers \in Seq(Entries)
        /\ cnt \in [Entries -> Nat] /\ workers \in SUBSET Workers
        /\ list \in [Workers -> Seq(Callbacks)] /\ run_flag \in [Workers -> BOOLEAN]
    BY <1>0 DEF Init
  <2>2. /\ pc \in [Threads -> Labels] /\ \A t \in Threads : pc[t] = "idle"
        /\ arg \in [Threads -> Entries \cup {NoOne}]
    BY DEF Init, Labels
  <2>3. /\ pos \in [Tickers \cup Workers -> Nat \ {0}] /\ todo \in SUBSET Workers
        /\ calls \in Nat /\ ticks \in Nat /\ destroyed \in BOOLEAN
        /\ modes \in [Callbacks -> SUBSET (Workers \cup {"direct"})]
    <3>1. pos \in [Tickers \cup Workers -> Nat \ {0}]
      BY DEF Init
    <3>2. modes \in [Callbacks -> SUBSET (Workers \cup {"direct"})]
      BY Zenon DEF Init
    <3> QED BY <3>1, <3>2 DEF Init
  <2> QED BY <2>1, <2>2, <2>3 DEF TypeOK
<1>2. LockInv
  BY NoOneAssumption DEF Init, LockInv, Holds
<1>3. WorkersInv
  BY <1>0, DisjointAssumption DEF Init, WorkersInv, Adding, Joining
<1>4. TodoInv
  BY DEF Init, TodoInv
<1>5. RegInv
  BY <1>0 DEF Init, RegInv
<1>6. CallInv
  BY DEF Init, CallInv
<1> QED BY <1>1, <1>2, <1>3, <1>4, <1>5, <1>6 DEF IInv

-----------------------------------------------------------------------------
(* Steps that leave the lists and the workers alone, and the stages of     *)
(* calls that the invariant speaks of.                                     *)

Steady ==
  /\ UNCHANGED <<triggers, workers, list, run_flag, todo, destroyed, modes>>
  /\ \A t \in Callbacks : pc'[t] = pc[t] /\ arg'[t] = arg[t]
  /\ \A w \in Waiters :
       /\ arg'[w] = arg[w]
       /\ pc'[w] = pc[w] \/ (pc[w] # "idle" /\ pc'[w] \in {"wait", "leave"} /\ ~Removing(w))
  /\ \A k \in Workers :
       /\ pc'[k] # "idle" <=> pc[k] # "idle"
       /\ pc'[k] = "done" => pc[k] = "done" \/ ~run_flag[k]

LEMMA SteadyStep ==
  ASSUME IInv, TypeOK', LockInv', CallInv', Steady
  PROVE  IInv'
<1>0. /\ triggers' = triggers /\ workers' = workers /\ list' = list
      /\ run_flag' = run_flag /\ todo' = todo /\ destroyed' = destroyed
      /\ modes' = modes
  BY DEF Steady
<1>1. \A t \in Callers : /\ pc'[t] \in {"join", "remove"} <=> pc[t] \in {"join", "remove"}
                         /\ pc'[t] = "join" <=> pc[t] = "join"
                         /\ arg'[t] = arg[t]
  BY DEF Steady, Removing
<1>2. \A k \in Workers : (Adding(k)' <=> Adding(k)) /\ (Joining(k)' <=> Joining(k))
  BY <1>1 DEF Adding, Joining, Steady
<1>3. WorkersInv'
  <2>1. /\ \A t \in Callbacks : pc'[t] = "add" => arg'[t] \in workers'
        /\ \A t \in Callers : pc'[t] = "join" => arg'[t] \in Workers \ workers'
    BY <1>0, <1>1 DEF IInv, WorkersInv, Steady
  <2>2. ASSUME NEW k \in Workers
        PROVE /\ run_flag'[k] <=> k \in workers'
              /\ pc'[k] # "idle" <=> k \in workers' \/ Joining(k)'
              /\ pc'[k] = "done" => k \notin workers'
    BY <1>0, <1>2 DEF IInv, WorkersInv, Steady
  <2>3. ASSUME NEW k \in Workers
        PROVE /\ list'[k] # <<>> => k \in workers' \/ (destroyed' /\ Joining(k)')
              /\ list'[k] = <<>> => \/ k \notin workers' /\ ~(destroyed' /\ Joining(k)')
                                   \/ Adding(k)'
              /\ k \in workers' /\ ~destroyed' <=> k \in ToSet(triggers')
              /\ Once(triggers', k)
    BY <1>0, <1>2 DEF IInv, WorkersInv
  <2> QED BY <2>1, <2>2, <2>3 DEF WorkersInv
<1>4. TodoInv'
  BY <1>0, <1>1 DEF IInv, TodoInv, Steady
<1>5. RegInv'
  <2>1. ASSUME NEW t \in Callbacks PROVE Removing(t)' <=> Removing(t)
    BY <1>1 DEF Removing
  <2>2. ASSUME NEW w \in Waiters, pc'[w] \in {"idle", "remove", "join"}
        PROVE  w \notin ToSet(triggers')
    BY <2>2, <1>0 DEF IInv, RegInv, Steady
  <2> QED BY <1>0, <2>1, <2>2 DEF IInv, RegInv
<1> QED BY <1>3, <1>4, <1>5 DEF IInv

-----------------------------------------------------------------------------
(* wait() between its registration and its removal. *)

LEMMA WaitSteps ==
  ASSUME IInv, NEW w \in Waiters, WaitBlock(w) \/ WaitReturn(w)
  PROVE  IInv'
<1>0. /\ pc[w] \in {"added", "wait"}
      /\ pc' = [pc EXCEPT ![w] = pc'[w]] /\ pc'[w] \in {"wait", "leave"}
      /\ UNCHANGED <<list_mtx, triggers, workers, list, cnt, run_flag, arg, pos, todo,
                     calls, ticks, destroyed, modes>>
      /\ pc \in [Threads -> Labels]
  BY DEF WaitBlock, WaitReturn, Goto, lists, IInv, TypeOK
<1>1. \A t \in Threads : t # w => pc'[t] = pc[t]
  BY <1>0
<1>2. w \notin Callbacks /\ w \notin Workers /\ w \notin Tickers
  BY DisjointAssumption
<1>3. TypeOK'
  <2>1. pc' \in [Threads -> Labels] /\ pc'[w] \in {"wait", "leave"}
    BY <1>0 DEF Labels
  <2>2. /\ \A t \in Callbacks \cup Tickers \cup Workers : pc'[t] = pc[t]
        /\ \A t \in Waiters : pc'[t] \in {pc[t], "wait", "leave"}
    BY <1>0, <1>1, <1>2
  <2> QED BY <1>0, <2>1, <2>2 DEF IInv, TypeOK
<1>4. LockInv'
  <2>1. \A t \in Threads : Holds(t)' <=> Holds(t)
    BY <1>0, <1>1, <1>2 DEF Holds
  <2>2. ~destroyed
    BY <1>0 DEF IInv, LockInv
  <2> QED BY <1>0, <1>1, <1>2, <2>1, <2>2 DEF IInv, LockInv
<1>5. CallInv'
  BY <1>0, <1>1, <1>2 DEF IInv, CallInv
<1>6. Steady
  BY <1>0, <1>1, <1>2 DEF Steady, Removing
<1> QED BY <1>3, <1>4, <1>5, <1>6, SteadyStep

-----------------------------------------------------------------------------
(* do_trigger. *)

(* A ticker is in a call of do_trigger whenever it holds the lock. *)
LEMMA TickerStep ==
  ASSUME IInv, NEW d \in Tickers,
         UNCHANGED <<triggers, workers, list, run_flag, todo, destroyed, modes>>,
         NEW l \in {"idle", "walk", "call"}, pc' = [pc EXCEPT ![d] = l],
         NEW a \in Entries \cup {NoOne}, arg' = [arg EXCEPT ![d] = a],
         l = "call" => a \in ToSet(triggers),
         ~destroyed,
         list_mtx \in {NoOne, d}, list_mtx' = IF l = "idle" THEN NoOne ELSE d,
         cnt' \in [Entries -> Nat], pos' \in [Tickers \cup Workers -> Nat \ {0}],
         calls' \in Nat, ticks' \in Nat
  PROVE  IInv'
<1>0. /\ d \notin Callbacks /\ d \notin Workers /\ d \notin Waiters /\ d # NoOne
      /\ NoOne \notin Threads
  BY DisjointAssumption, NoOneAssumption
<1>1. /\ \A t \in Threads : t # d => pc'[t] = pc[t] /\ arg'[t] = arg[t]
      /\ pc'[d] = l /\ arg'[d] = a
      /\ pc' \in [Threads -> Labels] /\ arg' \in [Threads -> Entries \cup {NoOne}]
  BY DEF IInv, TypeOK, Labels
<1>2. TypeOK'
  BY <1>0, <1>1 DEF IInv, TypeOK
<1>3. LockInv'
  <2>1. \A t \in Threads : t # d => (Holds(t)' <=> Holds(t)) /\ ~Holds(t)
    BY <1>0, <1>1 DEF Holds, IInv, LockInv
  <2>2. Holds(d)' <=> l # "idle"
    BY <1>0, <1>1 DEF Holds
  <2>3. \A t \in Threads : Holds(t)' <=> list_mtx' = t
    BY <1>0, <2>1, <2>2
  <2> QED BY <1>0, <1>1, <2>3 DEF IInv, LockInv
<1>4. CallInv'
  BY <1>0, <1>1 DEF IInv, CallInv
<1>5. Steady
  BY <1>0, <1>1 DEF Steady
<1> QED BY <1>2, <1>3, <1>4, <1>5, SteadyStep

LEMMA RealTimeStep ==
  ASSUME IInv, NEW d \in Tickers, RealTime(d)
  PROVE  IInv'
<1>0. /\ d \notin Callbacks /\ d \notin Workers /\ d # NoOne /\ NoOne \notin Threads
      /\ pos \in [Tickers \cup Workers -> Nat \ {0}] /\ cnt \in [Entries -> Nat]
      /\ pc \in [Threads -> Labels] /\ arg \in [Threads -> Entries \cup {NoOne}]
      /\ ticks \in Nat /\ calls \in Nat /\ triggers \in Seq(Entries)
  BY DisjointAssumption, NoOneAssumption DEF IInv, TypeOK
<1>1. pc[d] # "idle" => list_mtx = d /\ ~destroyed
  BY DEF IInv, LockInv, Holds
<1>2. arg = [arg EXCEPT ![d] = arg[d]] /\ pc = [pc EXCEPT ![d] = pc[d]]
  BY <1>0
<1>3. CASE DoTrigger(d)
  <2>1. /\ list_mtx = NoOne /\ list_mtx' = d /\ ~destroyed /\ ticks' = ticks + 1
        /\ pc' = [pc EXCEPT ![d] = "walk"]
        /\ UNCHANGED <<triggers, workers, list, run_flag, todo, destroyed, modes, arg,
                       cnt, pos, calls>>
    BY <1>3 DEF DoTrigger, Goto, lists
  <2>2. arg' = [arg EXCEPT ![d] = arg[d]] /\ arg[d] \in Entries \cup {NoOne}
    BY <2>1, <1>0, <1>2
  <2>3. /\ list_mtx \in {NoOne, d} /\ list_mtx' = IF "walk" = "idle" THEN NoOne ELSE d
        /\ cnt' \in [Entries -> Nat] /\ pos' \in [Tickers \cup Workers -> Nat \ {0}]
        /\ calls' \in Nat /\ ticks' \in Nat
    BY <2>1, <1>0
  <2> QED BY <1>0, <2>1, <2>2, <2>3, TickerStep
<1>4. CASE Skip(d) \/ Notify(d)
  <2>1. /\ pc[d] = "walk" /\ pos[d] <= Len(triggers)
        /\ \E c \in Nat : cnt' = [cnt EXCEPT ![At(d)] = c]
        /\ pos' = [pos EXCEPT ![d] = @ + 1]
        /\ UNCHANGED <<list_mtx, triggers, workers, list, run_flag, todo, destroyed, modes,
                       arg, pc, calls, ticks>>
    <3>1. At(d) \in Entries
      BY <1>4, <1>0, EntryOfList DEF Skip, Notify, At
    <3>2. 0 \in Nat /\ cnt[At(d)] + 1 \in Nat
      BY <1>0, <3>1
    <3> QED BY <3>2, <1>0, <1>4, <3>1 DEF Skip, Notify, Advance, lists
  <2>2. At(d) \in Entries
    BY <2>1, <1>0, EntryOfList DEF At
  <2>3. cnt' \in [Entries -> Nat] /\ pos' \in [Tickers \cup Workers -> Nat \ {0}]
    BY <1>0, <2>1, <2>2
  <2>4. /\ arg' = [arg EXCEPT ![d] = arg[d]] /\ arg[d] \in Entries \cup {NoOne}
        /\ pc' = [pc EXCEPT ![d] = "walk"]
    BY <2>1, <1>0, <1>2
  <2> QED BY <1>0, <1>1, <2>1, <2>3, <2>4, TickerStep
<1>5. CASE Tick(d)
  <2>1. /\ pc[d] = "walk" /\ pos[d] <= Len(triggers)
        /\ cnt' = [cnt EXCEPT ![At(d)] = 0]
        /\ pc' = [pc EXCEPT ![d] = "call"] /\ arg' = [arg EXCEPT ![d] = At(d)]
        /\ UNCHANGED <<list_mtx, triggers, workers, list, run_flag, todo, destroyed, modes,
                       pos, calls, ticks>>
    BY <1>5 DEF Tick, Goto, lists
  <2>2. At(d) \in Entries /\ At(d) \in ToSet(triggers)
    BY <2>1, <1>0, EntryOfList DEF At
  <2>3. cnt' \in [Entries -> Nat]
    BY <1>0, <2>1, <2>2
  <2> QED BY <1>0, <1>1, <2>1, <2>2, <2>3, TickerStep
<1>6. CASE TickReturns(d)
  <2>1. /\ pc[d] = "call" /\ pc' = [pc EXCEPT ![d] = "walk"]
        /\ arg' = [arg EXCEPT ![d] = NoOne] /\ pos' = [pos EXCEPT ![d] = @ + 1]
        /\ UNCHANGED <<list_mtx, triggers, workers, list, run_flag, todo, destroyed, modes,
                       cnt, calls, ticks>>
    BY <1>6, <1>0 DEF TickReturns, Goto, Clear, Advance, lists
  <2>2. pos' \in [Tickers \cup Workers -> Nat \ {0}]
    BY <1>0, <2>1
  <2> QED BY <1>0, <1>1, <2>1, <2>2, TickerStep
<1>7. CASE DoTriggerDone(d)
  <2>1. /\ pc[d] = "walk" /\ pc' = [pc EXCEPT ![d] = "idle"] /\ list_mtx' = NoOne
        /\ pos' = [pos EXCEPT ![d] = 1]
        /\ UNCHANGED <<triggers, workers, list, run_flag, todo, destroyed, modes,
                       arg, cnt, calls, ticks>>
    BY <1>7 DEF DoTriggerDone, Goto, lists
  <2>2. pos' \in [Tickers \cup Workers -> Nat \ {0}]
    BY <1>0, <2>1
  <2>3. arg' = [arg EXCEPT ![d] = arg[d]] /\ arg[d] \in Entries \cup {NoOne}
    BY <2>1, <1>0, <1>2
  <2> QED BY <1>0, <1>1, <2>1, <2>2, <2>3, TickerStep
<1> QED BY <1>3, <1>4, <1>5, <1>6, <1>7 DEF RealTime

-----------------------------------------------------------------------------
(* The thread of a worker. *)

LEMMA WorkerStep ==
  ASSUME IInv, NEW k \in Workers,
         UNCHANGED <<list_mtx, triggers, workers, list, cnt, run_flag, todo, calls,
                     ticks, destroyed, modes>>,
         pc[k] # "idle",
         NEW l \in {"wait", "tick", "call", "done"}, pc' = [pc EXCEPT ![k] = l],
         l = "done" => ~run_flag[k],
         NEW a \in Entries \cup {NoOne}, arg' = [arg EXCEPT ![k] = a],
         l = "call" => a \in ToSet(list[k]),
         pos' \in [Tickers \cup Workers -> Nat \ {0}]
  PROVE  IInv'
<1>0. k \notin Callbacks /\ k \notin Tickers /\ k \notin Waiters
  BY DisjointAssumption
<1>1. /\ \A t \in Threads : t # k => pc'[t] = pc[t] /\ arg'[t] = arg[t]
      /\ pc'[k] = l /\ arg'[k] = a
      /\ pc' \in [Threads -> Labels] /\ arg' \in [Threads -> Entries \cup {NoOne}]
  BY DEF IInv, TypeOK, Labels
<1>2. TypeOK'
  BY <1>0, <1>1 DEF IInv, TypeOK
<1>3. LockInv'
  <2>1. \A t \in Threads : Holds(t)' <=> Holds(t)
    BY <1>0, <1>1 DEF Holds
  <2> QED BY <1>0, <1>1, <2>1 DEF IInv, LockInv
<1>4. CallInv'
  BY <1>0, <1>1 DEF IInv, CallInv
<1>5. Steady
  BY <1>0, <1>1 DEF Steady
<1> QED BY <1>2, <1>3, <1>4, <1>5, SteadyStep

LEMMA WorkStep ==
  ASSUME IInv, NEW k \in Workers, Work(k)
  PROVE  IInv'
<1>0. /\ pos \in [Tickers \cup Workers -> Nat \ {0}] /\ pc \in [Threads -> Labels]
      /\ arg \in [Threads -> Entries \cup {NoOne}] /\ list[k] \in Seq(Callbacks)
  BY DEF IInv, TypeOK
<1>1. arg = [arg EXCEPT ![k] = arg[k]] /\ arg[k] \in Entries \cup {NoOne}
  BY <1>0
<1>2. CASE WorkerStart(k) \/ WorkerTimeout(k) \/ WorkerRound(k)
  <2>1. /\ pc[k] # "idle"
        /\ UNCHANGED <<list_mtx, triggers, workers, list, cnt, run_flag, todo, calls,
                       ticks, destroyed, modes>>
        /\ arg' = [arg EXCEPT ![k] = arg[k]]
        /\ pos' \in [Tickers \cup Workers -> Nat \ {0}]
    BY <1>0, <1>1, <1>2 DEF WorkerStart, WorkerTimeout, WorkerRound, lists
  <2> DEFINE l == IF run_flag[k] THEN "wait" ELSE "done"
  <2>2. pc' = [pc EXCEPT ![k] = l]
    BY <1>2 DEF WorkerStart, WorkerTimeout, WorkerRound, SleepOrEnd, Goto
  <2>3. l \in {"wait", "tick", "call", "done"} /\ (l = "done" => ~run_flag[k]) /\ l # "call"
    OBVIOUS
  <2> HIDE DEF l
  <2> QED BY <1>1, <2>1, <2>2, <2>3, WorkerStep
<1>3. CASE WorkerWake(k)
  <2>1. /\ pc[k] # "idle" /\ pc' = [pc EXCEPT ![k] = "tick"]
        /\ UNCHANGED <<list_mtx, triggers, workers, list, cnt, run_flag, todo, calls,
                       ticks, destroyed, modes, pos, arg>>
    BY <1>3 DEF WorkerWake, lists, Goto
  <2>2. arg' = [arg EXCEPT ![k] = arg[k]] /\ pos' \in [Tickers \cup Workers -> Nat \ {0}]
    BY <1>0, <1>1, <2>1
  <2> QED BY <1>1, <2>1, <2>2, WorkerStep
<1>4. CASE WorkerTick(k)
  <2> DEFINE a == list[k][pos[k]]
  <2>1. /\ pc[k] # "idle" /\ pc' = [pc EXCEPT ![k] = "call"]
        /\ arg' = [arg EXCEPT ![k] = a] /\ pos[k] <= Len(list[k])
        /\ UNCHANGED <<list_mtx, triggers, workers, list, cnt, run_flag, todo, calls,
                       ticks, destroyed, modes, pos>>
    BY <1>4 DEF WorkerTick, lists, Goto
  <2>2. a \in ToSet(list[k]) /\ a \in Callbacks
    BY <1>0, <2>1, EntryOfList
  <2>3. pos' \in [Tickers \cup Workers -> Nat \ {0}]
    BY <1>0, <2>1
  <2> HIDE DEF a
  <2> QED BY <2>1, <2>2, <2>3, WorkerStep
<1>5. CASE TickReturns(k)
  <2>1. /\ pc[k] # "idle" /\ pc' = [pc EXCEPT ![k] = "tick"]
        /\ arg' = [arg EXCEPT ![k] = NoOne] /\ pos' = [pos EXCEPT ![k] = @ + 1]
        /\ UNCHANGED <<list_mtx, triggers, workers, list, cnt, run_flag, todo, calls,
                       ticks, destroyed, modes>>
    BY <1>5 DEF TickReturns, Goto, Clear, Advance, lists
  <2>2. pos' \in [Tickers \cup Workers -> Nat \ {0}]
    BY <1>0, <2>1
  <2> QED BY <2>1, <2>2, WorkerStep
<1> QED BY <1>2, <1>3, <1>4, <1>5 DEF Work

-----------------------------------------------------------------------------
(* Who is doing what while the list is free, or held by a call. *)

LEMMA FreeList ==
  ASSUME IInv, list_mtx = NoOne, ~destroyed
  PROVE  /\ \A t \in Callers : pc[t] \notin {"add", "remove", "join", "destroy"}
         /\ \A d \in Tickers : pc[d] = "idle"
         /\ \A k \in Workers : ~Adding(k) /\ ~Joining(k)
<1>1. \A t \in Threads : ~Holds(t)
  BY NoOneAssumption DEF IInv, LockInv
<1>2. \A t \in Callers : pc[t] \notin {"add", "remove", "join", "destroy"}
  BY <1>1 DEF Holds, IInv, LockInv
<1> QED BY <1>1, <1>2 DEF Holds, Adding, Joining

LEMMA HeldList ==
  ASSUME IInv, NEW t \in Callers, Holds(t)
  PROVE  /\ list_mtx = t /\ ~destroyed
         /\ \A u \in Callers : u # t => pc[u] \notin {"add", "remove", "join", "destroy"}
         /\ \A d \in Tickers : pc[d] = "idle"
         /\ \A k \in Workers : /\ Adding(k) <=> pc[t] = "add" /\ arg[t] = k /\ t \in Callbacks
                               /\ Joining(k) <=> pc[t] = "join" /\ arg[t] = k
<1>0. t \notin Tickers /\ t \notin Workers
  BY DisjointAssumption
<1>1. list_mtx = t /\ \A u \in Threads : u # t => ~Holds(u)
  BY DEF IInv, LockInv
<1>2. ~destroyed
  BY <1>0 DEF IInv, LockInv, Holds
<1>3. \A u \in Callers : u # t => pc[u] \notin {"add", "remove", "join", "destroy"}
  BY <1>1, <1>2 DEF Holds, IInv, LockInv
<1> QED BY <1>0, <1>1, <1>2, <1>3 DEF Holds, Adding, Joining

-----------------------------------------------------------------------------
(* add_trigger and the begin of wait(). *)

(* An entry that is not a worker is put into the list of the trigger. *)
LEMMA PutStep ==
  ASSUME IInv, NEW t \in Callers, Call(t),
         triggers' = Append(triggers, t),
         cnt' \in [Entries -> Nat],
         NEW l \in {"idle", "added"}, pc' = [pc EXCEPT ![t] = l],
         l = IF t \in Waiters THEN "added" ELSE "idle",
         modes' = [c \in Callbacks |-> IF c = t THEN modes[c] \cup {"direct"} ELSE modes[c]],
         UNCHANGED <<list_mtx, workers, list, run_flag, arg, pos, todo, ticks, destroyed>>
  PROVE  IInv'
<1>0. /\ t \notin Workers /\ t \notin Tickers /\ "direct" \notin Workers
      /\ ~(t \in Callbacks /\ t \in Waiters)
  BY DisjointAssumption
<1>1. /\ list_mtx = NoOne /\ ~destroyed /\ pc[t] = "idle" /\ calls' \in Nat
  BY DEF Call, IInv, TypeOK
<1>2. /\ \A u \in Callers : pc[u] \notin {"add", "remove", "join", "destroy"}
      /\ \A d \in Tickers : pc[d] = "idle"
      /\ \A k \in Workers : ~Adding(k) /\ ~Joining(k)
  BY <1>1, FreeList
<1>3. /\ \A u \in Threads : u # t => pc'[u] = pc[u]
      /\ pc'[t] = l /\ pc' \in [Threads -> Labels]
  BY DEF IInv, TypeOK, Labels
<1>4. \A k \in Workers : ~Adding(k)' /\ ~Joining(k)'
  BY <1>1, <1>2, <1>3 DEF Adding, Joining
<1>5. /\ triggers' \in Seq(Entries) /\ ToSet(triggers') = ToSet(triggers) \cup {t}
      /\ \A k \in Workers : Once(triggers, k) => Once(triggers', k)
  BY <1>0, AppendedList DEF IInv, TypeOK
<1>6. /\ modes' \in [Callbacks -> SUBSET (Workers \cup {"direct"})]
      /\ \A c \in Callbacks : modes'[c] = IF c = t THEN modes[c] \cup {"direct"} ELSE modes[c]
  BY DEF IInv, TypeOK
<1>7. TypeOK'
  BY <1>0, <1>1, <1>3, <1>5, <1>6 DEF IInv, TypeOK
<1>8. LockInv'
  <2>1. \A u \in Threads : Holds(u)' <=> Holds(u)
    BY <1>0, <1>1, <1>3 DEF Holds
  <2> QED BY <1>0, <1>1, <1>3, <2>1 DEF IInv, LockInv
<1>9. WorkersInv'
  BY <1>0, <1>1, <1>2, <1>3, <1>4, <1>5 DEF IInv, WorkersInv
<1>10. TodoInv'
  BY <1>1, <1>2, <1>3 DEF IInv, TodoInv
<1>11. RegInv'
  <2>1. \A c \in Callbacks : ~Removing(c) /\ ~Removing(c)'
    BY <1>1, <1>2, <1>3 DEF Removing
  <2>2. \A w \in Waiters : pc'[w] \in {"idle", "remove", "join"} => w # t /\ pc'[w] = pc[w]
    BY <1>0, <1>3
  <2> QED BY <1>0, <1>1, <1>5, <1>6, <2>1, <2>2 DEF IInv, RegInv
<1>12. CallInv'
  BY <1>0, <1>2, <1>3 DEF IInv, CallInv
<1> QED BY <1>7, <1>8, <1>9, <1>10, <1>11, <1>12 DEF IInv

LEMMA AddDirectStep ==
  ASSUME IInv, NEW t \in Callbacks, AddDirect(t)
  PROVE  IInv'
<1>0. t \notin Waiters /\ pc \in [Threads -> Labels] /\ cnt \in [Entries -> Nat]
      /\ modes \in [Callbacks -> SUBSET (Workers \cup {"direct"})]
  BY DisjointAssumption DEF IInv, TypeOK
<1>1. /\ Call(t) /\ triggers' = Append(triggers, t)
      /\ modes' = [modes EXCEPT ![t] = @ \cup {"direct"}]
      /\ UNCHANGED <<list_mtx, cnt, workers, list, run_flag, pc, arg, pos, todo, ticks,
                     destroyed>>
  BY DEF AddDirect
<1>2. pc' = [pc EXCEPT ![t] = "idle"]
  BY <1>0, <1>1 DEF Call
<1>3. modes' = [c \in Callbacks |-> IF c = t THEN modes[c] \cup {"direct"} ELSE modes[c]]
  BY <1>0, <1>1
<1>4. cnt' \in [Entries -> Nat] /\ "idle" = IF t \in Waiters THEN "added" ELSE "idle"
  BY <1>0, <1>1
<1> QED BY <1>1, <1>2, <1>3, <1>4, PutStep

LEMMA WaitAddStep ==
  ASSUME IInv, NEW w \in Waiters, WaitAdd(w)
  PROVE  IInv'
<1>0. w \notin Callbacks /\ cnt \in [Entries -> Nat]
      /\ modes \in [Callbacks -> SUBSET (Workers \cup {"direct"})]
  BY DisjointAssumption DEF IInv, TypeOK
<1>1. /\ Call(w) /\ triggers' = Append(triggers, w)
      /\ cnt' = [cnt EXCEPT ![w] = 0] /\ pc' = [pc EXCEPT ![w] = "added"]
      /\ UNCHANGED <<list_mtx, workers, list, run_flag, arg, pos, todo, ticks, destroyed,
                     modes>>
  BY DEF WaitAdd, Goto
<1>2. cnt' \in [Entries -> Nat] /\ "added" = IF w \in Waiters THEN "added" ELSE "idle"
  BY <1>0, <1>1
<1>3. modes' = [c \in Callbacks |-> IF c = w THEN modes[c] \cup {"direct"} ELSE modes[c]]
  BY <1>0, <1>1
<1> QED BY <1>1, <1>2, <1>3, PutStep

LEMMA AddDoneStep ==
  ASSUME IInv, NEW t \in Callbacks, AddDone(t)
  PROVE  IInv'
<1> DEFINE k == arg[t]
<1>0. /\ t \notin Workers /\ t \notin Tickers /\ t \notin Waiters
      /\ "direct" \notin Workers /\ t # NoOne
  BY DisjointAssumption, NoOneAssumption
<1>1. /\ pc[t] = "add" /\ list_mtx' = NoOne
      /\ list' = [list EXCEPT ![k] = Append(@, t)]
      /\ modes' = [modes EXCEPT ![t] = @ \cup {k}]
      /\ pc' = [pc EXCEPT ![t] = "idle"] /\ arg' = [arg EXCEPT ![t] = NoOne]
      /\ UNCHANGED <<triggers, cnt, workers, run_flag, pos, todo, calls, ticks, destroyed>>
  BY DEF AddDone, Goto, Clear
<1>2. /\ k \in workers /\ k \in Workers
  BY <1>1 DEF IInv, WorkersInv, TypeOK
<1> HIDE DEF k
<1>3. /\ list_mtx = t /\ ~destroyed
      /\ \A u \in Callers : u # t => pc[u] \notin {"add", "remove", "join", "destroy"}
      /\ \A d \in Tickers : pc[d] = "idle"
      /\ \A q \in Workers : (Adding(q) <=> q = k) /\ ~Joining(q)
  BY <1>1, HeldList DEF Holds, k
<1>4. /\ \A u \in Threads : u # t => pc'[u] = pc[u] /\ arg'[u] = arg[u]
      /\ pc'[t] = "idle" /\ pc' \in [Threads -> Labels]
      /\ arg' \in [Threads -> Entries \cup {NoOne}]
  BY <1>1 DEF IInv, TypeOK, Labels
<1>5. /\ list' \in [Workers -> Seq(Callbacks)]
      /\ \A q \in Workers : q # k => list'[q] = list[q]
      /\ list'[k] # <<>> /\ ToSet(list'[k]) = ToSet(list[k]) \cup {t}
  <2>1. list[k] \in Seq(Callbacks) /\ list \in [Workers -> Seq(Callbacks)]
    BY <1>2 DEF IInv, TypeOK
  <2>2. /\ Append(list[k], t) \in Seq(Callbacks) /\ Append(list[k], t) # <<>>
        /\ ToSet(Append(list[k], t)) = ToSet(list[k]) \cup {t}
    BY <2>1, AppendedList
  <2> QED BY <1>1, <1>2, <2>1, <2>2
<1>6. /\ modes' \in [Callbacks -> SUBSET (Workers \cup {"direct"})]
      /\ \A c \in Callbacks : c # t => modes'[c] = modes[c]
      /\ modes'[t] = modes[t] \cup {k}
  BY <1>1, <1>2 DEF IInv, TypeOK
<1>7. \A q \in Workers : ~Adding(q)' /\ ~Joining(q)'
  BY <1>3, <1>4 DEF Adding, Joining
<1>8. TypeOK'
  BY <1>0, <1>1, <1>4, <1>5, <1>6 DEF IInv, TypeOK
<1>9. LockInv'
  <2>1. \A u \in Threads : ~Holds(u)'
    BY <1>0, <1>1, <1>3, <1>4 DEF Holds
  <2> QED BY <1>0, <1>1, <1>3, <1>4, <2>1, NoOneAssumption DEF IInv, LockInv
<1>10. WorkersInv'
  BY <1>0, <1>1, <1>2, <1>3, <1>4, <1>5, <1>7 DEF IInv, WorkersInv
<1>11. TodoInv'
  BY <1>1, <1>3, <1>4 DEF IInv, TodoInv
<1>12. RegInv'
  <2>1. \A c \in Callbacks : ~Removing(c) /\ ~Removing(c)'
    BY <1>1, <1>3, <1>4 DEF Removing
  <2>2. \A w \in Waiters : pc'[w] = pc[w]
    BY <1>0, <1>4
  <2> QED BY <1>0, <1>1, <1>2, <1>3, <1>5, <1>6, <2>1, <2>2 DEF IInv, RegInv
<1>13. CallInv'
  BY <1>0, <1>1, <1>3, <1>4, <1>5 DEF IInv, CallInv
<1> QED BY <1>8, <1>9, <1>10, <1>11, <1>12, <1>13 DEF IInv

(* The caller takes the lock and goes to the worker of key k, which exists *)
(* already or has just been created and started.                           *)
LEMMA AddWorkerStep ==
  ASSUME IInv, NEW t \in Callbacks, NEW k \in Workers, AddWorker(t, k)
  PROVE  IInv'
<1>0. /\ t \notin Workers /\ t \notin Tickers /\ t \notin Waiters /\ t # k
      /\ k \notin Callbacks /\ k \notin Waiters /\ k \notin Tickers
      /\ t # NoOne /\ k \in Entries
  BY DisjointAssumption, NoOneAssumption
<1>1. /\ list_mtx = NoOne /\ ~destroyed /\ pc[t] = "idle" /\ calls' \in Nat
      /\ UNCHANGED <<list, pos, todo, ticks, destroyed, modes>>
  BY DEF AddWorker, Call, IInv, TypeOK
<1>2. /\ \A u \in Callers : pc[u] \notin {"add", "remove", "join", "destroy"}
      /\ \A d \in Tickers : pc[d] = "idle"
      /\ \A q \in Workers : ~Adding(q) /\ ~Joining(q)
  BY <1>1, FreeList
<1>3. CASE k \in workers /\ t \in ToSet(list[k])
  <2>1. UNCHANGED <<list_mtx, triggers, workers, cnt, run_flag, pc, arg>>
    BY <1>3 DEF AddWorker
  <2>2. TypeOK'
    BY <1>1, <2>1 DEF IInv, TypeOK
  <2>3. LockInv'
    BY <1>1, <2>1 DEF IInv, LockInv, Holds
  <2>4. CallInv'
    BY <1>1, <2>1 DEF IInv, CallInv
  <2>5. Steady
    BY <1>1, <2>1 DEF Steady
  <2> QED BY <2>2, <2>3, <2>4, <2>5, SteadyStep
<1>4. CASE ~(k \in workers /\ t \in ToSet(list[k]))
  <2>1. /\ list_mtx' = t /\ arg' = [arg EXCEPT ![t] = k]
        /\ workers' = workers \cup {k}
        /\ k \in workers => UNCHANGED <<triggers, cnt, run_flag>>
        /\ k \notin workers => /\ triggers' = Append(triggers, k)
                               /\ cnt' = [cnt EXCEPT ![k] = 0]
                               /\ run_flag' = [run_flag EXCEPT ![k] = TRUE]
        /\ k \in workers => pc' = [pc EXCEPT ![t] = "add"]
        /\ k \notin workers => pc' = [pc EXCEPT ![t] = "add", ![k] = "start"]
    BY <1>4 DEF AddWorker, Goto
  <2>2. /\ \A u \in Threads : u # t => arg'[u] = arg[u]
        /\ arg'[t] = k /\ pc'[t] = "add"
        /\ \A u \in Threads : u # t /\ u # k => pc'[u] = pc[u]
        /\ k \in workers => pc'[k] = pc[k]
        /\ k \notin workers => pc'[k] = "start"
        /\ pc' \in [Threads -> Labels] /\ arg' \in [Threads -> Entries \cup {NoOne}]
    <3>0. /\ pc \in [Threads -> Labels] /\ arg \in [Threads -> Entries \cup {NoOne}]
          /\ t \in Threads /\ k \in Threads /\ {"add", "start"} \subseteq Labels
      BY DEF IInv, TypeOK, Labels
    <3>1. /\ \A u \in Threads : u # t => arg'[u] = arg[u]
          /\ arg'[t] = k /\ arg' \in [Threads -> Entries \cup {NoOne}]
      BY <1>0, <2>1, <3>0
    <3>2. CASE k \in workers
      BY <1>0, <2>1, <3>0, <3>1, <3>2
    <3>3. CASE k \notin workers
      BY <1>0, <2>1, <3>0, <3>1, <3>3
    <3> QED BY <3>2, <3>3
  <2>3. /\ triggers' \in Seq(Entries) /\ ToSet(triggers') = ToSet(triggers) \cup {k}
        /\ \A q \in Workers : Once(triggers', q)
    <3>1. triggers \in Seq(Entries) /\ \A q \in Workers : Once(triggers, q)
      BY DEF IInv, TypeOK, WorkersInv
    <3>2. k \in workers <=> k \in ToSet(triggers)
      BY <1>1 DEF IInv, WorkersInv
    <3>3. CASE k \in workers
      BY <3>1, <3>2, <3>3, <2>1
    <3>4. CASE k \notin workers
      <4>1. /\ Append(triggers, k) \in Seq(Entries)
            /\ ToSet(Append(triggers, k)) = ToSet(triggers) \cup {k}
            /\ \A y : Once(triggers, y) /\ (y = k => k \notin ToSet(triggers))
                    => Once(Append(triggers, k), y)
        BY <3>1, <1>0, AppendedList
      <4>2. triggers' = Append(triggers, k) /\ k \notin ToSet(triggers)
        BY <3>2, <3>4, <2>1
      <4> QED BY <3>1, <4>1, <4>2
    <3> QED BY <3>3, <3>4
  <2>4. /\ cnt' \in [Entries -> Nat] /\ run_flag' \in [Workers -> BOOLEAN]
        /\ \A q \in Workers : run_flag'[q] <=> q \in workers'
    <3>0. /\ cnt \in [Entries -> Nat] /\ run_flag \in [Workers -> BOOLEAN]
          /\ \A q \in Workers : run_flag[q] <=> q \in workers
      BY DEF IInv, TypeOK, WorkersInv
    <3>1. CASE k \in workers
      BY <2>1, <3>0, <3>1
    <3>2. CASE k \notin workers
      <4>1. cnt' = [cnt EXCEPT ![k] = 0] /\ run_flag' = [run_flag EXCEPT ![k] = TRUE]
            /\ workers' = workers \cup {k}
        BY <2>1, <3>2
      <4>2. cnt' \in [Entries -> Nat]
        BY <1>0, <3>0, <4>1
      <4>3. /\ run_flag' \in [Workers -> BOOLEAN] /\ run_flag'[k] = TRUE
            /\ \A q \in Workers : q # k => run_flag'[q] = run_flag[q]
        BY <3>0, <4>1
      <4> QED BY <3>0, <4>1, <4>2, <4>3
    <3> QED BY <3>1, <3>2
  <2>5. \A q \in Workers : (Adding(q)' <=> q = k) /\ ~Joining(q)'
    BY <1>0, <1>2, <2>2 DEF Adding, Joining
  <2>6. /\ \A u \in Threads \ Workers : u # t => pc'[u] = pc[u]
        /\ \A q \in Workers : q # k => pc'[q] = pc[q]
    BY <1>0, <2>2
  <2>7. TypeOK'
    <3>1. /\ \A u \in Callbacks : pc'[u] \in {"idle", "add", "remove", "join", "destroy"}
          /\ \A u \in Waiters : pc'[u] \in {"idle", "added", "wait", "leave", "remove", "join"}
          /\ \A u \in Tickers : pc'[u] \in {"idle", "walk", "call"}
          /\ \A u \in Workers : pc'[u] \in {"idle", "start", "wait", "tick", "call", "done"}
      <4>1. \A u \in Callbacks \cup Waiters \cup Tickers : u # t => pc'[u] = pc[u]
        BY <2>6, DisjointAssumption
      <4>2. pc'[k] \in {pc[k], "start"} /\ pc'[t] = "add" /\ t \notin Waiters /\ t \notin Tickers
        BY <1>0, <2>2
      <4>3. /\ \A u \in Callbacks : pc[u] \in {"idle", "add", "remove", "join", "destroy"}
            /\ \A u \in Waiters : pc[u] \in {"idle", "added", "wait", "leave", "remove", "join"}
            /\ \A u \in Tickers : pc[u] \in {"idle", "walk", "call"}
            /\ \A u \in Workers : pc[u] \in {"idle", "start", "wait", "tick", "call", "done"}
        BY DEF IInv, TypeOK
      <4> QED BY <4>1, <4>2, <4>3, <2>6
    <3>2. list_mtx' \in Threads \cup {NoOne} /\ workers' \in SUBSET Workers
      BY <2>1 DEF IInv, TypeOK
    <3> QED BY <1>1, <2>2, <2>3, <2>4, <3>1, <3>2 DEF IInv, TypeOK
  <2>8. LockInv'
    <3>1. \A u \in Threads : Holds(u)' <=> u = t
      BY <1>0, <1>1, <1>2, <2>2, <2>6 DEF Holds
    <3> QED BY <1>0, <1>1, <1>2, <2>1, <2>2, <2>6, <3>1 DEF IInv, LockInv
  <2>9. WorkersInv'
    <3>1. /\ \A u \in Callbacks : pc'[u] = "add" => arg'[u] \in workers'
          /\ \A u \in Callers : pc'[u] # "join"
      BY <1>0, <1>2, <2>1, <2>2, <2>6
    <3>2. \A q \in Workers : pc'[q] # "idle" <=> q \in workers'
      BY <1>2, <2>1, <2>2, <2>6 DEF IInv, WorkersInv
    <3>3. \A q \in Workers : pc'[q] = "done" => q \notin workers'
      BY <2>1, <2>2, <2>6 DEF IInv, WorkersInv
    <3>4. \A q \in Workers : /\ list'[q] # <<>> => q \in workers'
                             /\ list'[q] = <<>> => q \notin workers' \/ q = k
                             /\ q \in workers' <=> q \in ToSet(triggers')
      BY <1>1, <1>2, <2>1, <2>3 DEF IInv, WorkersInv
    <3> QED BY <1>1, <2>3, <2>4, <2>5, <3>1, <3>2, <3>3, <3>4 DEF WorkersInv
  <2>10. TodoInv'
    BY <1>0, <1>1, <1>2, <2>2, <2>6 DEF IInv, TodoInv
  <2>11. RegInv'
    <3>1. \A c \in Callbacks : ~Removing(c) /\ ~Removing(c)'
      BY <1>0, <1>1, <1>2, <2>2, <2>6 DEF Removing
    <3>2. \A w \in Waiters : pc'[w] = pc[w]
      BY <1>0, <2>6
    <3>3. \A e \in Callers : e \in ToSet(triggers') <=> e \in ToSet(triggers)
      BY <1>0, <2>3
    <3> QED BY <1>1, <3>1, <3>2, <3>3 DEF IInv, RegInv
  <2>12. CallInv'
    BY <1>0, <1>1, <1>2, <2>2, <2>6 DEF IInv, CallInv
  <2> QED BY <2>7, <2>8, <2>9, <2>10, <2>11, <2>12 DEF IInv
<1> QED BY <1>3, <1>4

-----------------------------------------------------------------------------
(* remove_trigger. *)

LEMMA RemoveTriggerStep ==
  ASSUME IInv, NEW t \in Callers, RemoveTrigger(t)
  PROVE  IInv'
<1>0. t \notin Workers /\ t \notin Tickers /\ t # NoOne /\ ~(t \in Callbacks /\ t \in Waiters)
  BY DisjointAssumption, NoOneAssumption
<1>1. /\ list_mtx = NoOne /\ ~destroyed /\ list_mtx' = t
      /\ pc' = [pc EXCEPT ![t] = "remove"]
      /\ triggers' = Without(triggers, t) /\ todo' = workers
      /\ UNCHANGED <<cnt, workers, list, run_flag, arg, pos, calls, ticks, destroyed, modes>>
  BY DEF RemoveTrigger, Goto
<1>2. /\ \A u \in Callers : pc[u] \notin {"add", "remove", "join", "destroy"}
      /\ \A d \in Tickers : pc[d] = "idle"
      /\ \A k \in Workers : ~Adding(k) /\ ~Joining(k)
  BY <1>1, FreeList
<1>3. /\ \A u \in Threads : u # t => pc'[u] = pc[u]
      /\ pc'[t] = "remove" /\ pc' \in [Threads -> Labels]
  BY <1>1 DEF IInv, TypeOK, Labels
<1>4. \A k \in Workers : ~Adding(k)' /\ ~Joining(k)'
  BY <1>1, <1>2, <1>3 DEF Adding, Joining
<1>5. /\ triggers' \in Seq(Entries) /\ ToSet(triggers') = ToSet(triggers) \ {t}
      /\ \A k \in Workers : Once(triggers, k) => Once(triggers', k)
  BY <1>1, WithoutList DEF IInv, TypeOK
<1>6. TypeOK'
  BY <1>0, <1>1, <1>3, <1>5 DEF IInv, TypeOK
<1>7. LockInv'
  <2>1. \A u \in Threads : Holds(u)' <=> u = t
    BY <1>0, <1>1, <1>2, <1>3 DEF Holds
  <2> QED BY <1>0, <1>1, <1>2, <1>3, <2>1 DEF IInv, LockInv
<1>8. WorkersInv'
  BY <1>0, <1>1, <1>2, <1>3, <1>4, <1>5 DEF IInv, WorkersInv
<1>9. TodoInv'
  BY <1>0, <1>1, <1>3 DEF IInv, TodoInv
<1>10. RegInv'
  <2>1. \A c \in Callbacks : ~Removing(c) /\ (Removing(c)' <=> c = t)
    BY <1>1, <1>2, <1>3 DEF Removing
  <2>2. \A k \in Workers : t \in ToSet(list[k]) => k \in workers
    BY <1>1, <1>2, EmptyList DEF IInv, WorkersInv
  <2>3. \A w \in Waiters : w # t => pc'[w] = pc[w]
    BY <1>3
  <2> QED BY <1>1, <1>5, <2>1, <2>2, <2>3 DEF IInv, RegInv
<1>11. CallInv'
  BY <1>0, <1>1, <1>2, <1>3 DEF IInv, CallInv
<1> QED BY <1>6, <1>7, <1>8, <1>9, <1>10, <1>11 DEF IInv

(* The worker k loses t; if that was its last callback it leaves the map   *)
(* and the list of the trigger, and the caller waits for its thread.       *)
LEMMA RemoveFromStep ==
  ASSUME IInv, NEW t \in Callers, NEW k \in Workers, RemoveFrom(t, k)
  PROVE  IInv'
<1>0. /\ t \notin Workers /\ t \notin Tickers /\ t # NoOne /\ ~(t \in Callbacks /\ t \in Waiters)
      /\ k \notin Callbacks /\ k \notin Waiters /\ k \notin Tickers /\ t # k
      /\ k \in Entries
  BY DisjointAssumption, NoOneAssumption
<1>1. /\ pc[t] = "remove" /\ k \in todo /\ pc[k] # "call" /\ pc[k] # "tick"
      /\ todo' = todo \ {k} /\ list' = [list EXCEPT ![k] = Without(@, t)]
      /\ UNCHANGED <<list_mtx, cnt, pos, calls, ticks, destroyed, modes>>
  BY DEF RemoveFrom, MtxFree
<1>2. /\ list_mtx = t /\ ~destroyed
      /\ \A u \in Callers : u # t => pc[u] \notin {"add", "remove", "join", "destroy"}
      /\ \A d \in Tickers : pc[d] = "idle"
      /\ \A q \in Workers : ~Adding(q) /\ ~Joining(q)
  BY <1>1, HeldList DEF Holds
<1>3. todo \subseteq workers /\ k \in workers
  BY <1>1 DEF IInv, TodoInv
<1>4. /\ list' \in [Workers -> Seq(Callbacks)]
      /\ \A q \in Workers : q # k => list'[q] = list[q]
      /\ ToSet(list'[k]) = ToSet(list[k]) \ {t}
      /\ list'[k] = <<>> <=> ToSet(list'[k]) = {}
  <2>1. list \in [Workers -> Seq(Callbacks)] /\ list[k] \in Seq(Callbacks)
    BY DEF IInv, TypeOK
  <2>2. /\ Without(list[k], t) \in Seq(Callbacks)
        /\ ToSet(Without(list[k], t)) = ToSet(list[k]) \ {t}
    BY <2>1, WithoutList
  <2>3. Without(list[k], t) = <<>> <=> ToSet(Without(list[k], t)) = {}
    BY <2>2, EmptyList
  <2>4. list' \in [Workers -> Seq(Callbacks)] /\ list'[k] = Without(list[k], t)
        /\ \A q \in Workers : q # k => list'[q] = list[q]
    BY <1>1, <2>1, <2>2
  <2> QED BY <2>2, <2>3, <2>4
<1>5. ASSUME NEW c \in Callbacks, NEW q \in Workers
      PROVE  c \in ToSet(list'[q]) <=> c \in ToSet(list[q]) /\ ~(q = k /\ c = t)
  BY <1>4
<1>6. CASE list'[k] # <<>>
  <2>1. UNCHANGED <<triggers, workers, run_flag, pc, arg>>
    BY <1>6 DEF RemoveFrom
  <2>2. TypeOK'
    BY <1>1, <1>4, <2>1 DEF IInv, TypeOK
  <2>3. LockInv'
    <3>1. \A u \in Threads : Holds(u)' <=> Holds(u)
      BY <1>1, <2>1 DEF Holds
    <3> QED BY <1>1, <2>1, <3>1 DEF IInv, LockInv
  <2>4. WorkersInv'
    <3>1. \A q \in Workers : (Adding(q)' <=> Adding(q)) /\ (Joining(q)' <=> Joining(q))
      BY <2>1 DEF Adding, Joining
    <3> QED BY <1>1, <1>2, <1>3, <1>4, <1>6, <2>1, <3>1 DEF IInv, WorkersInv
  <2>5. TodoInv'
    BY <1>1, <1>2, <2>1 DEF IInv, TodoInv
  <2>6. RegInv'
    <3>1. \A c \in Callbacks : (Removing(c)' <=> Removing(c)) /\ (Removing(c) => c = t)
      BY <1>2, <2>1 DEF Removing
    <3> QED BY <1>1, <1>2, <1>5, <2>1, <3>1 DEF IInv, RegInv, Removing
  <2>7. CallInv'
    BY <1>1, <1>2, <1>4, <2>1 DEF IInv, CallInv
  <2> QED BY <2>2, <2>3, <2>4, <2>5, <2>6, <2>7 DEF IInv
<1>7. CASE list'[k] = <<>>
  <2>1. /\ triggers' = Without(triggers, k) /\ workers' = workers \ {k}
        /\ run_flag' = [run_flag EXCEPT ![k] = FALSE]
        /\ pc' = [pc EXCEPT ![t] = "join"] /\ arg' = [arg EXCEPT ![t] = k]
    BY <1>7 DEF RemoveFrom, EraseWorker, Goto
  <2>2. /\ \A u \in Threads : u # t => pc'[u] = pc[u] /\ arg'[u] = arg[u]
        /\ pc'[t] = "join" /\ arg'[t] = k
        /\ pc' \in [Threads -> Labels] /\ arg' \in [Threads -> Entries \cup {NoOne}]
    BY <1>0, <2>1 DEF IInv, TypeOK, Labels
  <2>3. /\ triggers' \in Seq(Entries) /\ ToSet(triggers') = ToSet(triggers) \ {k}
        /\ \A q \in Workers : Once(triggers, q) => Once(triggers', q)
    BY <2>1, WithoutList DEF IInv, TypeOK
  <2>4. /\ run_flag' \in [Workers -> BOOLEAN] /\ ~run_flag'[k]
        /\ \A q \in Workers : q # k => run_flag'[q] = run_flag[q]
    BY <2>1 DEF IInv, TypeOK
  <2>5. \A q \in Workers : ~Adding(q)' /\ (Joining(q)' <=> q = k)
    BY <1>2, <2>2 DEF Adding, Joining
  <2>6. TypeOK'
    BY <1>0, <1>1, <1>4, <2>1, <2>2, <2>3, <2>4 DEF IInv, TypeOK
  <2>7. LockInv'
    <3>1. \A u \in Threads : Holds(u)' <=> Holds(u)
      BY <1>0, <1>1, <1>2, <2>2 DEF Holds
    <3> QED BY <1>0, <1>1, <1>2, <2>2, <3>1 DEF IInv, LockInv
  <2>8. WorkersInv'
    <3>1. /\ \A u \in Callbacks : pc'[u] # "add"
          /\ \A u \in Callers : pc'[u] = "join" => arg'[u] \in Workers \ workers'
      BY <1>2, <2>1, <2>2
    <3>2. \A q \in Workers : /\ run_flag'[q] <=> q \in workers'
                             /\ pc'[q] # "idle" <=> q \in workers' \/ Joining(q)'
                             /\ pc'[q] = "done" => q \notin workers'
      BY <1>0, <1>2, <1>3, <2>1, <2>2, <2>4, <2>5 DEF IInv, WorkersInv
    <3>3. \A q \in Workers : /\ list'[q] # <<>> => q \in workers'
                             /\ list'[q] = <<>> => q \notin workers'
                             /\ q \in workers' <=> q \in ToSet(triggers')
      BY <1>2, <1>4, <1>7, <2>1, <2>3 DEF IInv, WorkersInv
    <3> QED BY <1>1, <1>2, <2>3, <2>5, <3>1, <3>2, <3>3 DEF IInv, WorkersInv
  <2>9. TodoInv'
    BY <1>1, <1>2, <1>3, <2>1, <2>2 DEF IInv, TodoInv
  <2>10. RegInv'
    <3>1. \A c \in Callbacks : (Removing(c) <=> c = t) /\ (Removing(c)' <=> c = t)
      BY <1>1, <1>2, <2>2 DEF Removing
    <3>2. \A e \in Callers : e \in ToSet(triggers') <=> e \in ToSet(triggers)
      BY <1>0, <2>3, DisjointAssumption
    <3>3. \A c \in Callbacks : t = c => c \notin ToSet(list'[k])
      BY <1>5
    <3>4. \A w \in Waiters : pc'[w] \in {"idle", "remove", "join"} => pc[w] \in {"idle", "remove", "join"}
      BY <1>1, <2>2
    <3> QED BY <1>1, <1>2, <1>5, <3>1, <3>2, <3>3, <3>4 DEF IInv, RegInv
  <2>11. CallInv'
    BY <1>0, <1>1, <1>2, <1>4, <2>2 DEF IInv, CallInv
  <2> QED BY <2>6, <2>7, <2>8, <2>9, <2>10, <2>11 DEF IInv
<1> QED BY <1>6, <1>7

(* The destructor is alone. *)
LEMMA Alone ==
  ASSUME IInv, NEW t \in Callbacks, destroyed, pc[t] # "idle"
  PROVE  /\ \A u \in Callers \cup Tickers : u # t => pc[u] = "idle"
         /\ \A u \in Threads : ~Holds(u)
         /\ list_mtx = NoOne /\ triggers = <<>> /\ todo = workers
         /\ \A k \in Workers : ~Adding(k) /\ (Joining(k) <=> pc[t] = "join" /\ arg[t] = k)
<1>1. \A u \in Callers \cup Tickers : u # t => pc[u] = "idle"
  BY DEF IInv, LockInv
<1>2. pc[t] \in {"destroy", "join"} /\ t \notin Tickers
  BY DisjointAssumption DEF IInv, LockInv
<1>3. \A u \in Threads : ~Holds(u)
  BY <1>1, <1>2 DEF Holds
<1>4. list_mtx = NoOne
  BY <1>3 DEF IInv, LockInv, TypeOK
<1>5. triggers = <<>> /\ todo = workers
  BY DEF IInv, TodoInv
<1>6. \A k \in Workers : ~Adding(k) /\ (Joining(k) <=> pc[t] = "join" /\ arg[t] = k)
  BY <1>1, <1>2 DEF Adding, Joining
<1> QED BY <1>1, <1>3, <1>4, <1>5, <1>6

LEMMA JoinStep ==
  ASSUME IInv, NEW t \in Callers, Join(t)
  PROVE  IInv'
<1> DEFINE k == arg[t]
           l == IF destroyed THEN "destroy" ELSE "remove"
<1>1. /\ pc[t] = "join" /\ pc[k] = "done"
      /\ pc' = [pc EXCEPT ![t] = l, ![k] = "idle"]
      /\ list' = [list EXCEPT ![k] = <<>>] /\ arg' = [arg EXCEPT ![t] = NoOne]
      /\ UNCHANGED <<list_mtx, triggers, workers, cnt, run_flag, pos, todo, calls, ticks,
                     destroyed, modes>>
  BY DEF Join, Clear
<1>2. k \in Workers /\ k \notin workers
  BY <1>1 DEF IInv, WorkersInv
<1>3. l \in {"destroy", "remove"} /\ (l = "destroy" <=> destroyed)
  OBVIOUS
<1> HIDE DEF k, l
<1>0. /\ t \notin Workers /\ t \notin Tickers /\ t # NoOne /\ ~(t \in Callbacks /\ t \in Waiters)
      /\ k \notin Callbacks /\ k \notin Waiters /\ k \notin Tickers /\ t # k
  BY <1>2, DisjointAssumption, NoOneAssumption
<1>4. /\ \A u \in Threads : u # t => arg'[u] = arg[u]
      /\ \A u \in Threads : u # t /\ u # k => pc'[u] = pc[u]
      /\ pc'[t] = l /\ pc'[k] = "idle"
      /\ pc' \in [Threads -> Labels] /\ arg' \in [Threads -> Entries \cup {NoOne}]
  BY <1>0, <1>1, <1>2, <1>3 DEF IInv, TypeOK, Labels
<1>5. /\ \A u \in Callers \cup Tickers : u # t => pc'[u] = pc[u]
      /\ \A q \in Workers : q # k => pc'[q] = pc[q]
  BY <1>0, <1>2, <1>4
<1>6. /\ list' \in [Workers -> Seq(Callbacks)] /\ list'[k] = <<>>
      /\ \A q \in Workers : q # k => list'[q] = list[q]
  BY <1>1, <1>2, EmptyList DEF IInv, TypeOK
<1>7. /\ destroyed => t \in Callbacks
      /\ \A u \in Callers : u # t => pc[u] \notin {"add", "remove", "join", "destroy"}
      /\ \A d \in Tickers : pc[d] = "idle"
      /\ \A q \in Workers : ~Adding(q) /\ (Joining(q) <=> q = k)
  <2>1. CASE destroyed
    <3>1. t \in Callbacks
      BY <1>1, <2>1 DEF IInv, LockInv
    <3>2. /\ \A u \in Callers \cup Tickers : u # t => pc[u] = "idle"
          /\ \A q \in Workers : ~Adding(q) /\ (Joining(q) <=> pc[t] = "join" /\ arg[t] = q)
      BY <1>1, <2>1, <3>1, Alone
    <3>3. \A d \in Tickers : d # t
      BY <1>0
    <3> QED BY <1>1, <3>1, <3>2, <3>3 DEF k
  <2>2. CASE ~destroyed
    BY <1>1, <2>2, HeldList DEF Holds, k
  <2> QED BY <2>1, <2>2
<1>8. \A q \in Workers : ~Adding(q)' /\ ~Joining(q)'
  BY <1>0, <1>3, <1>4, <1>5, <1>7 DEF Adding, Joining
<1>9. TypeOK'
  <2>1. /\ \A u \in Callbacks : pc'[u] \in {"idle", "add", "remove", "join", "destroy"}
        /\ \A u \in Waiters : pc'[u] \in {"idle", "added", "wait", "leave", "remove", "join"}
        /\ \A u \in Tickers : pc'[u] \in {"idle", "walk", "call"}
        /\ \A u \in Workers : pc'[u] \in {"idle", "start", "wait", "tick", "call", "done"}
    <3>1. /\ \A u \in Callbacks : pc[u] \in {"idle", "add", "remove", "join", "destroy"}
          /\ \A u \in Waiters : pc[u] \in {"idle", "added", "wait", "leave", "remove", "join"}
          /\ \A u \in Tickers : pc[u] \in {"idle", "walk", "call"}
          /\ \A u \in Workers : pc[u] \in {"idle", "start", "wait", "tick", "call", "done"}
      BY DEF IInv, TypeOK
    <3>2. t \in Waiters => l = "remove"
      BY <1>0, <1>3, <1>7
    <3> QED BY <1>0, <1>3, <1>4, <1>5, <3>1, <3>2
  <2> QED BY <1>1, <1>4, <1>6, <2>1 DEF IInv, TypeOK
<1>10. LockInv'
  <2>1. \A u \in Threads : Holds(u)' <=> Holds(u)
    BY <1>0, <1>1, <1>2, <1>3, <1>4, <1>5 DEF Holds
  <2>2. \A u \in Callers : pc'[u] = "destroy" => destroyed'
    BY <1>1, <1>3, <1>4, <1>5, <1>7
  <2>3. destroyed' =>
          /\ \A u \in Waiters \cup Tickers : pc'[u] = "idle"
          /\ \A u \in Callbacks : pc'[u] \in {"idle", "destroy", "join"}
          /\ \A u, v \in Callbacks : pc'[u] # "idle" /\ pc'[v] # "idle" => u = v
    <3> SUFFICES ASSUME destroyed PROVE /\ \A u \in Waiters \cup Tickers : pc'[u] = "idle"
                                        /\ \A u \in Callbacks : u # t => pc'[u] = "idle"
      BY <1>1, <1>3, <1>4
    <3>1. \A u \in Callers \cup Tickers : u # t => pc[u] = "idle"
      BY <1>1, <1>7, Alone
    <3> QED BY <1>0, <1>5, <1>7, <3>1
  <2> QED BY <1>1, <2>1, <2>2, <2>3 DEF IInv, LockInv
<1>11. WorkersInv'
  <2>1. /\ \A u \in Callers : pc'[u] \notin {"add", "join"}
    BY <1>3, <1>4, <1>5, <1>7
  <2>2. \A q \in Workers : /\ pc'[q] # "idle" <=> q \in workers'
                           /\ pc'[q] = "done" => q \notin workers'
    BY <1>1, <1>2, <1>4, <1>5, <1>7 DEF IInv, WorkersInv
  <2>3. \A q \in Workers : /\ list'[q] # <<>> => q \in workers'
                           /\ list'[q] = <<>> => q \notin workers'
    BY <1>1, <1>2, <1>6, <1>7 DEF IInv, WorkersInv
  <2>4. \A q \in Workers : /\ run_flag'[q] <=> q \in workers'
                           /\ q \in workers' /\ ~destroyed' <=> q \in ToSet(triggers')
                           /\ Once(triggers', q)
    BY <1>1 DEF IInv, WorkersInv
  <2> QED BY <1>1, <1>8, <2>1, <2>2, <2>3, <2>4 DEF WorkersInv
<1>12. TodoInv'
  BY <1>0, <1>1, <1>3, <1>4, <1>5, <1>7 DEF IInv, TodoInv
<1>13. RegInv'
  <2>1. \A c \in Callbacks : ~destroyed => (Removing(c)' <=> Removing(c))
    BY <1>1, <1>3, <1>4, <1>5 DEF Removing
  <2>2. ~destroyed => list'[k] = list[k]
    BY <1>2, <1>6 DEF IInv, WorkersInv
  <2>3. \A q \in Workers : q # k \/ ~destroyed => list'[q] = list[q]
    BY <1>6, <2>2
  <2>4. \A c \in Callbacks : c \notin ToSet(list'[k]) \/ list'[k] = list[k]
    BY <1>6, EmptyList
  <2>5. \A w \in Waiters : pc'[w] \in {"idle", "remove", "join"} => pc[w] \in {"idle", "remove", "join"}
    BY <1>1, <1>5
  <2> QED BY <1>1, <2>1, <2>3, <2>4, <2>5 DEF IInv, RegInv
<1>14. CallInv'
  BY <1>0, <1>1, <1>4, <1>5, <1>6, <1>7 DEF IInv, CallInv
<1> QED BY <1>9, <1>10, <1>11, <1>12, <1>13, <1>14 DEF IInv

LEMMA RemoveDoneStep ==
  ASSUME IInv, NEW t \in Callers, RemoveDone(t)
  PROVE  IInv'
<1>0. t \notin Workers /\ t \notin Tickers /\ t # NoOne /\ ~(t \in Callbacks /\ t \in Waiters)
  BY DisjointAssumption, NoOneAssumption
<1>1. /\ pc[t] = "remove" /\ todo = {} /\ list_mtx' = NoOne
      /\ pc' = [pc EXCEPT ![t] = "idle"]
      /\ modes' = [c \in Callbacks |-> IF c = t THEN {} ELSE modes[c]]
      /\ UNCHANGED <<triggers, workers, list, cnt, run_flag, arg, pos, todo, calls, ticks,
                     destroyed>>
  BY DEF RemoveDone, Goto, lists
<1>2. /\ list_mtx = t /\ ~destroyed
      /\ \A u \in Callers : u # t => pc[u] \notin {"add", "remove", "join", "destroy"}
      /\ \A d \in Tickers : pc[d] = "idle"
      /\ \A q \in Workers : ~Adding(q) /\ ~Joining(q)
  BY <1>1, HeldList DEF Holds
<1>3. /\ \A u \in Threads : u # t => pc'[u] = pc[u]
      /\ pc'[t] = "idle" /\ pc' \in [Threads -> Labels]
  BY <1>1 DEF IInv, TypeOK, Labels
<1>4. /\ modes' \in [Callbacks -> SUBSET (Workers \cup {"direct"})]
      /\ \A c \in Callbacks : c # t => modes'[c] = modes[c]
      /\ t \in Callbacks => modes'[t] = {}
  BY <1>1 DEF IInv, TypeOK
<1>5. \A q \in Workers : ~Adding(q)' /\ ~Joining(q)'
  BY <1>2, <1>3 DEF Adding, Joining
<1>6. TypeOK'
  BY <1>0, <1>1, <1>3, <1>4 DEF IInv, TypeOK
<1>7. LockInv'
  <2>1. \A u \in Threads : ~Holds(u)'
    BY <1>0, <1>1, <1>2, <1>3 DEF Holds
  <2> QED BY <1>0, <1>1, <1>2, <1>3, <2>1, NoOneAssumption DEF IInv, LockInv
<1>8. WorkersInv'
  BY <1>0, <1>1, <1>2, <1>3, <1>5 DEF IInv, WorkersInv
<1>9. TodoInv'
  BY <1>1, <1>2, <1>3 DEF IInv, TodoInv
<1>10. RegInv'
  <2>1. \A c \in Callbacks : (Removing(c) <=> c = t) /\ ~Removing(c)'
    BY <1>1, <1>2, <1>3 DEF Removing
  <2>2. \A w \in Waiters : pc'[w] \in {"idle", "remove", "join"} => pc[w] \in {"idle", "remove", "join"}
    BY <1>1, <1>3
  <2> QED BY <1>1, <1>2, <1>4, <2>1, <2>2 DEF IInv, RegInv
<1>11. CallInv'
  BY <1>0, <1>1, <1>2, <1>3 DEF IInv, CallInv
<1> QED BY <1>6, <1>7, <1>8, <1>9, <1>10, <1>11 DEF IInv

-----------------------------------------------------------------------------
(* The destructor. *)

LEMMA DestroyStep ==
  ASSUME IInv, NEW t \in Callbacks, Destroy(t)
  PROVE  IInv'
<1>0. /\ t \notin Workers /\ t \notin Tickers /\ t \notin Waiters /\ t # NoOne
      /\ \A u \in Callers \cup Tickers : u \in Threads \ Workers
  BY DisjointAssumption, NoOneAssumption
<1>1. /\ ~destroyed /\ \A u \in Callers \cup Tickers : pc[u] = "idle"
      /\ destroyed' = TRUE /\ triggers' = <<>> /\ todo' = workers
      /\ pc' = [pc EXCEPT ![t] = "destroy"]
      /\ UNCHANGED <<list_mtx, cnt, workers, list, run_flag, arg, pos, calls, ticks, modes>>
  BY <1>0 DEF Destroy, Goto
<1>2. /\ \A u \in Threads : u # t => pc'[u] = pc[u]
      /\ pc'[t] = "destroy" /\ pc' \in [Threads -> Labels]
  BY <1>1 DEF IInv, TypeOK, Labels
<1>3. \A q \in Workers : ~Adding(q) /\ ~Joining(q) /\ ~Adding(q)' /\ ~Joining(q)'
  BY <1>1, <1>2 DEF Adding, Joining
<1>4. ToSet(triggers') = {} /\ triggers' \in Seq(Entries) /\ \A q \in Workers : Once(triggers', q)
  BY <1>1, EmptyList
<1>5. TypeOK'
  BY <1>0, <1>1, <1>2, <1>4 DEF IInv, TypeOK
<1>6. LockInv'
  <2>1. \A u \in Threads : (Holds(u)' <=> Holds(u)) /\ ~Holds(u)
    BY <1>0, <1>1, <1>2 DEF Holds
  <2> QED BY <1>0, <1>1, <1>2, <2>1 DEF IInv, LockInv
<1>7. WorkersInv'
  BY <1>0, <1>1, <1>2, <1>3, <1>4 DEF IInv, WorkersInv
<1>8. TodoInv'
  BY <1>0, <1>1, <1>2 DEF IInv, TodoInv
<1>9. RegInv'
  BY <1>1, <1>4 DEF IInv, RegInv
<1>10. CallInv'
  BY <1>0, <1>1, <1>2 DEF IInv, CallInv
<1> QED BY <1>5, <1>6, <1>7, <1>8, <1>9, <1>10 DEF IInv

LEMMA ResetStep ==
  ASSUME IInv, NEW t \in Callbacks, NEW k \in Workers, Reset(t, k)
  PROVE  IInv'
<1>0. /\ t \notin Workers /\ t \notin Tickers /\ t \notin Waiters /\ t # NoOne /\ t # k
      /\ k \in Entries
  BY DisjointAssumption, NoOneAssumption
<1>1. /\ pc[t] = "destroy" /\ k \in todo /\ todo' = todo \ {k}
      /\ triggers' = Without(triggers, k) /\ workers' = workers \ {k}
      /\ run_flag' = [run_flag EXCEPT ![k] = FALSE]
      /\ pc' = [pc EXCEPT ![t] = "join"] /\ arg' = [arg EXCEPT ![t] = k]
      /\ UNCHANGED <<list_mtx, cnt, list, pos, calls, ticks, destroyed, modes>>
  BY DEF Reset, EraseWorker, Goto
<1>2. /\ destroyed /\ list_mtx = NoOne /\ triggers = <<>> /\ todo = workers
      /\ \A u \in Callers \cup Tickers : u # t => pc[u] = "idle"
      /\ \A q \in Workers : ~Adding(q) /\ ~Joining(q)
  <2>1. destroyed
    BY <1>1 DEF IInv, LockInv
  <2> QED BY <1>1, <2>1, Alone
<1>3. /\ \A u \in Threads : u # t => pc'[u] = pc[u] /\ arg'[u] = arg[u]
      /\ pc'[t] = "join" /\ arg'[t] = k
      /\ pc' \in [Threads -> Labels] /\ arg' \in [Threads -> Entries \cup {NoOne}]
  BY <1>0, <1>1 DEF IInv, TypeOK, Labels
<1>4. \A q \in Workers : ~Adding(q)' /\ (Joining(q)' <=> q = k)
  BY <1>2, <1>3 DEF Adding, Joining
<1>5. /\ triggers' = <<>> /\ triggers' \in Seq(Entries) /\ ToSet(triggers') = {}
      /\ \A q \in Workers : Once(triggers', q)
  <2>1. /\ triggers' \in Seq(Entries) /\ ToSet(triggers') = ToSet(triggers) \ {k}
    BY <1>1, WithoutList DEF IInv, TypeOK
  <2> QED BY <1>2, <2>1, EmptyList
<1>6. /\ run_flag' \in [Workers -> BOOLEAN] /\ ~run_flag'[k]
      /\ \A q \in Workers : q # k => run_flag'[q] = run_flag[q]
  BY <1>1 DEF IInv, TypeOK
<1>7. TypeOK'
  BY <1>0, <1>1, <1>3, <1>5, <1>6 DEF IInv, TypeOK
<1>8. LockInv'
  <2>1. \A u \in Threads : Holds(u)' <=> Holds(u)
    BY <1>0, <1>1, <1>2, <1>3 DEF Holds
  <2> QED BY <1>0, <1>1, <1>2, <1>3, <2>1 DEF IInv, LockInv
<1>9. WorkersInv'
  <2>1. /\ \A u \in Callbacks : pc'[u] # "add"
        /\ \A u \in Callers : pc'[u] = "join" => arg'[u] \in Workers \ workers'
    BY <1>1, <1>2, <1>3
  <2>2. \A q \in Workers : /\ run_flag'[q] <=> q \in workers'
                           /\ pc'[q] # "idle" <=> q \in workers' \/ Joining(q)'
                           /\ pc'[q] = "done" => q \notin workers'
    BY <1>0, <1>1, <1>2, <1>3, <1>4, <1>6 DEF IInv, WorkersInv
  <2>3. \A q \in Workers : /\ list'[q] # <<>> => q \in workers' \/ (destroyed' /\ Joining(q)')
                           /\ list'[q] = <<>> => q \notin workers' /\ ~Joining(q)'
                           /\ q \notin ToSet(triggers')
    BY <1>1, <1>2, <1>4, <1>5 DEF IInv, WorkersInv
  <2> QED BY <1>1, <1>2, <1>4, <1>5, <2>1, <2>2, <2>3 DEF WorkersInv
<1>10. TodoInv'
  BY <1>0, <1>1, <1>2, <1>3, <1>5 DEF IInv, TodoInv
<1>11. RegInv'
  <2>1. \A w \in Waiters : pc'[w] = pc[w]
    BY <1>0, <1>3
  <2> QED BY <1>1, <1>2, <1>5, <2>1 DEF IInv, RegInv
<1>12. CallInv'
  <2>1. \A q \in Workers \cup Tickers : pc'[q] = pc[q] /\ arg'[q] = arg[q]
    BY <1>0, <1>3
  <2> QED BY <1>0, <1>1, <1>2, <2>1 DEF IInv, CallInv
<1> QED BY <1>7, <1>8, <1>9, <1>10, <1>11, <1>12 DEF IInv

LEMMA DestroyDoneStep ==
  ASSUME IInv, NEW t \in Callbacks, DestroyDone(t)
  PROVE  IInv'
<1>0. t \notin Workers /\ t \notin Tickers /\ t \notin Waiters /\ t # NoOne
  BY DisjointAssumption, NoOneAssumption
<1>1. /\ pc[t] = "destroy" /\ todo = {}
      /\ pc' = [pc EXCEPT ![t] = "idle"] /\ modes' = [c \in Callbacks |-> {}]
      /\ UNCHANGED <<list_mtx, triggers, workers, list, cnt, run_flag, arg, pos, todo, calls,
                     ticks, destroyed>>
  BY DEF DestroyDone, Goto, lists
<1>2. /\ destroyed /\ list_mtx = NoOne /\ triggers = <<>> /\ workers = {}
      /\ \A u \in Callers \cup Tickers : u # t => pc[u] = "idle"
      /\ \A q \in Workers : ~Adding(q) /\ ~Joining(q)
  <2>1. destroyed
    BY <1>1 DEF IInv, LockInv
  <2> QED BY <1>1, <2>1, Alone
<1>3. /\ \A u \in Threads : u # t => pc'[u] = pc[u]
      /\ pc'[t] = "idle" /\ pc' \in [Threads -> Labels]
  BY <1>1 DEF IInv, TypeOK, Labels
<1>4. /\ \A u \in Callers \cup Tickers : pc'[u] = "idle"
      /\ \A q \in Workers : ~Adding(q)' /\ ~Joining(q)'
  BY <1>2, <1>3 DEF Adding, Joining
<1>5. /\ modes' \in [Callbacks -> SUBSET (Workers \cup {"direct"})]
      /\ \A q \in Workers : list[q] = <<>> /\ ToSet(list[q]) = {}
      /\ ToSet(triggers) = {}
  <2>1. modes' \in [Callbacks -> SUBSET (Workers \cup {"direct"})]
    BY <1>1, Zenon
  <2> QED BY <1>2, <2>1, EmptyList DEF IInv, WorkersInv
<1>6. TypeOK'
  BY <1>0, <1>1, <1>3, <1>5 DEF IInv, TypeOK
<1>7. LockInv'
  <2>1. \A u \in Threads : Holds(u)' <=> Holds(u)
    BY <1>0, <1>1, <1>2, <1>3 DEF Holds
  <2> QED BY <1>0, <1>1, <1>2, <1>4, <2>1 DEF IInv, LockInv
<1>8. WorkersInv'
  BY <1>0, <1>1, <1>2, <1>3, <1>4 DEF IInv, WorkersInv
<1>9. TodoInv'
  BY <1>1, <1>2, <1>4 DEF IInv, TodoInv
<1>10. RegInv'
  BY <1>1, <1>2, <1>4, <1>5 DEF RegInv
<1>11. CallInv'
  <2>1. \A q \in Workers : pc'[q] = pc[q]
    BY <1>0, <1>3
  <2> QED BY <1>1, <1>4, <2>1 DEF IInv, CallInv
<1> QED BY <1>6, <1>7, <1>8, <1>9, <1>10, <1>11 DEF IInv

-----------------------------------------------------------------------------
LEMMA NextInv == IInv /\ [Next]_vars => IInv'
<1> SUFFICES ASSUME IInv, [Next]_vars PROVE IInv'
  OBVIOUS
<1>1. CASE UNCHANGED vars
  <2>1. UNCHANGED <<list_mtx, triggers, cnt, workers, list, run_flag, pc, arg, pos, todo,
                    calls, ticks, destroyed, modes>>
    BY <1>1 DEF vars
  <2>2. TypeOK'
    BY <2>1 DEF IInv, TypeOK
  <2>3. LockInv'
    BY <2>1 DEF IInv, LockInv, Holds
  <2>4. CallInv'
    BY <2>1 DEF IInv, CallInv
  <2>5. Steady
    BY <2>1 DEF Steady
  <2> QED BY <2>2, <2>3, <2>4, <2>5, SteadyStep
<1>2. CASE \E t \in Callbacks : Register(t)
  BY <1>2, AddDirectStep, AddDoneStep, AddWorkerStep DEF Register
<1>3. CASE \E t \in Callbacks : Destruct(t)
  BY <1>3, DestroyStep, ResetStep, DestroyDoneStep DEF Destruct
<1>4. CASE \E t \in Callbacks \cup Waiters : Unregister(t)
  BY <1>4, RemoveTriggerStep, RemoveFromStep, JoinStep, RemoveDoneStep DEF Unregister
<1>5. CASE \E w \in Waiters : Wait(w)
  BY <1>5, WaitAddStep, WaitSteps DEF Wait
<1>6. CASE \E d \in Tickers : RealTime(d)
  BY <1>6, RealTimeStep
<1>7. CASE \E k \in Workers : Work(k)
  BY <1>7, WorkStep
<1> QED BY <1>1, <1>2, <1>3, <1>4, <1>5, <1>6, <1>7 DEF Next

(* The invariant: who holds the lock of the list, which workers live and   *)
(* where they are listed, how far a removal has got, and that a callback   *)
(* in progress is still in the list it was found in.                       *)
THEOREM Invariance == Spec => []IInv
<1> QED BY InitInv, NextInv, PTL DEF Spec

(* Every variable has its type, and every thread is at a stage of its own. *)
THEOREM TypeCorrect == Spec => []TypeOK
<1>1. IInv => TypeOK
  BY DEF IInv
<1> QED BY <1>1, Invariance, PTL

(* When remove_trigger, wait or the destructor has returned, no thread is  *)
(* in a callback that was removed, no waiter is left in the list and no    *)
(* worker without callbacks lives.                                         *)
THEOREM RemovedIsQuietHolds == Spec => []RemovedIsQuiet
<1>1. ASSUME IInv PROVE RemovedIsQuiet
  <2>1. ASSUME NEW t \in Callbacks, modes[t] = {} PROVE ~Running(t)
    BY <1>1, <2>1 DEF IInv, RegInv, CallInv, Running
  <2>2. \A w \in Waiters : pc[w] = "idle" => w \notin ToSet(triggers)
    BY <1>1 DEF IInv, RegInv
  <2>3. ASSUME list_mtx = NoOne, NEW k \in Workers PROVE pc[k] # "idle" <=> list[k] # <<>>
    <3>1. \A t \in Threads : ~Holds(t)
      BY <1>1, <2>3, NoOneAssumption DEF IInv, LockInv
    <3>2. ~Adding(k) /\ (Joining(k) => destroyed)
      BY <3>1 DEF Holds, Adding, Joining
    <3> QED BY <1>1, <3>2 DEF IInv, WorkersInv
  <2> QED BY <2>1, <2>2, <2>3 DEF RemovedIsQuiet
<1> QED BY <1>1, Invariance, PTL

(* What is registered is reached by do_trigger whenever the list is free:  *)
(* directly, or by a worker that is listed exactly once and lives.         *)
THEOREM RegisteredIsReachedHolds == Spec => []RegisteredIsReached
<1>1. ASSUME IInv PROVE RegisteredIsReached
  <2> SUFFICES ASSUME list_mtx = NoOne, ~destroyed PROVE RegisteredIsReached
    BY DEF RegisteredIsReached
  <2>1. /\ \A t \in Callers : pc[t] \notin {"add", "remove", "join", "destroy"}
        /\ \A k \in Workers : ~Adding(k) /\ ~Joining(k)
    BY <1>1, FreeList
  <2>2. ASSUME NEW t \in Callbacks
        PROVE  /\ "direct" \in modes[t] <=> t \in ToSet(triggers)
               /\ \A k \in Workers : k \in modes[t] <=> t \in ToSet(list[k])
    BY <1>1, <2>1 DEF IInv, RegInv, Removing
  <2>3. ASSUME NEW k \in Workers
        PROVE  /\ list[k] # <<>> <=> k \in workers /\ k \in ToSet(triggers)
               /\ k \in ToSet(triggers) => k \in workers
               /\ Once(triggers, k)
               /\ run_flag[k] <=> k \in workers
               /\ k \in workers => pc[k] \notin {"idle", "done"}
    BY <1>1, <2>1 DEF IInv, WorkersInv
  <2>4. \A k \in Workers : pc[k] \in {"idle", "start", "wait", "tick", "call", "done"}
    BY <1>1 DEF IInv, TypeOK
  <2> QED BY <2>2, <2>3, <2>4 DEF RegisteredIsReached
<1> QED BY <1>1, Invariance, PTL

-----------------------------------------------------------------------------
(* trigger_collector: for any number of slaves, any timeouts and any       *)
(* bounds, as long as calls of trigger_collect do not overlap.             *)

(* The initial state: no stamps, no calls. *)
LEMMA InitCollectorInv == CollectorInit => CollectorInv
<1> SUFFICES ASSUME CollectorInit PROVE CollectorInv
  OBVIOUS
<1> USE CollectorAssumption
<1>0. 0 \in 0 .. count
  OBVIOUS
<1>1. CollectorTypeOK
  <2>1. timestamps \in [Slaves -> Nat] /\ ts \in [Slaves -> Nat]
    BY DEF CollectorInit
  <2>2. active_mask \in [Slaves -> BOOLEAN] /\ place \in [Slaves -> 0 .. count]
    BY <1>0 DEF CollectorInit
  <2>3. at \in [Slaves -> {"idle", "expire", "mark", "scan", "callback"}]
    BY DEF CollectorInit
  <2>4. timeout \in Nat /\ receive_timeout \in Nat /\ now \in Nat \ {0}
    BY DEF CollectorInit
  <2>5. changes \in Nat /\ set_back \in BOOLEAN /\ fresh \subseteq Slaves /\ steady \subseteq Slaves
    BY DEF CollectorInit
  <2> QED
    BY <2>1, <2>2, <2>3, <2>4, <2>5 DEF CollectorTypeOK
<1>2. OneCalls /\ SteadyIsActive
  BY DEF CollectorInit, OneCalls, Calling, SteadyIsActive
<1>3. CallerInv
  BY DEF CollectorInit, CallerInv, Calling
<1>4. StampsAreFresh /\ StampsInTime
  BY DEF CollectorInit, StampsAreFresh, StampsInTime
<1> QED
  BY <1>1, <1>2, <1>3, <1>4 DEF CollectorInv

(* Every step of a call, of the module and of the clock preserves it.      *)
LEMMA NextCollectorInv ==
  ASSUME Serial, CollectorInv, [CollectorNext]_collectorvars
  PROVE  CollectorInv'
<1> USE CollectorAssumption DEF CollectorInv, membervars, callvars
<1>0. CASE UNCHANGED collectorvars
  BY <1>0 DEF collectorvars, CollectorTypeOK, OneCalls, Calling, SteadyIsActive, CallerInv, StampsAreFresh, StampsInTime
<1>1. ASSUME NEW i \in Slaves, get_timestamp(i)
      PROVE  CollectorInv'
  <2> USE <1>1 DEF get_timestamp, GoOn
  <2>1. CollectorTypeOK'
    BY DEF CollectorTypeOK
  <2>2. OneCalls' /\ SteadyIsActive'
    BY DEF CollectorTypeOK, OneCalls, Calling, SteadyIsActive
  <2>3. CallerInv'
    BY DEF CollectorTypeOK, OneCalls, Calling, SteadyIsActive, CallerInv, Slaves
  <2>4. StampsAreFresh'
    BY DEF CollectorTypeOK, OneCalls, Calling, CallerInv, StampsAreFresh
  <2>5. StampsInTime'
    BY DEF CollectorTypeOK, OneCalls, Calling, CallerInv, StampsInTime
  <2> QED
    BY <2>1, <2>2, <2>3, <2>4, <2>5
<1>2. ASSUME NEW i \in Slaves, Expire(i)
      PROVE  CollectorInv'
  <2> USE <1>2 DEF Expire, GoOn
  <2>1. CollectorTypeOK'
    BY DEF CollectorTypeOK
  <2>2. OneCalls' /\ SteadyIsActive'
    BY DEF CollectorTypeOK, OneCalls, Calling, SteadyIsActive
  <2>3. CallerInv'
    <3>1. ASSUME NEW j \in Slaves, j # i, Calling(j)' PROVE FALSE
      BY <3>1 DEF CollectorTypeOK, OneCalls, Calling
    <3>2. at'[i] = "mark" /\ ts[i] # 0 /\ i \in fresh /\ place[i] = 0
      BY DEF CollectorTypeOK, CallerInv, Calling
    <3>3. receive_timeout' # 0 /\ ts[i] <= receive_timeout'
      BY <3>2 DEF CollectorTypeOK
    <3>4. \A j \in Slaves : j # i => place'[j] = 0 /\ at'[j] = "idle"
      BY <3>1 DEF CollectorTypeOK, CallerInv, Calling
    <3> QED
      BY <3>1, <3>2, <3>3, <3>4 DEF CallerInv, Calling
  <2>4. StampsAreFresh'
    BY DEF CollectorTypeOK, OneCalls, Calling, CallerInv, StampsAreFresh
  <2>5. StampsInTime'
    BY DEF CollectorTypeOK, OneCalls, Calling, CallerInv, StampsInTime
  <2> QED
    BY <2>1, <2>2, <2>3, <2>4, <2>5
<1>3. ASSUME NEW i \in Slaves, Mark(i)
      PROVE  CollectorInv'
  <2> USE <1>3 DEF Mark, GoOn
  <2>1. CollectorTypeOK'
    BY DEF CollectorTypeOK
  <2>2. OneCalls' /\ SteadyIsActive'
    BY DEF CollectorTypeOK, OneCalls, Calling, SteadyIsActive
  <2>3. CallerInv'
    BY DEF CollectorTypeOK, OneCalls, Calling, SteadyIsActive, CallerInv, Slaves
  <2>4. StampsAreFresh'
    BY DEF CollectorTypeOK, OneCalls, Calling, CallerInv, StampsAreFresh
  <2>5. StampsInTime'
    BY DEF CollectorTypeOK, OneCalls, Calling, CallerInv, StampsInTime
  <2> QED
    BY <2>1, <2>2, <2>3, <2>4, <2>5
<1>4. ASSUME NEW i \in Slaves, Scan(i)
      PROVE  CollectorInv'
  <2> USE <1>4 DEF Scan, Missing, Return, GoOn
  <2>1. CollectorTypeOK'
    BY DEF CollectorTypeOK
  <2>2. OneCalls' /\ SteadyIsActive'
    BY DEF CollectorTypeOK, OneCalls, Calling, SteadyIsActive
  <2>3. CallerInv'
    <3>1. ASSUME NEW j \in Slaves, j # i PROVE at[j] = "idle"
      BY <3>1 DEF CollectorTypeOK, OneCalls, Calling
    <3>2. CASE Missing(place[i])
      <4>1. at'[i] = "idle" /\ place'[i] = 0
        BY <3>2 DEF CollectorTypeOK
      <4>2. \A j \in Slaves : j # i => at'[j] = "idle" /\ place'[j] = 0
        BY <3>1, <3>2 DEF CollectorTypeOK, CallerInv
      <4> QED BY <4>1, <4>2 DEF CallerInv, Calling
    <3>3. CASE ~Missing(place[i])
      <4>1. ASSUME NEW k \in steady, k < place[i] + 1 PROVE timestamps[k] # 0
        <5>1. k \in Slaves /\ active_mask[k]
          BY DEF CollectorTypeOK, SteadyIsActive
        <5>2. k \in Int /\ place[i] \in Int
          BY <5>1 DEF CollectorTypeOK, Slaves
        <5>3. k < place[i] \/ k = place[i]
          BY <4>1, <5>2
        <5> QED
          BY <3>3, <5>1, <5>3 DEF CallerInv
      <4>2. place'[i] = place[i] + 1 /\ at'[i] = "scan"
        BY <3>3 DEF CollectorTypeOK
      <4>3. UNCHANGED <<timestamps, receive_timeout, steady, fresh, ts, at>>
        BY <3>3
      <4>4. \A j \in Slaves : j # i => place'[j] = place[j]
        BY <3>3 DEF CollectorTypeOK
      <4> QED
        BY <3>1, <4>1, <4>2, <4>3, <4>4 DEF CallerInv, Calling
    <3> QED
      BY <3>2, <3>3
  <2>4. StampsAreFresh'
    BY DEF CollectorTypeOK, OneCalls, Calling, CallerInv, StampsAreFresh
  <2>5. StampsInTime'
    BY DEF CollectorTypeOK, OneCalls, Calling, CallerInv, StampsInTime
  <2> QED
    BY <2>1, <2>2, <2>3, <2>4, <2>5
<1>5. ASSUME NEW i \in Slaves, Collected(i)
      PROVE  CollectorInv'
  <2> USE <1>5 DEF Collected, GoOn
  <2>1. CollectorTypeOK'
    BY DEF CollectorTypeOK
  <2>2. OneCalls' /\ SteadyIsActive'
    BY DEF CollectorTypeOK, OneCalls, Calling, SteadyIsActive
  <2>3. CallerInv'
    BY DEF CollectorTypeOK, OneCalls, Calling, SteadyIsActive, CallerInv, Slaves
  <2>4. StampsAreFresh'
    BY DEF CollectorTypeOK, OneCalls, Calling, CallerInv, StampsAreFresh
  <2>5. StampsInTime'
    BY DEF CollectorTypeOK, OneCalls, Calling, CallerInv, StampsInTime
  <2> QED
    BY <2>1, <2>2, <2>3, <2>4, <2>5
<1>6. ASSUME NEW i \in Slaves, CallbackDone(i)
      PROVE  CollectorInv'
  <2> USE <1>6 DEF CallbackDone, Return, GoOn
  <2>1. CollectorTypeOK'
    BY DEF CollectorTypeOK
  <2>2. OneCalls' /\ SteadyIsActive'
    BY DEF CollectorTypeOK, OneCalls, Calling, SteadyIsActive
  <2>3. CallerInv'
    BY DEF CollectorTypeOK, OneCalls, Calling, SteadyIsActive, CallerInv, Slaves
  <2>4. StampsAreFresh'
    BY DEF CollectorTypeOK, OneCalls, Calling, CallerInv, StampsAreFresh
  <2>5. StampsInTime'
    BY DEF CollectorTypeOK, OneCalls, Calling, CallerInv, StampsInTime
  <2> QED
    BY <2>1, <2>2, <2>3, <2>4, <2>5
<1>7. ASSUME NEW n \in 0 .. count, NEW mask \in [0 .. n - 1 -> BOOLEAN], set_active_mask(mask)
      PROVE  CollectorInv'
  <2> USE <1>7 DEF set_active_mask, Change, GoOn
  <2>1. CollectorTypeOK'
    BY DEF CollectorTypeOK
  <2>2. OneCalls' /\ SteadyIsActive'
    BY DEF CollectorTypeOK, OneCalls, Calling, SteadyIsActive
  <2>3. CallerInv'
    BY DEF CollectorTypeOK, OneCalls, Calling, SteadyIsActive, CallerInv, Slaves
  <2>4. StampsAreFresh'
    BY DEF CollectorTypeOK, OneCalls, Calling, CallerInv, StampsAreFresh
  <2>5. StampsInTime'
    BY DEF CollectorTypeOK, OneCalls, Calling, CallerInv, StampsInTime
  <2> QED
    BY <2>1, <2>2, <2>3, <2>4, <2>5
<1>8. ASSUME NEW t \in Timeouts, reinit(t)
      PROVE  CollectorInv'
  <2> USE <1>8 DEF reinit, Change, GoOn
  <2>1. CollectorTypeOK'
    BY DEF CollectorTypeOK
  <2>2. OneCalls' /\ SteadyIsActive'
    BY DEF CollectorTypeOK, OneCalls, Calling, SteadyIsActive
  <2>3. CallerInv'
    BY DEF CollectorTypeOK, OneCalls, Calling, SteadyIsActive, CallerInv, Slaves
  <2>4. StampsAreFresh'
    BY DEF CollectorTypeOK, OneCalls, Calling, CallerInv, StampsAreFresh
  <2>5. StampsInTime'
    BY DEF CollectorTypeOK, OneCalls, Calling, CallerInv, StampsInTime
  <2> QED
    BY <2>1, <2>2, <2>3, <2>4, <2>5
<1>9. ASSUME ClockTick
      PROVE  CollectorInv'
  <2> USE <1>9 DEF ClockTick, GoOn
  <2>1. CollectorTypeOK'
    BY DEF CollectorTypeOK
  <2>2. OneCalls' /\ SteadyIsActive'
    BY DEF CollectorTypeOK, OneCalls, Calling, SteadyIsActive
  <2>3. CallerInv'
    BY DEF CollectorTypeOK, OneCalls, Calling, SteadyIsActive, CallerInv, Slaves
  <2>4. StampsAreFresh'
    BY DEF CollectorTypeOK, OneCalls, Calling, CallerInv, StampsAreFresh
  <2>5. StampsInTime'
    BY DEF CollectorTypeOK, OneCalls, Calling, CallerInv, StampsInTime
  <2> QED
    BY <2>1, <2>2, <2>3, <2>4, <2>5
<1>10. ASSUME NEW t \in 1 .. MaxTime, SetBack(t)
      PROVE  CollectorInv'
  <2> USE <1>10 DEF SetBack, Change, GoOn
  <2>1. CollectorTypeOK'
    BY DEF CollectorTypeOK
  <2>2. OneCalls' /\ SteadyIsActive'
    BY DEF CollectorTypeOK, OneCalls, Calling, SteadyIsActive
  <2>3. CallerInv'
    BY DEF CollectorTypeOK, OneCalls, Calling, SteadyIsActive, CallerInv, Slaves
  <2>4. StampsAreFresh'
    BY DEF CollectorTypeOK, OneCalls, Calling, CallerInv, StampsAreFresh
  <2>5. StampsInTime'
    BY DEF CollectorTypeOK, OneCalls, Calling, CallerInv, StampsInTime
  <2> QED
    BY <2>1, <2>2, <2>3, <2>4, <2>5
<1> QED
  BY <1>0, <1>1, <1>2, <1>3, <1>4, <1>5, <1>6, <1>7, <1>8, <1>9, <1>10 DEF CollectorNext, Collect

(* The inductive invariant of the collector.                               *)
THEOREM CollectorInvariance == ASSUME Serial PROVE CollectorSpec => []CollectorInv
<1>1. Serial
  OBVIOUS
<1>2. Serial /\ CollectorInv /\ [CollectorNext]_collectorvars => CollectorInv'
  BY NextCollectorInv
<1> QED
  BY <1>1, <1>2, InitCollectorInv, PTL DEF CollectorSpec

(* All variables keep their types, and the clock stays above zero.         *)
THEOREM CollectorTypeCorrect == ASSUME Serial PROVE CollectorSpec => []CollectorTypeOK
<1>1. CollectorInv => CollectorTypeOK
  BY DEF CollectorInv
<1> QED
  BY <1>1, CollectorInvariance, PTL

(* When the collector calls back, every active slave has new data.         *)
THEOREM FreshAtCallbackHolds == ASSUME Serial PROVE CollectorSpec => []FreshAtCallback
<1>1. ASSUME CollectorInv PROVE FreshAtCallback
  <2> SUFFICES ASSUME NEW i \in Slaves, InCallback(i) PROVE steady \subseteq fresh
    BY DEF FreshAtCallback
  <2>1. receive_timeout # 0 /\ place[i] = count /\ steady \subseteq Slaves
    BY <1>1 DEF CollectorInv, CollectorTypeOK, CallerInv, InCallback
  <2>2. \A j \in steady : timestamps[j] # 0
    BY <1>1, <2>1, CollectorAssumption DEF CollectorInv, CallerInv, InCallback, Slaves
  <2> QED
    BY <1>1, <2>1, <2>2 DEF CollectorInv, StampsAreFresh
<1> QED
  BY <1>1, CollectorInvariance, PTL

(* What it calls back for has been collected within the timeout, as long   *)
(* as nobody has set the clock back.                                       *)
THEOREM InTimeHolds == ASSUME Serial PROVE CollectorSpec => []InTime
<1>1. ASSUME CollectorInv PROVE InTime
  <2> SUFFICES ASSUME NEW k \in Slaves, InCallback(k), ~set_back,
                      NEW i \in steady, NEW j \in steady
               PROVE  timestamps[i] # 0 /\ timestamps[j] <= timestamps[i] + timeout
    BY DEF InTime
  <2>1. receive_timeout # 0 /\ place[k] = count /\ steady \subseteq Slaves
    BY <1>1 DEF CollectorInv, CollectorTypeOK, CallerInv, InCallback
  <2>2. timestamps[i] # 0 /\ timestamps[j] # 0
    BY <1>1, <2>1, CollectorAssumption DEF CollectorInv, CallerInv, InCallback, Slaves
  <2>3. timestamps[j] <= receive_timeout /\ receive_timeout <= timestamps[i] + timeout
    BY <1>1, <2>1, <2>2 DEF CollectorInv, StampsInTime
  <2> QED
    BY <1>1, <2>1, <2>2, <2>3 DEF CollectorInv, CollectorTypeOK
<1> QED
  BY <1>1, CollectorInvariance, PTL
=============================================================================
