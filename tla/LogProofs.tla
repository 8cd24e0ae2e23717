------------------------------ MODULE LogProofs ------------------------------
(***************************************************************************)
(* Proofs about logging: the log thread for every set of loggers, every    *)
(* pool and every number of messages, and the ring buffer of the dump log  *)
(* for all sizes, all lengths of texts and any number of writes.           *)
(*                                                                         *)
(* The log thread: its type invariant, that an object that waits to be     *)
(* printed always has a message in it, and that what is queued is printed  *)
(* in order and nothing twice.                                             *)
(*                                                                         *)
(* The ring buffer: TextIsNewest is not inductive: it says nothing in the  *)
(* middle of a write, and nothing of where the indices stand to each       *)
(* other.  The invariant says for every place of the memory that is part   *)
(* of the text which character it holds, also between the rounds of a      *)
(* write: places before write_start count back from the character written  *)
(* last, and, in a full buffer, places from read_start on count back from  *)
(* the end of the memory.                                                  *)
(***************************************************************************)
EXTENDS LogThread, CharRingbuffer, FiniteSetTheorems, SequenceTheorems, TLAPS

-----------------------------------------------------------------------------
(* The log thread. *)

(* An object has a message in it from the moment a logger has taken it out *)
(* of the pool to the moment the log thread has printed it.                *)
Filled ==
  /\ \A l \in Loggers : \A o \in obj[l] : buf[o] # 0
  /\ \A i \in 1 .. Len(full_pool) : buf[full_pool[i]] # 0
  /\ \A o \in printing : buf[o] # 0

IInv == TypeOK /\ Filled

(* SetToSeq enumerates a finite set. *)
LEMMA PoolInSequence == SetToSeq(Pool) \in Seq(Pool)
<1>1. /\ Cardinality(Pool) \in Nat
      /\ \E f : f \in Bijection(1 .. Cardinality(Pool), Pool)
  BY PoolAssumption, FS_CardinalityType DEF ExistsBijection
<1>2. PICK f \in [1 .. Cardinality(Pool) -> Pool] : IsInjective(f)
  BY <1>1 DEF Bijection, Injection, IsInjective
<1>3. SetToSeq(Pool) \in [1 .. Cardinality(Pool) -> Pool]
  BY <1>2 DEF SetToSeq
<1> QED BY <1>1, <1>3

LEMMA InitInv == Init => IInv
<1> SUFFICES ASSUME Init PROVE IInv
  OBVIOUS
<1>1. /\ <<>> \in Seq(Pool) /\ Len(<<>>) = 0
      /\ <<>> \in Seq(Messages) /\ 0 \in Messages \cup {0}
  BY EmptySeq
<1>2. TypeOK
  BY <1>1, PoolInSequence, BoundAssumption DEF Init, TypeOK
<1>3. Filled
  BY <1>1 DEF Init, Filled
<1> QED BY <1>2, <1>3 DEF IInv

(* The log thread takes the first message, or ends its round.              *)
LEMMA DrainStep ==
  ASSUME IInv, NEW value \in BOOLEAN, Drain(value), UNCHANGED buf
  PROVE  /\ full_pool' \in Seq(Pool)
         /\ log_thread_value' \in BOOLEAN
         /\ printing' \in SUBSET Pool
         /\ at' \in {"start", "wait", "print", "done", "gone"}
         /\ \A i \in 1 .. Len(full_pool') : buf'[full_pool'[i]] # 0
         /\ \A o \in printing' : buf'[o] # 0
<1>1. CASE full_pool # <<>>
  <2>1. /\ Head(full_pool) = full_pool[1] /\ Head(full_pool) \in Pool
        /\ Len(full_pool) \in Nat \ {0}
        /\ Tail(full_pool) \in Seq(Pool) /\ Len(Tail(full_pool)) = Len(full_pool) - 1
        /\ \A i \in 1 .. Len(Tail(full_pool)) : Tail(full_pool)[i] = full_pool[i + 1]
    BY <1>1, HeadTailProperties, EmptySeq DEF IInv, TypeOK
  <2>2. /\ at' = "print" /\ printing' = {full_pool[1]} /\ full_pool' = Tail(full_pool)
        /\ log_thread_value' = value
    BY <1>1, <2>1 DEF Drain
  <2>3. buf[full_pool[1]] # 0
    BY <2>1 DEF IInv, Filled
  <2>4. \A i \in 1 .. Len(Tail(full_pool)) : buf[Tail(full_pool)[i]] # 0
    <3> TAKE i \in 1 .. Len(Tail(full_pool))
    <3>1. i + 1 \in 1 .. Len(full_pool)
      BY <2>1
    <3> QED BY <2>1, <3>1 DEF IInv, Filled
  <2> QED BY <2>1, <2>2, <2>3, <2>4
<1>2. CASE full_pool = <<>>
  BY <1>2 DEF Drain, IInv, TypeOK, Filled
<1> QED BY <1>1, <1>2

(* What is appended to a sequence is its last element. *)
LEMMA Appended ==
  ASSUME NEW S, NEW q \in Seq(S), NEW e \in S
  PROVE  /\ Append(q, e) \in Seq(S)
         /\ \A i \in 1 .. Len(Append(q, e)) :
              (i \in 1 .. Len(q) /\ Append(q, e)[i] = q[i]) \/ Append(q, e)[i] = e
<1>1. /\ Append(q, e) \in Seq(S) /\ Len(q) \in Nat /\ Len(Append(q, e)) = Len(q) + 1
      /\ \A i \in 1 .. Len(q) : Append(q, e)[i] = q[i]
      /\ Append(q, e)[Len(q) + 1] = e
  BY AppendProperties
<1>2. \A i \in 1 .. Len(Append(q, e)) : i \in 1 .. Len(q) \/ i = Len(q) + 1
  BY <1>1
<1> QED BY <1>1, <1>2

-----------------------------------------------------------------------------
LEMMA GetStep ==
  ASSUME IInv, NEW l \in Loggers, GetPoolObject(l)
  PROVE  IInv'
<1> DEFINE o == Head(empty_pool)
<1>1. o \in Pool /\ Tail(empty_pool) \in Seq(Pool)
  BY HeadTailProperties DEF IInv, TypeOK, GetPoolObject
<1>2. messages' \in Messages /\ messages' # 0
  BY BoundAssumption DEF IInv, TypeOK, GetPoolObject, Messages
<1>3. /\ empty_pool' = Tail(empty_pool) /\ obj' = [obj EXCEPT ![l] = {o}]
      /\ buf' = [buf EXCEPT ![o] = messages']
  BY DEF GetPoolObject
<1>4. raced' \in SUBSET returning /\ returning' = returning /\ lost' = lost
  BY DEF GetPoolObject, Access, IInv, TypeOK
<1>5. /\ UNCHANGED <<full_pool, sync_logging, stopping, queued, printed>>
      /\ UNCHANGED <<log_thread_value, run_flag, at, printing>>
  BY DEF GetPoolObject, threadvars
<1>6. TypeOK'
  BY <1>1, <1>2, <1>3, <1>4, <1>5 DEF IInv, TypeOK
<1>7. \A p \in Pool : buf'[p] # 0 \/ (p # o /\ buf'[p] = buf[p])
  <2>1. \A p \in Pool : buf'[p] = IF p = o THEN messages' ELSE buf[p]
    BY <1>1, <1>3 DEF IInv, TypeOK
  <2> SUFFICES ASSUME NEW p \in Pool PROVE buf'[p] # 0 \/ (p # o /\ buf'[p] = buf[p])
    OBVIOUS
  <2>2. CASE p = o
    BY <1>2, <2>1, <2>2
  <2>3. CASE p # o
    BY <2>1, <2>3
  <2> QED BY <2>2, <2>3
<1>8. \A i \in 1 .. Len(full_pool) : full_pool[i] \in Pool
  BY DEF IInv, TypeOK
<1>9. \A k \in Loggers : \A p \in obj'[k] : p \in Pool /\ (p = o \/ p \in obj[k])
  BY <1>1, <1>3 DEF IInv, TypeOK
<1>10. Filled'
  <2>1. \A k \in Loggers : \A p \in obj'[k] : buf'[p] # 0
    BY <1>7, <1>9 DEF IInv, Filled
  <2>2. \A i \in 1 .. Len(full_pool') : buf'[full_pool'[i]] # 0
    BY <1>5, <1>7, <1>8 DEF IInv, Filled
  <2>3. \A p \in printing' : buf'[p] # 0
    BY <1>5, <1>7 DEF IInv, Filled, TypeOK
  <2> QED BY <2>1, <2>2, <2>3 DEF Filled
<1> QED BY <1>6, <1>10 DEF IInv

(* What a logger does with an object it holds.                              *)
LEMMA LogStep ==
  ASSUME IInv, NEW l \in Loggers, Log(l)
  PROVE  IInv'
<1>1. CASE PrintSync(l)
  <2>1. PICK o \in obj[l] : /\ printed' = Append(printed, buf[o])
                            /\ empty_pool' = Append(empty_pool, o)
    BY <1>1 DEF PrintSync
  <2>2. o \in Pool /\ buf[o] \in Messages
    BY <2>1 DEF IInv, TypeOK, Filled
  <2>3. printed' \in Seq(Messages) /\ empty_pool' \in Seq(Pool)
    BY <2>1, <2>2, Appended DEF IInv, TypeOK
  <2>4. raced' \in SUBSET returning /\ returning' = returning /\ lost' = lost
    BY <1>1 DEF PrintSync, Access, IInv, TypeOK
  <2>5. /\ obj' = [obj EXCEPT ![l] = {}]
        /\ UNCHANGED <<full_pool, buf, sync_logging, stopping, messages, queued>>
        /\ UNCHANGED <<log_thread_value, run_flag, at, printing>>
    BY <1>1 DEF PrintSync, threadvars
  <2> QED BY <2>3, <2>4, <2>5 DEF IInv, TypeOK, Filled
<1>2. CASE Queue(l)
  <2>1. PICK o \in obj[l] : /\ full_pool' = Append(full_pool, o)
                            /\ queued' = Append(queued, buf[o])
    BY <1>2 DEF Queue
  <2>2. o \in Pool /\ buf[o] \in Messages /\ buf[o] # 0
    BY <2>1 DEF IInv, TypeOK, Filled
  <2>3. queued' \in Seq(Messages) /\ full_pool' \in Seq(Pool)
    BY <2>1, <2>2, Appended DEF IInv, TypeOK
  <2>4. /\ obj' = [obj EXCEPT ![l] = {}] /\ log_thread_value' = TRUE
        /\ UNCHANGED <<empty_pool, buf, sync_logging, run_flag, at, printing, stopping,
                       messages, printed>>
        /\ UNCHANGED <<returning, raced, lost>>
    BY <1>2 DEF Queue, racevars
  <2>5. \A i \in 1 .. Len(full_pool') : buf[full_pool'[i]] # 0
    <3>1. full_pool \in Seq(Pool) /\ \A i \in 1 .. Len(full_pool) : buf[full_pool[i]] # 0
      BY DEF IInv, TypeOK, Filled
    <3>2. \A i \in 1 .. Len(full_pool') :
            (i \in 1 .. Len(full_pool) /\ full_pool'[i] = full_pool[i]) \/ full_pool'[i] = o
      BY <2>1, <2>2, <3>1, Appended
    <3> QED BY <2>2, <3>1, <3>2
  <2> QED BY <2>3, <2>4, <2>5 DEF IInv, TypeOK, Filled
<1>3. CASE ReturnPoolObject(l)
  BY <1>3 DEF ReturnPoolObject, threadvars, IInv, TypeOK, Filled
<1>4. CASE Returned(l)
  <2>1. PICK o \in obj[l] :
          \/ empty_pool' = Append(empty_pool, o) /\ UNCHANGED lost
          \/ l \in raced /\ lost' = lost \cup {o} /\ UNCHANGED empty_pool
    BY <1>4 DEF Returned
  <2>2. o \in Pool
    BY <2>1 DEF IInv, TypeOK
  <2>3. empty_pool \in Seq(Pool) /\ lost \in SUBSET Pool
    BY DEF IInv, TypeOK
  <2>4. Append(empty_pool, o) \in Seq(Pool)
    BY <2>2, <2>3, Appended
  <2>5. empty_pool' \in Seq(Pool) /\ lost' \in SUBSET Pool
    BY <2>1, <2>2, <2>3, <2>4
  <2> QED BY <1>4, <2>5 DEF Returned, threadvars, IInv, TypeOK, Filled
<1> QED BY <1>1, <1>2, <1>3, <1>4 DEF Log

LEMMA RunStep ==
  ASSUME IInv, Run
  PROVE  IInv'
<1>1. CASE Running \/ Wake
  <2>1. /\ UNCHANGED <<empty_pool, buf, sync_logging, run_flag, obj, stopping, messages,
                       queued, printed>>
        /\ UNCHANGED <<returning, raced, lost>>
    BY <1>1 DEF Running, Wake, racevars
  <2>2. CASE Drain(FALSE)
    BY <2>1, <2>2, DrainStep DEF IInv, TypeOK, Filled
  <2>3. CASE /\ at' = IF run_flag THEN "wait" ELSE "done"
             /\ UNCHANGED <<full_pool, log_thread_value, printing>>
    BY <2>1, <2>3 DEF IInv, TypeOK, Filled
  <2> QED BY <1>1, <2>2, <2>3 DEF Running, Wake
<1>2. CASE PrintNext
  <2>1. PICK o \in printing : /\ printed' = Append(printed, buf[o])
                              /\ empty_pool' = Append(empty_pool, o)
    BY <1>2 DEF PrintNext
  <2>2. o \in Pool /\ buf[o] \in Messages
    BY <2>1 DEF IInv, TypeOK, Filled
  <2>3. printed' \in Seq(Messages) /\ empty_pool' \in Seq(Pool)
    BY <2>1, <2>2, Appended DEF IInv, TypeOK
  <2>4. raced' \in SUBSET returning /\ returning' = returning /\ lost' = lost
    BY <1>2 DEF PrintNext, Access, IInv, TypeOK
  <2>5. /\ log_thread_value \in BOOLEAN /\ Drain(log_thread_value)
        /\ UNCHANGED <<buf, sync_logging, run_flag, obj, stopping, messages, queued>>
    BY <1>2 DEF PrintNext, IInv, TypeOK
  <2> QED BY <2>3, <2>4, <2>5, DrainStep DEF IInv, TypeOK, Filled
<1> QED BY <1>1, <1>2 DEF Run

(* The destructor writes out the messages of the objects still queued.     *)
LEMMA CleanUpStep ==
  ASSUME IInv, CleanUp
  PROVE  IInv'
<1> DEFINE rest == [i \in DOMAIN full_pool |-> buf[full_pool[i]]]
<1>1. /\ Len(full_pool) \in Nat /\ DOMAIN full_pool = 1 .. Len(full_pool)
      /\ \A i \in 1 .. Len(full_pool) : full_pool[i] \in Pool
  BY DEF IInv, TypeOK
<1>2. \A i \in 1 .. Len(full_pool) : buf[full_pool[i]] \in Messages
  BY <1>1 DEF IInv, TypeOK, Filled
<1>3. rest \in [1 .. Len(full_pool) -> Messages]
  BY <1>1, <1>2
<1>4. rest \in Seq(Messages)
  BY <1>1, <1>3
<1>5. printed' \in Seq(Messages)
  BY <1>4, ConcatProperties DEF CleanUp, IInv, TypeOK
<1>6. <<>> \in Seq(Pool) /\ Len(<<>>) = 0
  BY EmptySeq
<1> QED BY <1>5, <1>6 DEF CleanUp, racevars, IInv, TypeOK, Filled

LEMMA NextInv == IInv /\ [Next]_vars => IInv'
<1> SUFFICES ASSUME IInv, [Next]_vars PROVE IInv'
  OBVIOUS
<1>1. ASSUME NEW l \in Loggers, GetPoolObject(l) PROVE IInv'
  BY <1>1, GetStep
<1>2. ASSUME NEW l \in Loggers, Log(l) PROVE IInv'
  BY <1>2, LogStep
<1>3. CASE ConfigSyncLogging
  BY <1>3 DEF ConfigSyncLogging, threadvars, racevars, IInv, TypeOK, Filled
<1>4. CASE Run
  BY <1>4, RunStep
<1>5. CASE Stop
  BY <1>5 DEF Stop, racevars, IInv, TypeOK, Filled
<1>6. CASE CleanUp
  BY <1>6, CleanUpStep
<1>7. CASE UNCHANGED vars
  BY <1>7 DEF vars, threadvars, racevars, IInv, TypeOK, Filled
<1> QED BY <1>1, <1>2, <1>3, <1>4, <1>5, <1>6, <1>7 DEF Next

-----------------------------------------------------------------------------
(* The inductive invariant holds of every behaviour.                       *)
THEOREM Invariance == Spec => []IInv
BY InitInv, NextInv, PTL DEF Spec

(* The type invariant of the log thread: what is printed are messages, and  *)
(* the lists hold objects of the pool.                                     *)
THEOREM TypeCorrect == Spec => []TypeOK
<1>1. IInv => TypeOK
  BY DEF IInv
<1> QED BY <1>1, Invariance, PTL
-----------------------------------------------------------------------------
(* The order in which messages are printed.                                *)

(* An object is in one place at a time. *)
PlacesApart ==
  /\ IsInjective(empty_pool) /\ IsInjective(full_pool)
  /\ ToSet(empty_pool) \cap (ToSet(full_pool) \cup printing) = {}
  /\ ToSet(full_pool) \cap printing = {}
  /\ \A o, p \in printing : o = p
  /\ \A l \in Loggers :
       /\ obj[l] \cap (ToSet(empty_pool) \cup ToSet(full_pool) \cup printing) = {}
       /\ \A k \in Loggers \ {l} : obj[l] \cap obj[k] = {}

(* The objects whose message is not printed yet. *)
InFlight ==
  {o \in Pool : o \in ToSet(full_pool) \cup printing \/ \E l \in Loggers : o \in obj[l]}

(* Messages differ; one in flight has not been printed, and it has been    *)
(* queued only when its object is not with a logger any more.              *)
MessagesApart ==
  /\ \A o \in Pool : buf[o] <= messages
  /\ \A m \in ToSet(queued) \cup ToSet(printed) : m <= messages
  /\ IsInjective(queued) /\ IsInjective(printed)
  /\ \A o, p \in InFlight : buf[o] = buf[p] => o = p
  /\ \A o \in InFlight : buf[o] \notin ToSet(printed)
  /\ \A l \in Loggers : \A o \in obj[l] : buf[o] \notin ToSet(queued)

(* How many of the queued messages the log thread has printed.             *)
Through == Len(queued) - Len(full_pool) - IF at = "print" THEN 1 ELSE 0

(* The queued messages are, in this order, those printed, the one that is  *)
(* being printed and those in the list.                                    *)
QueueInv ==
  /\ at = "print" <=> printing # {}
  /\ Through \in Nat
  /\ \A i \in 1 .. Through : queued[i] \in ToSet(printed)
  /\ \A o \in printing : queued[Through + 1] = buf[o]
  /\ \A i \in 1 .. Len(full_pool) :
       queued[Len(queued) - Len(full_pool) + i] = buf[full_pool[i]]

OrderInv == PlacesApart /\ MessagesApart /\ QueueInv /\ PrintedInOrder

(* The elements of a list. *)
LEMMA InList ==
  ASSUME NEW S, NEW s \in Seq(S)
  PROVE  /\ Len(s) \in Nat /\ DOMAIN s = 1 .. Len(s) /\ ToSet(s) \subseteq S
         /\ \A i \in 1 .. Len(s) : s[i] \in ToSet(s) /\ s[i] \in S
         /\ \A e \in ToSet(s) : \E i \in 1 .. Len(s) : s[i] = e
BY DEF ToSet

(* Appending to a list. *)
LEMMA AppendToList ==
  ASSUME NEW S, NEW s \in Seq(S), NEW e \in S
  PROVE  /\ Append(s, e) \in Seq(S) /\ Len(Append(s, e)) = Len(s) + 1
         /\ \A i \in 1 .. Len(s) : Append(s, e)[i] = s[i]
         /\ Append(s, e)[Len(s) + 1] = e
         /\ ToSet(Append(s, e)) = ToSet(s) \cup {e}
         /\ IsInjective(s) /\ e \notin ToSet(s) => IsInjective(Append(s, e))
<1> DEFINE t == Append(s, e)
<1>1. /\ t \in Seq(S) /\ Len(s) \in Nat /\ Len(t) = Len(s) + 1
      /\ \A i \in 1 .. Len(s) : t[i] = s[i]
      /\ t[Len(s) + 1] = e
  BY AppendProperties
<1>2. DOMAIN s = 1 .. Len(s) /\ DOMAIN t = 1 .. Len(s) + 1
  BY <1>1, InList
<1> HIDE DEF t
<1>3. \A i \in DOMAIN t : (i \in DOMAIN s /\ t[i] = s[i]) \/ (i = Len(s) + 1 /\ t[i] = e)
  BY <1>1, <1>2
<1>4. ToSet(t) = ToSet(s) \cup {e}
  <2>1. ToSet(t) \subseteq ToSet(s) \cup {e}
    BY <1>3 DEF ToSet
  <2>2. ToSet(s) \subseteq ToSet(t)
    BY <1>1, <1>2 DEF ToSet
  <2>3. e \in ToSet(t)
    BY <1>1, <1>2 DEF ToSet
  <2> QED BY <2>1, <2>2, <2>3
<1>5. ASSUME IsInjective(s), e \notin ToSet(s)
      PROVE  IsInjective(t)
  <2> SUFFICES ASSUME NEW i \in DOMAIN t, NEW j \in DOMAIN t, t[i] = t[j] PROVE i = j
    BY DEF IsInjective
  <2> QED BY <1>3, <1>5 DEF IsInjective, ToSet
<1> QED BY <1>1, <1>4, <1>5 DEF t

(* Taking the first element of a list. *)
LEMMA HeadOfList ==
  ASSUME NEW S, NEW s \in Seq(S), s # <<>>
  PROVE  /\ Head(s) = s[1] /\ Head(s) \in S /\ Tail(s) \in Seq(S)
         /\ Len(s) \in Nat \ {0} /\ Len(Tail(s)) = Len(s) - 1
         /\ \A i \in 1 .. Len(Tail(s)) : Tail(s)[i] = s[i + 1]
         /\ ToSet(s) = {Head(s)} \cup ToSet(Tail(s))
         /\ IsInjective(s) => IsInjective(Tail(s)) /\ Head(s) \notin ToSet(Tail(s))
<1> DEFINE t == Tail(s)
           h == Head(s)
<1>1. /\ h = s[1] /\ h \in S /\ Len(s) \in Nat \ {0}
      /\ t \in Seq(S) /\ Len(t) = Len(s) - 1
      /\ \A i \in 1 .. Len(t) : t[i] = s[i + 1]
  BY HeadTailProperties, EmptySeq
<1>2. DOMAIN s = 1 .. Len(s) /\ DOMAIN t = 1 .. Len(s) - 1
  BY <1>1, InList
<1> HIDE DEF t, h
<1>3. \A i \in DOMAIN t : i + 1 \in DOMAIN s /\ t[i] = s[i + 1]
  BY <1>1, <1>2
<1>4. \A i \in DOMAIN s : (i = 1 /\ s[i] = h) \/ (i - 1 \in DOMAIN t /\ s[i] = t[i - 1])
  <2> SUFFICES ASSUME NEW i \in DOMAIN s, i # 1 PROVE i - 1 \in DOMAIN t /\ s[i] = t[i - 1]
    BY <1>1
  <2>1. i - 1 \in DOMAIN t /\ i - 1 \in 1 .. Len(t) /\ (i - 1) + 1 = i
    BY <1>1, <1>2
  <2> QED BY <1>1, <2>1
<1>5. ToSet(s) = {h} \cup ToSet(t)
  <2>1. ToSet(s) \subseteq {h} \cup ToSet(t)
    BY <1>4 DEF ToSet
  <2>2. ToSet(t) \subseteq ToSet(s)
    BY <1>3 DEF ToSet
  <2>3. h \in ToSet(s)
    BY <1>1, <1>2 DEF ToSet
  <2> QED BY <2>1, <2>2, <2>3
<1>6. ASSUME IsInjective(s)
      PROVE  IsInjective(t) /\ h \notin ToSet(t)
  <2>1. IsInjective(t)
    <3> SUFFICES ASSUME NEW i \in DOMAIN t, NEW j \in DOMAIN t, t[i] = t[j] PROVE i = j
      BY DEF IsInjective
    <3>1. i + 1 = j + 1
      BY <1>3, <1>6 DEF IsInjective
    <3> QED BY <1>2, <1>1, <3>1
  <2>2. \A i \in DOMAIN t : t[i] # h
    <3> SUFFICES ASSUME NEW i \in DOMAIN t, t[i] = h PROVE FALSE
      OBVIOUS
    <3>1. i + 1 = 1
      BY <1>1, <1>2, <1>3, <1>6 DEF IsInjective
    <3> QED BY <1>1, <1>2, <3>1
  <2> QED BY <2>1, <2>2 DEF ToSet
<1> QED BY <1>1, <1>5, <1>6 DEF t, h

(* Initially every object is in the pool.                                  *)
LEMMA InitOrder == Init => OrderInv
<1> SUFFICES ASSUME Init PROVE OrderInv
  OBVIOUS
<1>1. ToSet(<<>>) = {} /\ IsInjective(<<>>) /\ Len(<<>>) = 0 /\ DOMAIN <<>> = {}
  BY DEF ToSet, IsInjective
<1>2. IsInjective(SetToSeq(Pool))
  <2>1. /\ Cardinality(Pool) \in Nat
        /\ \E f : f \in Bijection(1 .. Cardinality(Pool), Pool)
    BY PoolAssumption, FS_CardinalityType DEF ExistsBijection
  <2>2. PICK f \in [1 .. Cardinality(Pool) -> Pool] : IsInjective(f)
    BY <2>1 DEF Bijection, Injection, IsInjective
  <2> QED BY <2>2 DEF SetToSeq
<1>3. PlacesApart
  BY <1>1, <1>2 DEF Init, PlacesApart
<1>4. MessagesApart
  BY <1>1 DEF Init, MessagesApart, InFlight
<1>5. QueueInv
  BY <1>1 DEF Init, QueueInv, Through
<1>6. PrintedInOrder
  BY <1>1 DEF Init, PrintedInOrder
<1> QED BY <1>3, <1>4, <1>5, <1>6 DEF OrderInv

(* Steps after which no object has a message in flight that had none.      *)
LEMMA MessagesKept ==
  ASSUME MessagesApart, InFlight' \subseteq InFlight, UNCHANGED <<buf, messages, queued, printed>>,
         \A l \in Loggers : obj'[l] \subseteq obj[l]
  PROVE  MessagesApart'
BY DEF MessagesApart

(* Steps that print the message of an object in flight.                    *)
LEMMA MessagesPrinted ==
  ASSUME IInv, MessagesApart, NEW o \in InFlight, InFlight' \subseteq InFlight \ {o},
         printed' = Append(printed, buf[o]), UNCHANGED <<buf, messages, queued>>,
         \A l \in Loggers : obj'[l] \subseteq obj[l], buf[o] \in Messages
  PROVE  MessagesApart'
<1>1. o \in Pool /\ printed \in Seq(Messages)
  BY DEF InFlight, IInv, TypeOK
<1>2. /\ ToSet(printed') = ToSet(printed) \cup {buf[o]}
      /\ IsInjective(printed) /\ buf[o] \notin ToSet(printed) => IsInjective(printed')
  BY <1>1, AppendToList
<1>3. IsInjective(printed') /\ \A m \in ToSet(queued') \cup ToSet(printed') : m <= messages'
  BY <1>1, <1>2 DEF MessagesApart
<1>4. \A p \in InFlight' : buf'[p] \notin ToSet(printed')
  BY <1>2 DEF MessagesApart
<1> QED BY <1>3, <1>4 DEF MessagesApart

(* The next message printed is either one that is not queued, or the one   *)
(* after those printed already.                                            *)
LEMMA PrintedNext ==
  ASSUME IInv, PrintedInOrder, NEW m \in Messages, m \notin ToSet(printed),
         printed' = Append(printed, m), queued' = queued, IsInjective(queued),
         \/ m \notin ToSet(queued)
         \/ \E q \in DOMAIN queued :
              queued[q] = m /\ \A i \in 1 .. q - 1 : queued[i] \in ToSet(printed)
  PROVE  PrintedInOrder'
<1>1. /\ printed \in Seq(Messages) /\ queued \in Seq(Messages)
      /\ Len(queued) \in Nat /\ DOMAIN queued = 1 .. Len(queued)
      /\ Len(printed) \in Nat /\ DOMAIN printed = 1 .. Len(printed)
      /\ \A e \in ToSet(printed) : \E i \in 1 .. Len(printed) : printed[i] = e
      /\ \A i \in 1 .. Len(queued) : queued[i] \in ToSet(queued)
  BY InList DEF IInv, TypeOK
<1>2. /\ printed' \in Seq(Messages) /\ Len(printed') = Len(printed) + 1
      /\ \A i \in 1 .. Len(printed) : printed'[i] = printed[i]
      /\ printed'[Len(printed) + 1] = m
      /\ IsInjective(printed')
  BY <1>1, AppendToList DEF PrintedInOrder
<1>3. DOMAIN printed' = 1 .. Len(printed) + 1
  BY <1>1, <1>2, InList
<1>4. SUFFICES ASSUME NEW i \in DOMAIN queued, NEW j \in DOMAIN queued, NEW k \in DOMAIN printed',
                      i < j, printed'[k] = queued[j]
               PROVE  \E h \in 1 .. k - 1 : printed'[h] = queued[i]
  BY <1>2 DEF PrintedInOrder
<1>5. CASE k \in 1 .. Len(printed)
  <2>1. PICK h \in 1 .. k - 1 : printed[h] = queued[i]
    BY <1>1, <1>2, <1>4, <1>5 DEF PrintedInOrder
  <2>2. h \in 1 .. Len(printed)
    BY <1>1, <1>5, <2>1
  <2> QED BY <1>2, <2>1, <2>2
<1>6. CASE k = Len(printed) + 1
  <2>1. queued[j] = m
    BY <1>2, <1>4, <1>6
  <2>2. PICK q \in DOMAIN queued : queued[q] = m /\ \A x \in 1 .. q - 1 : queued[x] \in ToSet(printed)
    BY <1>1, <2>1
  <2>3. q = j
    BY <2>1, <2>2 DEF IsInjective
  <2>4. queued[i] \in ToSet(printed)
    BY <1>1, <1>4, <2>2, <2>3
  <2>5. PICK h \in 1 .. Len(printed) : printed[h] = queued[i]
    BY <1>1, <2>4
  <2> QED BY <1>1, <1>2, <1>6, <2>5
<1> QED BY <1>1, <1>3, <1>5, <1>6

(* Steps that leave the queue and the log thread alone.                    *)
LEMMA QueueKept ==
  ASSUME IInv, QueueInv, UNCHANGED <<full_pool, at, printing, queued>>,
         ToSet(printed) \subseteq ToSet(printed)',
         \A o \in ToSet(full_pool) \cup printing : buf'[o] = buf[o]
  PROVE  QueueInv'
<1>1. \A i \in 1 .. Len(full_pool) : full_pool[i] \in ToSet(full_pool)
  BY InList DEF IInv, TypeOK
<1> QED BY <1>1 DEF QueueInv, Through

(* The log thread takes the next message of the queue.                     *)
LEMMA QueueDrained ==
  ASSUME IInv, NEW value \in BOOLEAN, Drain(value), UNCHANGED <<buf, queued>>,
         Len(queued) - Len(full_pool) \in Nat,
         \A i \in 1 .. Len(queued) - Len(full_pool) : queued[i] \in ToSet(printed)',
         \A i \in 1 .. Len(full_pool) : queued[Len(queued) - Len(full_pool) + i] = buf[full_pool[i]]
  PROVE  QueueInv'
<1>0. full_pool \in Seq(Pool) /\ queued \in Seq(Messages) /\ Len(queued) \in Nat /\ Len(full_pool) \in Nat
  BY InList DEF IInv, TypeOK
<1>1. CASE full_pool # <<>>
  <2>1. /\ Head(full_pool) = full_pool[1] /\ Len(full_pool) \in Nat \ {0}
        /\ Len(Tail(full_pool)) = Len(full_pool) - 1
        /\ \A i \in 1 .. Len(Tail(full_pool)) : Tail(full_pool)[i] = full_pool[i + 1]
    BY <1>0, <1>1, HeadOfList
  <2>2. at' = "print" /\ printing' = {full_pool[1]} /\ full_pool' = Tail(full_pool)
    BY <1>1, <2>1 DEF Drain
  <2>3. Through' = Len(queued) - Len(full_pool)
    BY <1>0, <2>1, <2>2 DEF Through
  <2>4. queued[Through' + 1] = buf[full_pool[1]]
    BY <1>0, <2>1, <2>3
  <2>5. \A i \in 1 .. Len(full_pool') :
          queued[Len(queued) - Len(full_pool') + i] = buf[full_pool'[i]]
    <3> TAKE i \in 1 .. Len(full_pool')
    <3>1. i + 1 \in 1 .. Len(full_pool) /\ full_pool'[i] = full_pool[i + 1]
      BY <1>0, <2>1, <2>2
    <3>2. Len(queued) - Len(full_pool') + i = Len(queued) - Len(full_pool) + (i + 1)
      BY <1>0, <2>1, <2>2
    <3> QED BY <3>1, <3>2
  <2> QED BY <2>2, <2>3, <2>4, <2>5 DEF QueueInv
<1>2. CASE full_pool = <<>>
  <2>1. /\ at' \in {"wait", "done"} /\ printing' = {} /\ full_pool' = full_pool
    BY <1>2 DEF Drain
  <2>2. Through' = Len(queued) - Len(full_pool)
    BY <1>0, <2>1 DEF Through
  <2> QED BY <2>1, <2>2 DEF QueueInv
<1> QED BY <1>1, <1>2

(* A logger takes an object: the message it puts into it is a new one.     *)
LEMMA GetOrder ==
  ASSUME IInv, IInv', OrderInv, NEW l \in Loggers, GetPoolObject(l)
  PROVE  OrderInv'
<1> DEFINE o == Head(empty_pool)
<1>0. /\ empty_pool # <<>> /\ empty_pool' = Tail(empty_pool) /\ messages' = messages + 1
      /\ obj[l] = {} /\ obj' = [obj EXCEPT ![l] = {o}] /\ buf' = [buf EXCEPT ![o] = messages']
      /\ UNCHANGED <<full_pool, at, printing, queued, printed>>
      /\ empty_pool \in Seq(Pool) /\ TypeOK
  BY DEF GetPoolObject, threadvars, IInv, TypeOK
<1>1. /\ o \in Pool /\ ToSet(empty_pool) = {o} \cup ToSet(empty_pool')
      /\ IsInjective(empty_pool) => IsInjective(empty_pool') /\ o \notin ToSet(empty_pool')
  BY <1>0, HeadOfList
<1>2. obj'[l] = {o} /\ \A k \in Loggers : k # l => obj'[k] = obj[k]
  BY <1>0 DEF TypeOK
<1>3. buf'[o] = messages + 1 /\ \A p \in Pool : p # o => buf'[p] = buf[p]
  BY <1>0, <1>1 DEF TypeOK
<1>4. o \notin InFlight /\ o \notin ToSet(full_pool) \cup printing
  BY <1>1 DEF OrderInv, PlacesApart, InFlight
<1>5. PlacesApart'
  BY <1>0, <1>1, <1>2 DEF OrderInv, PlacesApart
<1>6. \A p \in InFlight' : p = o \/ (p # o /\ p \in InFlight)
  BY <1>0, <1>2, <1>4 DEF InFlight
<1>7. messages \in Nat /\ \A p \in Pool : buf[p] \in Nat
  BY <1>0, BoundAssumption DEF TypeOK, Messages
<1>8. \A m \in ToSet(queued) \cup ToSet(printed) : m \in Nat
  <2>1. ToSet(queued) \subseteq Messages /\ ToSet(printed) \subseteq Messages
    BY <1>0, InList DEF TypeOK
  <2> QED BY <2>1 DEF Messages
<1>9. messages + 1 \notin ToSet(queued) \cup ToSet(printed)
  BY <1>7, <1>8 DEF OrderInv, MessagesApart
<1>10. MessagesApart'
  <2>1. \A p \in Pool : buf'[p] <= messages'
    BY <1>0, <1>3, <1>7 DEF OrderInv, MessagesApart
  <2>2. \A m \in ToSet(queued') \cup ToSet(printed') : m <= messages'
    BY <1>0, <1>7, <1>8 DEF OrderInv, MessagesApart
  <2>3. \A p \in InFlight : buf'[p] = buf[p] /\ buf[p] # messages + 1
    BY <1>3, <1>4, <1>7 DEF OrderInv, MessagesApart, InFlight
  <2>4. \A p, q \in InFlight' : buf'[p] = buf'[q] => p = q
    BY <1>3, <1>6, <2>3 DEF OrderInv, MessagesApart
  <2>5. \A p \in InFlight' : buf'[p] \notin ToSet(printed')
    BY <1>0, <1>3, <1>6, <1>9, <2>3 DEF OrderInv, MessagesApart
  <2>6. \A k \in Loggers : \A p \in obj'[k] : buf'[p] \notin ToSet(queued')
    <3> SUFFICES ASSUME NEW k \in Loggers, NEW p \in obj'[k] PROVE buf'[p] \notin ToSet(queued)
      BY <1>0
    <3>1. CASE k = l
      BY <3>1, <1>2, <1>3, <1>9
    <3>2. CASE k # l
      <4>1. p \in obj[k] /\ p \in InFlight
        BY <3>2, <1>0, <1>2 DEF InFlight, TypeOK
      <4> QED BY <4>1, <2>3 DEF OrderInv, MessagesApart
    <3> QED BY <3>1, <3>2
  <2> QED BY <1>0, <2>1, <2>2, <2>4, <2>5, <2>6 DEF OrderInv, MessagesApart
<1>11. QueueInv'
  <2>1. \A p \in ToSet(full_pool) \cup printing : buf'[p] = buf[p]
    <3>1. ToSet(full_pool) \cup printing \subseteq Pool
      BY <1>0, InList DEF TypeOK
    <3> QED BY <3>1, <1>3, <1>4
  <2> QED BY <1>0, <2>1, QueueKept DEF OrderInv
<1>12. PrintedInOrder'
  BY <1>0 DEF OrderInv, PrintedInOrder
<1> QED BY <1>5, <1>10, <1>11, <1>12 DEF OrderInv

(* With sync_logging a logger prints its message itself, beside the queue. *)
LEMMA PrintSyncOrder ==
  ASSUME IInv, IInv', OrderInv, NEW l \in Loggers, PrintSync(l)
  PROVE  OrderInv'
<1>0. PICK o \in obj[l] : printed' = Append(printed, buf[o]) /\ empty_pool' = Append(empty_pool, o)
  BY DEF PrintSync
<1>1. /\ obj' = [obj EXCEPT ![l] = {}]
      /\ UNCHANGED <<full_pool, buf, at, printing, messages, queued>>
      /\ TypeOK /\ o \in Pool /\ buf[o] \in Messages
  BY <1>0 DEF PrintSync, threadvars, IInv, TypeOK, Filled
<1>2. obj'[l] = {} /\ \A k \in Loggers : k # l => obj'[k] = obj[k]
  BY <1>1 DEF TypeOK
<1>3. /\ ToSet(empty_pool') = ToSet(empty_pool) \cup {o}
      /\ IsInjective(empty_pool) /\ o \notin ToSet(empty_pool) => IsInjective(empty_pool')
      /\ ToSet(printed') = ToSet(printed) \cup {buf[o]}
  BY <1>0, <1>1, AppendToList DEF TypeOK
<1>4. PlacesApart'
  BY <1>0, <1>1, <1>2, <1>3 DEF OrderInv, PlacesApart
<1>5. o \in InFlight /\ InFlight' \subseteq InFlight \ {o}
  BY <1>0, <1>1, <1>2 DEF OrderInv, PlacesApart, InFlight
<1>6. MessagesApart'
  BY <1>0, <1>1, <1>2, <1>5, MessagesPrinted DEF OrderInv
<1>7. QueueInv'
  BY <1>1, <1>3, QueueKept DEF OrderInv
<1>8. buf[o] \notin ToSet(printed) /\ buf[o] \notin ToSet(queued)
  BY <1>0, <1>5 DEF OrderInv, MessagesApart
<1>9. PrintedInOrder'
  BY <1>0, <1>1, <1>8, PrintedNext DEF OrderInv, MessagesApart
<1> QED BY <1>4, <1>6, <1>7, <1>9 DEF OrderInv

(* A message is queued behind the others.                                  *)
LEMMA QueueOrder ==
  ASSUME IInv, IInv', OrderInv, NEW l \in Loggers, Queue(l)
  PROVE  OrderInv'
<1>0. PICK o \in obj[l] : full_pool' = Append(full_pool, o) /\ queued' = Append(queued, buf[o])
  BY DEF Queue
<1>1. /\ obj' = [obj EXCEPT ![l] = {}]
      /\ UNCHANGED <<empty_pool, buf, at, printing, messages, printed>>
      /\ TypeOK /\ o \in Pool /\ buf[o] \in Messages
  BY <1>0 DEF Queue, IInv, TypeOK, Filled
<1>2. obj'[l] = {} /\ \A k \in Loggers : k # l => obj'[k] = obj[k]
  BY <1>1 DEF TypeOK
<1>3. full_pool \in Seq(Pool) /\ queued \in Seq(Messages) /\ Len(full_pool) \in Nat /\ Len(queued) \in Nat
  BY <1>1, InList DEF TypeOK
<1>4. /\ Len(full_pool') = Len(full_pool) + 1
      /\ \A i \in 1 .. Len(full_pool) : full_pool'[i] = full_pool[i]
      /\ full_pool'[Len(full_pool) + 1] = o
      /\ ToSet(full_pool') = ToSet(full_pool) \cup {o}
      /\ IsInjective(full_pool) /\ o \notin ToSet(full_pool) => IsInjective(full_pool')
  BY <1>0, <1>1, <1>3, AppendToList
<1>5. /\ queued' \in Seq(Messages) /\ Len(queued') = Len(queued) + 1
      /\ \A i \in 1 .. Len(queued) : queued'[i] = queued[i]
      /\ queued'[Len(queued) + 1] = buf[o]
      /\ ToSet(queued') = ToSet(queued) \cup {buf[o]}
      /\ IsInjective(queued) /\ buf[o] \notin ToSet(queued) => IsInjective(queued')
  BY <1>0, <1>1, <1>3, AppendToList
<1>6. PlacesApart'
  BY <1>0, <1>1, <1>2, <1>4 DEF OrderInv, PlacesApart
<1>7. o \in InFlight /\ InFlight' \subseteq InFlight
  BY <1>0, <1>1, <1>2, <1>4 DEF InFlight
<1>8. buf[o] \notin ToSet(printed) /\ buf[o] \notin ToSet(queued)
  BY <1>0, <1>7 DEF OrderInv, MessagesApart
<1>9. MessagesApart'
  <2>1. \A k \in Loggers : \A p \in obj'[k] : buf'[p] \notin ToSet(queued')
    <3> SUFFICES ASSUME NEW k \in Loggers, NEW p \in obj'[k] PROVE buf[p] \notin ToSet(queued')
      BY <1>1
    <3>1. k # l /\ p \in obj[k] /\ p # o /\ p \in InFlight
      BY <1>0, <1>1, <1>2 DEF OrderInv, PlacesApart, InFlight, TypeOK
    <3>2. buf[p] # buf[o] /\ buf[p] \notin ToSet(queued)
      BY <1>7, <3>1 DEF OrderInv, MessagesApart
    <3> QED BY <1>5, <3>2
  <2>2. \A m \in ToSet(queued') \cup ToSet(printed') : m <= messages'
    BY <1>1, <1>5 DEF OrderInv, MessagesApart
  <2>3. IsInjective(queued')
    BY <1>5, <1>8 DEF OrderInv, MessagesApart
  <2> QED BY <1>1, <1>7, <2>1, <2>2, <2>3 DEF OrderInv, MessagesApart
<1>10. QueueInv'
  <2>1. Through' = Through /\ Through \in Nat
    BY <1>1, <1>3, <1>4, <1>5 DEF OrderInv, QueueInv, Through
  <2>2. Through <= Len(queued) /\ (printing # {} => Through + 1 <= Len(queued))
    BY <1>3, <2>1 DEF OrderInv, QueueInv, Through
  <2>3. \A i \in 1 .. Through : queued'[i] \in ToSet(printed)
    <3> TAKE i \in 1 .. Through
    <3>1. i \in 1 .. Len(queued) /\ queued[i] \in ToSet(printed)
      BY <1>3, <2>1, <2>2 DEF OrderInv, QueueInv
    <3> QED BY <1>5, <3>1
  <2>4. \A p \in printing : queued'[Through + 1] = buf[p]
    <3> TAKE p \in printing
    <3>1. Through + 1 \in 1 .. Len(queued)
      BY <1>3, <2>1, <2>2
    <3> QED BY <1>5, <3>1 DEF OrderInv, QueueInv
  <2>5. Len(queued') - Len(full_pool') = Len(queued) - Len(full_pool)
    BY <1>3, <1>4, <1>5
  <2>6. \A i \in 1 .. Len(full_pool') :
          queued'[Len(queued') - Len(full_pool') + i] = buf[full_pool'[i]]
    <3> TAKE i \in 1 .. Len(full_pool')
    <3>1. CASE i \in 1 .. Len(full_pool)
      <4>1. Len(queued) - Len(full_pool) + i \in 1 .. Len(queued)
        BY <1>3, <3>1, <2>1 DEF Through
      <4>2. queued[Len(queued) - Len(full_pool) + i] = buf[full_pool[i]]
        BY <3>1 DEF OrderInv, QueueInv
      <4>3. queued'[Len(queued) - Len(full_pool) + i] = queued[Len(queued) - Len(full_pool) + i]
        BY <1>5, <4>1
      <4> QED BY <1>4, <2>5, <3>1, <4>2, <4>3
    <3>2. CASE i = Len(full_pool) + 1
      <4>1. Len(queued) - Len(full_pool) + i = Len(queued) + 1
        BY <1>3, <3>2
      <4> QED BY <1>4, <1>5, <2>5, <3>2, <4>1
    <3> QED BY <1>3, <1>4, <3>1, <3>2
  <2> QED BY <1>1, <2>1, <2>3, <2>4, <2>6 DEF OrderInv, QueueInv
<1>11. PrintedInOrder'
  <2>1. IsInjective(printed')
    BY <1>1 DEF OrderInv, PrintedInOrder
  <2>2. SUFFICES ASSUME NEW i \in DOMAIN queued', NEW j \in DOMAIN queued', NEW k \in DOMAIN printed,
                        i < j, printed[k] = queued'[j]
                 PROVE  \E h \in 1 .. k - 1 : printed[h] = queued'[i]
    BY <1>1, <2>1 DEF PrintedInOrder
  <2>3. DOMAIN queued' = 1 .. Len(queued) + 1 /\ DOMAIN queued = 1 .. Len(queued)
    BY <1>3, <1>5, InList
  <2>4. printed[k] \in ToSet(printed)
    BY DEF ToSet
  <2>5. j # Len(queued) + 1
    BY <1>5, <1>8, <2>2, <2>4
  <2>6. i \in 1 .. Len(queued) /\ j \in 1 .. Len(queued)
    BY <1>3, <2>2, <2>3, <2>5
  <2> QED BY <1>5, <2>2, <2>3, <2>6 DEF OrderInv, PrintedInOrder
<1> QED BY <1>6, <1>9, <1>10, <1>11 DEF OrderInv

(* An object that goes back to the pool leaves nothing behind.             *)
LEMMA ReturnOrder ==
  ASSUME IInv, IInv', OrderInv, NEW l \in Loggers, ReturnPoolObject(l) \/ Returned(l)
  PROVE  OrderInv'
<1>1. CASE ReturnPoolObject(l)
  <2>1. UNCHANGED <<empty_pool, full_pool, buf, obj, messages, queued, printed, at, printing>>
    BY <1>1 DEF ReturnPoolObject, threadvars
  <2> QED BY <2>1 DEF OrderInv, PlacesApart, MessagesApart, InFlight, QueueInv, Through, PrintedInOrder
<1>2. CASE Returned(l)
  <2>0. PICK o \in obj[l] : empty_pool' = Append(empty_pool, o) \/ UNCHANGED empty_pool
    BY <1>2 DEF Returned
  <2>1. /\ obj' = [obj EXCEPT ![l] = {}] /\ o \in Pool /\ TypeOK
        /\ UNCHANGED <<full_pool, buf, messages, queued, printed, at, printing>>
    BY <1>2, <2>0 DEF Returned, threadvars, IInv, TypeOK
  <2>2. obj'[l] = {} /\ \A k \in Loggers : k # l => obj'[k] = obj[k]
    BY <2>1 DEF TypeOK
  <2>3. o \notin ToSet(empty_pool) /\ IsInjective(empty_pool)
    BY <2>0 DEF OrderInv, PlacesApart
  <2>4. ToSet(empty_pool') \subseteq ToSet(empty_pool) \cup {o} /\ IsInjective(empty_pool')
    <3>1. /\ ToSet(Append(empty_pool, o)) = ToSet(empty_pool) \cup {o}
          /\ IsInjective(Append(empty_pool, o))
      BY <2>1, <2>3, AppendToList DEF TypeOK
    <3> QED BY <2>0, <2>3, <3>1
  <2>5. PlacesApart'
    BY <2>0, <2>1, <2>2, <2>4 DEF OrderInv, PlacesApart
  <2>6. InFlight' \subseteq InFlight
    BY <2>1, <2>2 DEF InFlight
  <2>7. MessagesApart'
    BY <2>1, <2>2, <2>6, MessagesKept DEF OrderInv
  <2>8. QueueInv' /\ PrintedInOrder'
    BY <2>1, QueueKept DEF OrderInv, PrintedInOrder
  <2> QED BY <2>5, <2>7, <2>8 DEF OrderInv
<1> QED BY <1>1, <1>2

(* The log thread takes an object out of the queue.                        *)
LEMMA DrainPlaces ==
  ASSUME IInv, NEW value \in BOOLEAN, Drain(value)
  PROVE  /\ ToSet(full_pool') \cup printing' = ToSet(full_pool)
         /\ IsInjective(full_pool) => IsInjective(full_pool') /\ ToSet(full_pool') \cap printing' = {}
         /\ \A o, p \in printing' : o = p
<1>1. CASE full_pool # <<>>
  <2>1. /\ ToSet(full_pool) = {Head(full_pool)} \cup ToSet(Tail(full_pool))
        /\ IsInjective(full_pool) => IsInjective(Tail(full_pool)) /\ Head(full_pool) \notin ToSet(Tail(full_pool))
    BY <1>1, HeadOfList DEF IInv, TypeOK
  <2> QED BY <1>1, <2>1 DEF Drain
<1>2. CASE full_pool = <<>>
  BY <1>2 DEF Drain, ToSet
<1> QED BY <1>1, <1>2

(* The log thread looks for the next message.                              *)
LEMMA RunningOrder ==
  ASSUME IInv, IInv', OrderInv, Running \/ Wake
  PROVE  OrderInv'
<1>0. /\ at \in {"start", "wait"} /\ TypeOK
      /\ UNCHANGED <<empty_pool, buf, obj, messages, queued, printed>>
  BY DEF Running, Wake, IInv
<1>1. printing = {}
  BY <1>0 DEF OrderInv, QueueInv
<1>2. CASE Drain(FALSE)
  <2>1. PlacesApart'
    BY <1>0, <1>2, DrainPlaces DEF OrderInv, PlacesApart
  <2>2. InFlight' \subseteq InFlight
    BY <1>0, <1>2, DrainPlaces DEF InFlight
  <2>3. MessagesApart'
    BY <1>0, <2>2, MessagesKept DEF OrderInv
  <2>4. Through = Len(queued) - Len(full_pool)
    <3>1. Len(queued) \in Nat /\ Len(full_pool) \in Nat
      BY <1>0, InList DEF TypeOK
    <3> QED BY <1>0, <3>1 DEF Through
  <2>5. QueueInv'
    BY <1>0, <1>2, <2>4, QueueDrained DEF OrderInv, QueueInv
  <2> QED BY <1>0, <2>1, <2>3, <2>5 DEF OrderInv, PrintedInOrder
<1>3. CASE at' \in {"wait", "done"} /\ UNCHANGED <<full_pool, printing>>
  <2>1. PlacesApart' /\ MessagesApart'
    BY <1>0, <1>3 DEF OrderInv, PlacesApart, MessagesApart, InFlight
  <2>2. Through' = Through
    BY <1>0, <1>3 DEF Through
  <2>3. QueueInv'
    BY <1>0, <1>1, <1>3, <2>2 DEF OrderInv, QueueInv
  <2> QED BY <1>0, <2>1, <2>3 DEF OrderInv, PrintedInOrder
<1> QED BY <1>2, <1>3 DEF Running, Wake

(* The log thread prints the message that was queued before all others.    *)
LEMMA PrintNextOrder ==
  ASSUME IInv, IInv', OrderInv, PrintNext
  PROVE  OrderInv'
<1>0. PICK o \in printing : printed' = Append(printed, buf[o]) /\ empty_pool' = Append(empty_pool, o)
  BY DEF PrintNext
<1>1. /\ UNCHANGED <<buf, obj, messages, queued>> /\ at = "print"
      /\ TypeOK /\ o \in Pool /\ buf[o] \in Messages
      /\ log_thread_value \in BOOLEAN /\ Drain(log_thread_value)
  BY <1>0 DEF PrintNext, IInv, TypeOK, Filled
<1>2. /\ ToSet(empty_pool') = ToSet(empty_pool) \cup {o}
      /\ IsInjective(empty_pool) /\ o \notin ToSet(empty_pool) => IsInjective(empty_pool')
      /\ ToSet(printed') = ToSet(printed) \cup {buf[o]}
  BY <1>0, <1>1, AppendToList DEF TypeOK
<1>3. /\ ToSet(full_pool') \cup printing' = ToSet(full_pool)
      /\ IsInjective(full_pool) => IsInjective(full_pool') /\ ToSet(full_pool') \cap printing' = {}
      /\ \A p, q \in printing' : p = q
  BY <1>1, DrainPlaces
<1>4. PlacesApart'
  BY <1>0, <1>1, <1>2, <1>3 DEF OrderInv, PlacesApart
<1>5. o \in InFlight /\ InFlight' \subseteq InFlight \ {o}
  BY <1>0, <1>1, <1>3 DEF OrderInv, PlacesApart, InFlight
<1>6. MessagesApart'
  BY <1>0, <1>1, <1>5, MessagesPrinted DEF OrderInv
<1>7. Len(queued) \in Nat /\ Len(full_pool) \in Nat /\ DOMAIN queued = 1 .. Len(queued)
  BY <1>1, InList DEF TypeOK
<1>8. /\ Through \in Nat /\ Through + 1 = Len(queued) - Len(full_pool)
      /\ queued[Through + 1] = buf[o] /\ \A i \in 1 .. Through : queued[i] \in ToSet(printed)
  BY <1>0, <1>1, <1>7 DEF OrderInv, QueueInv, Through
<1>9. QueueInv'
  <2>1. \A i \in 1 .. Len(queued) - Len(full_pool) : queued[i] \in ToSet(printed)'
    <3> TAKE i \in 1 .. Len(queued) - Len(full_pool)
    <3>1. i \in 1 .. Through \/ i = Through + 1
      BY <1>7, <1>8
    <3> QED BY <1>2, <1>8, <3>1
  <2> QED BY <1>1, <1>7, <1>8, <2>1, QueueDrained DEF OrderInv, QueueInv
<1>10. PrintedInOrder'
  <2>1. buf[o] \notin ToSet(printed) /\ IsInjective(queued)
    BY <1>5 DEF OrderInv, MessagesApart
  <2>2. Through + 1 \in DOMAIN queued /\ (Through + 1) - 1 = Through
    BY <1>7, <1>8
  <2> QED BY <1>0, <1>1, <1>8, <2>1, <2>2, PrintedNext DEF OrderInv
<1> QED BY <1>4, <1>6, <1>9, <1>10 DEF OrderInv

(* The destructor prints what is left in the queue.                        *)
LEMMA CleanUpOrder ==
  ASSUME IInv, IInv', OrderInv, CleanUp
  PROVE  OrderInv'
<1> DEFINE rest == [i \in DOMAIN full_pool |-> buf[full_pool[i]]]
           count == Len(full_pool)
           p == Len(printed)
<1>0. /\ at = "done" /\ at' = "gone" /\ full_pool' = <<>> /\ empty_pool' = <<>>
      /\ printed' = printed \o rest
      /\ UNCHANGED <<buf, obj, printing, messages, queued>> /\ TypeOK
  BY DEF CleanUp, IInv
<1>1. /\ count \in Nat /\ p \in Nat /\ Len(queued) \in Nat
      /\ DOMAIN full_pool = 1 .. count /\ DOMAIN printed = 1 .. p /\ DOMAIN queued = 1 .. Len(queued)
      /\ \A i \in 1 .. count : full_pool[i] \in Pool /\ full_pool[i] \in ToSet(full_pool)
      /\ \A i \in 1 .. p : printed[i] \in ToSet(printed)
      /\ \A e \in ToSet(printed) : \E i \in 1 .. p : printed[i] = e
      /\ ToSet(<<>>) = {} /\ IsInjective(<<>>) /\ Len(<<>>) = 0
  BY <1>0, InList DEF TypeOK, ToSet, IsInjective
<1>2. \A i \in 1 .. count : buf[full_pool[i]] \in Messages
  BY <1>1 DEF IInv, TypeOK, Filled
<1>3. rest \in Seq(Messages) /\ Len(rest) = count /\ \A i \in 1 .. count : rest[i] = buf[full_pool[i]]
  <2>1. rest \in [1 .. count -> Messages]
    BY <1>1, <1>2
  <2> QED BY <1>1, <2>1
<1> HIDE DEF rest
<1>4. /\ printed' \in Seq(Messages) /\ Len(printed') = p + count
      /\ \A i \in 1 .. p : printed'[i] = printed[i]
      /\ \A i \in 1 .. count : printed'[p + i] = buf[full_pool[i]]
  <2>1. /\ printed \o rest \in Seq(Messages) /\ Len(printed \o rest) = p + count
        /\ \A i \in 1 .. p + count :
             (printed \o rest)[i] = IF i <= p THEN printed[i] ELSE rest[i - p]
    <3>1. printed \in Seq(Messages)
      BY <1>0 DEF TypeOK
    <3>2. /\ printed \o rest \in Seq(Messages)
          /\ Len(printed \o rest) = Len(printed) + Len(rest)
          /\ \A i \in 1 .. Len(printed) + Len(rest) :
               (printed \o rest)[i] = IF i <= Len(printed) THEN printed[i] ELSE rest[i - Len(printed)]
      BY <1>3, <3>1, ConcatProperties
    <3> QED BY <1>3, <3>2
  <2>2. \A i \in 1 .. count : p + i \in 1 .. p + count /\ ~(p + i <= p) /\ (p + i) - p = i
    BY <1>1
  <2>3. \A i \in 1 .. p : i \in 1 .. p + count /\ i <= p
    BY <1>1
  <2> QED BY <1>0, <1>3, <2>1, <2>2, <2>3
<1>5. DOMAIN printed' = 1 .. p + count
  BY <1>4, InList
<1>6. \A k \in 1 .. p + count : k \in 1 .. p \/ (k - p \in 1 .. count /\ p + (k - p) = k)
  BY <1>1
<1>7. \A i \in 1 .. count : buf[full_pool[i]] \notin ToSet(printed) /\ full_pool[i] \in InFlight
  BY <1>1 DEF OrderInv, MessagesApart, InFlight
<1>8. \A i, j \in 1 .. count : buf[full_pool[i]] = buf[full_pool[j]] => i = j
  <2> TAKE i \in 1 .. count, j \in 1 .. count
  <2> HAVE buf[full_pool[i]] = buf[full_pool[j]]
  <2>1. full_pool[i] = full_pool[j]
    BY <1>7 DEF OrderInv, MessagesApart
  <2> QED BY <1>1, <2>1 DEF OrderInv, PlacesApart, IsInjective
<1>9. /\ Through = Len(queued) - count /\ Through \in Nat /\ Through' = Len(queued)
      /\ \A i \in 1 .. Through : queued[i] \in ToSet(printed)
      /\ \A i \in 1 .. count : queued[Through + i] = buf[full_pool[i]]
  BY <1>0, <1>1 DEF OrderInv, QueueInv, Through
<1>10. \A i \in 1 .. Len(queued) :
         \/ i \in 1 .. Through
         \/ i - Through \in 1 .. count /\ Through + (i - Through) = i
  BY <1>1, <1>9
<1>11. PlacesApart'
  BY <1>0, <1>1 DEF OrderInv, PlacesApart
<1>12. IsInjective(printed')
  <2> SUFFICES ASSUME NEW i \in 1 .. p + count, NEW j \in 1 .. p + count, printed'[i] = printed'[j]
               PROVE  i = j
    BY <1>5 DEF IsInjective
  <2>1. CASE i \in 1 .. p /\ j \in 1 .. p
    BY <2>1, <1>1, <1>4 DEF OrderInv, PrintedInOrder, IsInjective
  <2>2. CASE i \notin 1 .. p /\ j \notin 1 .. p
    <3>1. i - p \in 1 .. count /\ j - p \in 1 .. count /\ p + (i - p) = i /\ p + (j - p) = j
      BY <2>2, <1>6
    <3>2. printed'[i] = buf[full_pool[i - p]] /\ printed'[j] = buf[full_pool[j - p]]
      BY <3>1, <1>4
    <3>3. i - p = j - p
      BY <3>1, <3>2, <1>8
    <3> QED BY <1>1, <3>3
  <2>3. CASE i \in 1 .. p /\ j \notin 1 .. p
    <3>1. j - p \in 1 .. count /\ p + (j - p) = j
      BY <2>3, <1>6
    <3>2. printed'[j] = buf[full_pool[j - p]] /\ printed'[i] \in ToSet(printed)
      BY <2>3, <3>1, <1>1, <1>4
    <3> QED BY <3>1, <3>2, <1>7
  <2>4. CASE i \notin 1 .. p /\ j \in 1 .. p
    <3>1. i - p \in 1 .. count /\ p + (i - p) = i
      BY <2>4, <1>6
    <3>2. printed'[i] = buf[full_pool[i - p]] /\ printed'[j] \in ToSet(printed)
      BY <2>4, <3>1, <1>1, <1>4
    <3> QED BY <3>1, <3>2, <1>7
  <2> QED BY <2>1, <2>2, <2>3, <2>4
<1>13. \A m \in ToSet(printed') : m \in ToSet(printed) \/ \E i \in 1 .. count : m = buf[full_pool[i]]
  <2> TAKE m \in ToSet(printed')
  <2>1. PICK k \in 1 .. p + count : printed'[k] = m
    BY <1>5 DEF ToSet
  <2>2. CASE k \in 1 .. p
    BY <2>1, <2>2, <1>1, <1>4
  <2>3. CASE k - p \in 1 .. count /\ p + (k - p) = k
    <3>1. printed'[p + (k - p)] = buf[full_pool[k - p]]
      BY <2>3, <1>4
    <3> QED BY <2>1, <2>3, <3>1
  <2> QED BY <1>6, <2>2, <2>3
<1>14. MessagesApart'
  <2>1. InFlight' \subseteq InFlight /\ InFlight' \cap ToSet(full_pool) = {}
    BY <1>0, <1>1 DEF OrderInv, PlacesApart, InFlight
  <2>2. \A m \in ToSet(queued') \cup ToSet(printed') : m <= messages'
    BY <1>0, <1>1, <1>13 DEF OrderInv, MessagesApart
  <2>3. \A o \in InFlight' : buf'[o] \notin ToSet(printed')
    <3> SUFFICES ASSUME NEW o \in InFlight', NEW i \in 1 .. count, buf[o] = buf[full_pool[i]] PROVE FALSE
      BY <1>0, <1>13, <2>1 DEF OrderInv, MessagesApart
    <3>1. o = full_pool[i]
      BY <1>7, <2>1 DEF OrderInv, MessagesApart
    <3> QED BY <1>1, <2>1, <3>1
  <2> QED BY <1>0, <1>12, <2>1, <2>2, <2>3 DEF OrderInv, MessagesApart
<1>15. QueueInv'
  <2>1. \A i \in 1 .. Len(queued) : queued[i] \in ToSet(printed')
    <3> TAKE i \in 1 .. Len(queued)
    <3>1. CASE i \in 1 .. Through
      <4>1. PICK k \in 1 .. p : printed[k] = queued[i]
        BY <3>1, <1>1, <1>9
      <4> QED BY <4>1, <1>1, <1>4, <1>5 DEF ToSet
    <3>2. CASE i - Through \in 1 .. count /\ Through + (i - Through) = i
      <4>1. queued[Through + (i - Through)] = printed'[p + (i - Through)]
        BY <3>2, <1>4, <1>9
      <4>2. p + (i - Through) \in 1 .. p + count
        BY <3>2, <1>1
      <4> QED BY <3>2, <4>1, <4>2, <1>5 DEF ToSet
    <3> QED BY <1>10, <3>1, <3>2
  <2> QED BY <1>0, <1>1, <1>9, <2>1 DEF OrderInv, QueueInv
<1>16. PrintedInOrder'
  <2> SUFFICES ASSUME NEW i \in 1 .. Len(queued), NEW j \in 1 .. Len(queued), NEW k \in 1 .. p + count,
                      i < j, printed'[k] = queued[j]
               PROVE  \E h \in 1 .. k - 1 : printed'[h] = queued[i]
    <3>1. DOMAIN queued' = 1 .. Len(queued) /\ queued' = queued
      BY <1>0, <1>1
    <3> QED BY <1>5, <1>12, <3>1 DEF PrintedInOrder
  <2>1. CASE k \in 1 .. p
    <3>0. printed[k] = queued[j] /\ k \in DOMAIN printed /\ i \in DOMAIN queued /\ j \in DOMAIN queued
      BY <2>1, <1>1, <1>4
    <3>1. PICK h \in 1 .. k - 1 : printed[h] = queued[i]
      BY <3>0 DEF OrderInv, PrintedInOrder
    <3> QED BY <2>1, <3>1, <1>1, <1>4
  <2>2. CASE k - p \in 1 .. count /\ p + (k - p) = k
    <3>0. printed'[p + (k - p)] = queued[Through + (k - p)]
      BY <2>2, <1>4, <1>9
    <3>1. printed'[k] = queued[Through + (k - p)] /\ Through + (k - p) \in 1 .. Len(queued)
      BY <2>2, <3>0, <1>1, <1>9
    <3>2. j = Through + (k - p)
      <4>1. IsInjective(queued)
        BY DEF OrderInv, MessagesApart
      <4>2. \A a, b \in 1 .. Len(queued) : queued[a] = queued[b] => a = b
        BY <4>1, <1>1 DEF IsInjective
      <4>3. queued[j] = queued[Through + (k - p)]
        BY <3>1
      <4> QED BY <3>1, <4>2, <4>3
    <3>3. CASE i \in 1 .. Through
      <4>1. PICK h \in 1 .. p : printed[h] = queued[i]
        BY <3>3, <1>1, <1>9
      <4> QED BY <4>1, <2>2, <1>1, <1>4
    <3>4. CASE i - Through \in 1 .. count /\ Through + (i - Through) = i
      <4> DEFINE h == p + (i - Through)
      <4>1. printed'[h] = queued[i]
        BY <3>4, <1>4, <1>9
      <4>2. h \in 1 .. k - 1
        <5>1. i < j /\ i \in Nat /\ j \in Nat /\ k \in Nat /\ p \in Nat /\ Through \in Nat
          BY <1>1, <1>9
        <5>2. k = p + (j - Through)
          BY <5>1, <3>2
        <5> QED BY <5>1, <5>2, <3>4
      <4> HIDE DEF h
      <4> QED BY <4>1, <4>2
    <3> QED BY <1>10, <3>3, <3>4
  <2> QED BY <1>6, <2>1, <2>2
<1> QED BY <1>11, <1>14, <1>15, <1>16 DEF OrderInv

LEMMA NextOrder == IInv /\ IInv' /\ OrderInv /\ [Next]_vars => OrderInv'
<1> SUFFICES ASSUME IInv, IInv', OrderInv, [Next]_vars PROVE OrderInv'
  OBVIOUS
<1>1. ASSUME NEW l \in Loggers, GetPoolObject(l) PROVE OrderInv'
  BY <1>1, GetOrder
<1>2. ASSUME NEW l \in Loggers, Log(l) PROVE OrderInv'
  BY <1>2, PrintSyncOrder, QueueOrder, ReturnOrder DEF Log
<1>3. CASE Run
  BY <1>3, RunningOrder, PrintNextOrder DEF Run
<1>4. CASE CleanUp
  BY <1>4, CleanUpOrder
<1>5. CASE ConfigSyncLogging \/ Stop \/ UNCHANGED vars
  <2>1. UNCHANGED <<empty_pool, full_pool, buf, obj, messages, queued, printed, at, printing>>
    BY <1>5 DEF ConfigSyncLogging, Stop, vars, threadvars
  <2> QED BY <2>1 DEF OrderInv, PlacesApart, MessagesApart, InFlight, QueueInv, Through, PrintedInOrder
<1> QED BY <1>1, <1>2, <1>3, <1>4, <1>5 DEF Next

(* What is queued is printed in order, every message at most once, whatever *)
(* objects the messages share and whichever thread prints.                 *)
THEOREM OrderHolds == Spec => []PrintedInOrder
<1>1. OrderInv => PrintedInOrder
  BY DEF OrderInv
<1> QED BY <1>1, Invariance, InitOrder, NextOrder, PTL DEF Spec

-----------------------------------------------------------------------------
(* The ring buffer of the dump log. *)

(* A full buffer is full at most once round. *)
Ordered == buffer_full => write_start <= read_start

(* The text before write_start. *)
UpToWrite ==
  \A i \in 0 .. size - 1 :
    i < write_start /\ (buffer_full \/ read_start <= i)
      => data[i] + write_start = written + 1 + i

(* The text up to the end of the memory. *)
UpToEnd ==
  buffer_full =>
    \A i \in 0 .. size - 1 :
      read_start <= i => data[i] + write_start + size = written + 1 + i

(* No more text than was written since the last get, and the last write's  *)
(* part that has been copied; rounds after the first begin at data[0].     *)
Amount ==
  /\ get_data_len <= written - taken
  /\ n <= last
  /\ IF mtx THEN n = last \/ write_start = 0 ELSE n = 0
  /\ get_data_len >= size \/ get_data_len >= last - n

RingIInv == RingTypeOK /\ InBounds /\ Ordered /\ UpToWrite /\ UpToEnd /\ Amount

-----------------------------------------------------------------------------
(* The numbers the arithmetic below is about. *)
LEMMA Types ==
  ASSUME RingTypeOK
  PROVE  /\ size \in Nat /\ size > 0
         /\ write_start \in Nat /\ read_start \in Nat /\ n \in Nat
         /\ written \in Nat /\ taken \in Nat /\ taken <= written /\ last \in Nat
         /\ get_data_len \in Int
         /\ \A i \in 0 .. size - 1 : data[i] \in Nat
  BY SizesAssumption DEF RingTypeOK, get_data_len

(* An empty buffer satisfies the invariant whatever its memory holds. *)
Empty ==
  /\ RingTypeOK
  /\ write_start < size /\ read_start = write_start /\ ~buffer_full
  /\ taken = written /\ n = 0 /\ last = 0

LEMMA EmptyIInv == Empty => RingIInv
<1> SUFFICES ASSUME Empty PROVE RingIInv
  OBVIOUS
<1>1. InBounds
  BY Types DEF Empty, InBounds
<1>2. Ordered /\ UpToEnd
  BY DEF Empty, Ordered, UpToEnd
<1>3. UpToWrite
  <2> SUFFICES ASSUME NEW i \in 0 .. size - 1, i < write_start, read_start <= i
               PROVE  FALSE
    BY DEF Empty, UpToWrite
  <2> QED BY Types DEF Empty
<1>4. get_data_len = 0
  BY Types DEF Empty, get_data_len
<1>5. Amount
  BY <1>4, Types DEF Empty, Amount
<1> QED BY <1>1, <1>2, <1>3, <1>5 DEF Empty, RingIInv

(* The buffer is empty at the beginning. *)
LEMMA InitIInv == RingInit => RingIInv
<1> SUFFICES ASSUME RingInit PROVE RingIInv
  OBVIOUS
<1>0. size \in Nat /\ size > 0 /\ size \in Sizes
  BY SizesAssumption DEF RingInit
<1>1. data \in [0 .. size - 1 -> Nat]
  BY <1>0 DEF RingInit, Cleared
<1>2. RingTypeOK
  <2>1. taken \in 0 .. written /\ written \in Nat
    BY DEF RingInit
  <2> QED BY <1>0, <1>1, <2>1 DEF RingInit, RingTypeOK
<1>3. Empty
  BY <1>0, <1>2 DEF RingInit, Empty
<1> QED BY <1>3, EmptyIInv

(* A write begins: only n and last change. *)
LEMMA BeginIInv ==
  ASSUME RingIInv, NEW len \in Lengths, WriteBegin(len)
  PROVE  RingIInv'
  BY SizesAssumption, LengthsAssumption
     DEF WriteBegin, RingIInv, RingTypeOK, InBounds, Ordered, UpToWrite, UpToEnd, Amount,
         get_data_len, memory

(* A round of the loop: all places from write_start to the end are new, and *)
(* what was before write_start is now counted from the end of the memory.  *)
LEMMA RoundIInv ==
  ASSUME RingIInv, WriteRound
  PROVE  RingIInv'
<1> DEFINE k == size - write_start
<1>1. k \in Nat /\ k > 0 /\ k <= n
  BY SizesAssumption DEF WriteRound, AtEnd, RingIInv, RingTypeOK, InBounds
<1>2. /\ data' = [i \in 0 .. size - 1 |->
                    IF i \in write_start .. write_start + k - 1
                    THEN written + 1 + (i - write_start) ELSE data[i]]
      /\ written' = written + k /\ n' = n - k
      /\ buffer_full' = TRUE /\ write_start' = 0
      /\ read_start' = (IF read_start > write_start THEN 0 ELSE read_start)
      /\ dump_log_len' = dump_log_len /\ size' = size /\ mtx' = mtx /\ mtx
      /\ taken' = taken /\ last' = last
  BY DEF WriteRound, Copy
<1>3. size \in Nat /\ size > 0
  BY SizesAssumption DEF RingIInv, RingTypeOK
<1>4. RingTypeOK'
  BY <1>1, <1>2, <1>3 DEF RingIInv, RingTypeOK, InBounds
<1>5. InBounds' /\ Ordered'
  BY <1>2, <1>3 DEF RingIInv, RingTypeOK, InBounds, Ordered
<1>6. UpToWrite'
  BY <1>2 DEF UpToWrite, RingIInv, RingTypeOK
<1>7. UpToEnd'
  <2>1. SUFFICES ASSUME NEW i \in 0 .. size - 1, read_start' <= i
                 PROVE  data'[i] + size = written' + 1 + i
    BY <1>2, <1>3 DEF UpToEnd, RingIInv, RingTypeOK
  <2>2. CASE i >= write_start
    BY <1>1, <1>2, <1>3, <2>1, <2>2 DEF RingIInv, RingTypeOK, InBounds
  <2>3. CASE i < write_start
    <3>1. data[i] + write_start = written + 1 + i
      BY <1>2, <1>3, <2>1, <2>3 DEF RingIInv, RingTypeOK, InBounds, Ordered, UpToWrite
    <3>2. data'[i] = data[i]
      BY <1>1, <1>2, <1>3, <2>3 DEF RingIInv, RingTypeOK
    <3>3. data[i] \in Nat /\ write_start \in Nat /\ written \in Nat /\ i \in Nat
      BY <1>3 DEF RingIInv, RingTypeOK
    <3>4. written' = written + (size - write_start)
      BY <1>2
    <3> QED BY <1>3, <3>1, <3>2, <3>3, <3>4
  <2> QED BY <2>2, <2>3, <1>3 DEF RingIInv, RingTypeOK
<1>8. Amount'
  <2>1. get_data_len' = size - read_start'
    BY <1>2, <1>3 DEF get_data_len, RingIInv, RingTypeOK
  <2>2. /\ written' = written + (size - write_start) /\ taken' = taken
        /\ n' = n - (size - write_start) /\ last' = last /\ mtx'
    BY <1>2
  <2>3. /\ size \in Nat /\ write_start \in Nat /\ read_start \in Nat /\ n \in Nat
        /\ written \in Nat /\ taken \in Nat /\ last \in Nat
    BY <1>3 DEF RingIInv, RingTypeOK
  <2>4. CASE read_start > write_start
    <3>1. read_start' = 0
      BY <1>2, <2>4
    <3>2. write_start <= written - taken
      <4>1. buffer_full /\ get_data_len = (size - read_start) + write_start
        BY <2>3, <2>4 DEF RingIInv, InBounds, get_data_len
      <4> QED BY <2>3, <4>1 DEF RingIInv, InBounds, Amount
    <3>3. get_data_len' = size
      BY <2>1, <2>3, <3>1
    <3>4. n' <= last'
      BY <1>1, <2>2, <2>3 DEF RingIInv, Amount
    <3>5. get_data_len' <= written' - taken'
      BY <2>2, <2>3, <3>2, <3>3
    <3> QED BY <1>2, <2>2, <2>3, <3>3, <3>4, <3>5 DEF Amount
  <2>5. CASE ~(read_start > write_start)
    <3>1. read_start' = read_start
      BY <1>2, <2>5
    <3>2. get_data_len >= write_start - read_start
      BY <2>3 DEF RingIInv, InBounds, get_data_len
    <3>4. /\ get_data_len <= written - taken /\ n <= last
          /\ n = last \/ write_start = 0
      BY <1>2 DEF RingIInv, Amount
    <3>5. get_data_len \in Int
      BY <2>3 DEF get_data_len
    <3>6. get_data_len' = size - read_start
      BY <2>1, <3>1
    <3>7. n' <= last'
      BY <1>1, <2>2, <2>3, <3>4
    <3>8. get_data_len' <= written' - taken'
      BY <2>2, <2>3, <2>5, <3>2, <3>4, <3>5, <3>6
    <3>9. get_data_len' >= last' - n' \/ get_data_len' >= size
      BY <2>2, <2>3, <2>5, <3>4, <3>6
    <3> QED BY <1>2, <2>2, <2>3, <3>7, <3>8, <3>9 DEF Amount
  <2> QED BY <2>4, <2>5
<1> QED BY <1>4, <1>5, <1>6, <1>7, <1>8 DEF RingIInv

(* The rest of the text, which may overtake read_start. *)
LEMMA LastIInv ==
  ASSUME RingIInv, WriteLast
  PROVE  RingIInv'
<1>1. /\ data' = [i \in 0 .. size - 1 |->
                    IF i \in write_start .. write_start + n - 1
                    THEN written + 1 + (i - write_start) ELSE data[i]]
      /\ written' = written + n /\ n' = n - n
      /\ buffer_full' = buffer_full /\ write_start' = write_start + n
      /\ read_start' = (IF n = 0 THEN read_start
                        ELSE IF buffer_full /\ write_start = read_start THEN read_start + n
                        ELSE IF read_start > write_start /\ write_start + n > read_start
                             THEN write_start + n
                        ELSE read_start)
      /\ dump_log_len' = dump_log_len /\ size' = size /\ mtx' = FALSE
      /\ taken' = taken /\ last' = last
      /\ write_start + n < size
  BY SizesAssumption DEF WriteLast, AtEnd, Copy, RingIInv, RingTypeOK
<1>2. size \in Nat /\ size > 0
  BY SizesAssumption DEF RingIInv, RingTypeOK
<1>n. /\ write_start \in Nat /\ read_start \in Nat /\ n \in Nat
      /\ written \in Nat /\ taken \in Nat /\ last \in Nat /\ get_data_len \in Int
  BY Types DEF RingIInv
<1>3. RingTypeOK'
  <2>1. data' \in [0 .. size - 1 -> Nat]
    BY <1>1, <1>2, <1>n DEF RingIInv, RingTypeOK
  <2>2. read_start' \in Nat /\ write_start' \in Nat /\ n' \in Nat /\ written' \in Nat
        /\ taken' \in 0 .. written'
    BY <1>1, <1>n, Types DEF RingIInv
  <2> QED BY <1>1, <2>1, <2>2 DEF RingIInv, RingTypeOK
<1>4. InBounds' /\ Ordered'
  BY <1>1, <1>2 DEF RingIInv, RingTypeOK, InBounds, Ordered
<1>5. UpToWrite'
  <2>1. SUFFICES ASSUME NEW i \in 0 .. size - 1, i < write_start',
                        buffer_full \/ read_start' <= i
                 PROVE  data'[i] + write_start' = written' + 1 + i
    BY <1>1 DEF UpToWrite
  <2>2. CASE i >= write_start
    BY <1>1, <1>2, <2>1, <2>2 DEF RingIInv, RingTypeOK
  <2>3. CASE i < write_start
    <3>0. read_start' >= read_start
      BY <1>1, <1>n
    <3>1. data[i] + write_start = written + 1 + i
      BY <1>1, <1>2, <1>n, <2>1, <2>3, <3>0 DEF RingIInv, UpToWrite
    <3>2. data'[i] = data[i] /\ data[i] \in Nat
      BY <1>1, <1>2, <2>3 DEF RingIInv, RingTypeOK
    <3>3. write_start' = write_start + n /\ written' = written + n
      BY <1>1
    <3> QED BY <1>n, <3>1, <3>2, <3>3
  <2> QED BY <2>2, <2>3, <1>n, <1>2
<1>6. UpToEnd'
  <2>1. SUFFICES ASSUME buffer_full, NEW i \in 0 .. size - 1, read_start' <= i
                 PROVE  data'[i] + write_start' + size = written' + 1 + i
    BY <1>1 DEF UpToEnd
  <2>2. read_start <= i /\ (n > 0 => write_start + n <= i)
    BY <1>1, <1>2, <2>1 DEF RingIInv, RingTypeOK, Ordered
  <2>3. data[i] + write_start + size = written + 1 + i
    BY <2>1, <2>2 DEF RingIInv, UpToEnd
  <2>4. data'[i] = data[i] /\ data[i] \in Nat
    BY <1>1, <1>2, <2>2 DEF RingIInv, RingTypeOK
  <2>5. write_start' = write_start + n /\ written' = written + n
    BY <1>1
  <2> QED BY <1>2, <1>n, <2>3, <2>4, <2>5
<1>7. Amount'
  <2>0. /\ get_data_len <= written - taken
        /\ get_data_len >= size \/ get_data_len >= last - n
        /\ n <= last
    BY DEF RingIInv, Amount
  <2>1. /\ write_start' = write_start + n /\ written' = written + n /\ n' = 0
        /\ write_start + n < size
        /\ taken' = taken /\ last' = last /\ mtx' = FALSE /\ size' = size
        /\ buffer_full' = buffer_full
    BY <1>1, <1>n
  <2>2. CASE ~buffer_full
    <3>1. read_start' = read_start /\ read_start <= write_start
      BY <1>1, <1>n, <2>2 DEF RingIInv, InBounds
    <3>2. get_data_len = write_start - read_start /\ get_data_len < size
      BY <1>n, <1>2, <2>2, <3>1 DEF RingIInv, InBounds, get_data_len
    <3>3. get_data_len' = (write_start + n) - read_start
      BY <2>1, <2>2, <3>1 DEF get_data_len
    <3> QED BY <1>n, <1>2, <2>0, <2>1, <3>2, <3>3 DEF Amount
  <2>3. CASE buffer_full
    <3>1. get_data_len = (size - read_start) + write_start /\ write_start <= read_start
      BY <2>3 DEF RingIInv, Ordered, get_data_len
    <3>2. get_data_len' = (size - read_start') + (write_start + n)
      BY <2>1, <2>3 DEF get_data_len
    <3>3. \/ read_start' = read_start /\ (n = 0 \/ write_start + n <= read_start)
          \/ read_start' = write_start + n /\ read_start <= read_start'
      BY <1>1, <1>n, <2>3, <3>1
    <3>4. get_data_len' <= get_data_len + n
      BY <1>n, <1>2, <3>1, <3>2, <3>3
    <3>5. get_data_len' >= size \/ get_data_len' = get_data_len + n
      BY <1>n, <1>2, <3>1, <3>2, <3>3
    <3>6. get_data_len' \in Int
      BY <1>n, <1>2, <3>2, <3>3
    <3>7. get_data_len' <= written' - taken'
      BY <1>n, <2>0, <2>1, <3>4, <3>6
    <3>8. get_data_len' >= size \/ get_data_len' >= last
      BY <1>n, <1>2, <2>0, <3>5, <3>6
    <3> QED BY <1>n, <2>1, <3>6, <3>7, <3>8 DEF Amount
  <2> QED BY <2>2, <2>3
<1> QED BY <1>3, <1>4, <1>5, <1>6, <1>7 DEF RingIInv

(* get() and dump_log_set_len() leave an empty buffer. *)
LEMMA GetIInv ==
  ASSUME RingIInv, Get
  PROVE  RingIInv'
<1>0. /\ dump_log_len' = dump_log_len /\ size' = size /\ data' = data
      /\ write_start' = write_start /\ read_start' = write_start /\ buffer_full' = FALSE
      /\ mtx' = mtx /\ n' = n /\ written' = written /\ taken' = written /\ last' = 0
  BY DEF Get, memory
<1>1. RingTypeOK'
  <2>1. taken' \in 0 .. written'
    BY <1>0, Types DEF RingIInv
  <2> QED BY <1>0, <2>1 DEF RingIInv, RingTypeOK
<1>2. write_start < size /\ n = 0
  BY DEF Get, RingIInv, InBounds, Amount
<1>3. Empty'
  BY <1>0, <1>1, <1>2 DEF Empty
<1> QED BY <1>3, EmptyIInv, PTL

LEMMA SetLenIInv ==
  ASSUME RingIInv, NEW len \in Sizes \cup {0}, SetLen(len)
  PROVE  RingIInv'
<1>1. CASE len # 0 /\ set_size(len)
  <2>0. len \in Nat /\ len > 0 /\ len \in Sizes
    BY <1>1, SizesAssumption
  <2>1. /\ dump_log_len' = len /\ size' = len /\ data' = [i \in 0 .. len - 1 |-> 0]
        /\ write_start' = 0 /\ read_start' = 0 /\ buffer_full' = FALSE
        /\ mtx' = mtx /\ n' = n /\ written' = written /\ taken' = written /\ last' = 0
    BY <1>1 DEF SetLen, set_size, Cleared
  <2>2. data' \in [0 .. size' - 1 -> Nat] /\ taken' \in 0 .. written'
    BY <2>0, <2>1, Types DEF RingIInv
  <2>3. RingTypeOK'
    BY <2>0, <2>1, <2>2 DEF RingIInv, RingTypeOK
  <2>4. n = 0
    BY DEF SetLen, RingIInv, Amount
  <2>5. Empty'
    BY <2>0, <2>1, <2>3, <2>4 DEF Empty
  <2> QED BY <2>5, EmptyIInv, PTL
<1>2. CASE UNCHANGED <<memory, write_start, read_start, buffer_full, taken, last>>
  BY SizesAssumption, <1>2
     DEF SetLen, memory, RingIInv, RingTypeOK, InBounds, Ordered, UpToWrite, UpToEnd,
         Amount, get_data_len
<1> QED BY <1>1, <1>2 DEF SetLen

(* The invariant holds in every behaviour. *)
THEOREM RingInvariance == RingSpec => []RingIInv
<1>1. RingIInv /\ [RingNext]_ringvars => RingIInv'
  <2> SUFFICES ASSUME RingIInv, [RingNext]_ringvars PROVE RingIInv'
    OBVIOUS
  <2>1. CASE UNCHANGED ringvars
    BY <2>1 DEF ringvars, memory, RingIInv, RingTypeOK, InBounds, Ordered, UpToWrite, UpToEnd,
                Amount, get_data_len
  <2>2. CASE RingNext
    BY <2>2, BeginIInv, RoundIInv, LastIInv, GetIInv, SetLenIInv DEF RingNext
  <2> QED BY <2>1, <2>2
<1> QED BY <1>1, InitIInv, PTL DEF RingSpec

-----------------------------------------------------------------------------
(* No access beyond the memory. *)
THEOREM InBoundsHolds == RingSpec => []InBounds
<1>1. RingIInv => InBounds
  BY DEF RingIInv
<1> QED BY <1>1, RingInvariance, PTL

(* The text is at least as long as the last write, or fills the buffer.    *)
THEOREM LastTextIsKeptHolds == RingSpec => []LastTextIsKept
<1>1. RingIInv => LastTextIsKept
  BY SizesAssumption
     DEF RingIInv, RingTypeOK, InBounds, Ordered, Amount, LastTextIsKept, get_data_len
<1> QED BY <1>1, RingInvariance, PTL

(* What get returns is the newest text. *)
THEOREM TextIsNewestHolds == RingSpec => []TextIsNewest
<1>1. ASSUME RingIInv, ~mtx
      PROVE  Text = [i \in 1 .. get_data_len |-> (written - get_data_len) + i]
  <2> USE SizesAssumption
  <2>1. CASE ~buffer_full
    <3>1. /\ size \in Nat /\ read_start \in Nat /\ write_start \in Nat /\ written \in Nat
          /\ read_start <= write_start /\ write_start <= size
      BY <1>1, <2>1 DEF RingIInv, RingTypeOK, InBounds
    <3>2. \A i \in 0 .. size - 1 :
            i < write_start /\ read_start <= i => data[i] + write_start = written + 1 + i
      BY <1>1 DEF RingIInv, UpToWrite
    <3>3. \A i \in 0 .. size - 1 : data[i] \in Nat
      BY <1>1 DEF RingIInv, RingTypeOK
    <3>4. get_data_len = write_start - read_start /\ Text = Part(read_start, write_start)
      BY <1>1, <2>1, <3>1 DEF Text, Part, get_data_len
    <3>5. ASSUME NEW i \in 1 .. write_start - read_start
          PROVE  data[read_start + i - 1] = (written - (write_start - read_start)) + i
      <4>1. /\ read_start + i - 1 \in 0 .. size - 1
            /\ read_start + i - 1 < write_start /\ read_start <= read_start + i - 1
        BY <3>1
      <4> QED BY <3>1, <3>2, <3>3, <4>1
    <3> QED BY <3>1, <3>4, <3>5 DEF Part
  <2>2. CASE buffer_full
    <3> DEFINE upper == Part(read_start, size)
               lower == Part(0, write_start)
    <3>1. upper \in Seq(Nat) /\ Len(upper) = size - read_start
      BY <1>1 DEF RingIInv, RingTypeOK, InBounds, Part
    <3>2. lower \in Seq(Nat) /\ Len(lower) = write_start
      BY <1>1 DEF RingIInv, RingTypeOK, InBounds, Part
    <3>3. \A i \in 1 .. size - read_start : upper[i] = written - get_data_len + i
      BY <1>1, <2>2 DEF RingIInv, RingTypeOK, InBounds, UpToEnd, Part, get_data_len
    <3>4. \A i \in 1 .. write_start : lower[i] = written - write_start + i
      BY <1>1, <2>2 DEF RingIInv, RingTypeOK, InBounds, UpToWrite, Part
    <3> HIDE DEF upper, lower
    <3>5. Text = upper \o lower
      BY <2>2 DEF Text, upper, lower
    <3>6. get_data_len = Len(upper) + Len(lower)
      BY <2>2, <3>1, <3>2 DEF get_data_len
    <3>7. Text \in Seq(Nat) /\ Len(Text) = Len(upper) + Len(lower)
      BY <3>1, <3>2, <3>5, ConcatProperties
    <3>8. \A i \in 1 .. Len(Text) : Text[i] = IF i <= Len(upper) THEN upper[i]
                                                ELSE lower[i - Len(upper)]
      BY <3>1, <3>2, <3>5, ConcatProperties
    <3>9. ASSUME NEW i \in 1 .. get_data_len
          PROVE  Text[i] = (written - get_data_len) + i
      <4>1. i \in 1 .. Len(Text)
        BY <3>6, <3>7
      <4>2. CASE i <= Len(upper)
        BY <3>1, <3>3, <3>8, <4>1, <4>2
      <4>n. /\ size \in Nat /\ read_start \in Nat /\ write_start \in Nat /\ written \in Nat
            /\ read_start < size
        BY <1>1, Types DEF RingIInv, InBounds
      <4>3. CASE ~(i <= Len(upper))
        <5>1. i - Len(upper) \in 1 .. write_start
          BY <4>n, <3>1, <3>2, <3>6, <4>3
        <5>2. Text[i] = written - write_start + (i - Len(upper))
          BY <3>4, <3>8, <4>1, <4>3, <5>1
        <5> QED BY <4>n, <3>1, <3>2, <3>6, <5>2
      <4> QED BY <4>2, <4>3
    <3>10. Text = [i \in 1 .. Len(Text) |-> Text[i]]
      BY <3>7
    <3> QED BY <3>6, <3>7, <3>9, <3>10
  <2> QED BY <2>1, <2>2
<1>2. RingIInv => TextIsNewest
  BY <1>1 DEF RingIInv, Amount, TextIsNewest
<1> QED BY <1>2, RingInvariance, PTL
=============================================================================
