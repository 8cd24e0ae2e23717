----------------------------- MODULE LogThread -----------------------------
(***************************************************************************)
(* Logging (log_base.cpp, log_thread.cpp): any thread takes a message      *)
(* object from a pool, fills it in and hands it to the log thread, which   *)
(* prints it and returns it to the pool.  A message above the log level    *)
(* goes back to the pool at once; with sync_logging the logging thread     *)
(* prints itself.  When the pool is empty the message is dropped.          *)
(*                                                                         *)
(* A step is what happens under one lock of mtx.  return_pool_object takes *)
(* no lock: it has a beginning and an end, and when the list is accessed   *)
(* in between, or another thread does the same, its push_back races and    *)
(* the object may not get into the list.  (Worse things may happen then    *)
(* to a std::list; they are not modelled.)  The messages of the log thread *)
(* itself are those of a logger here, and what is appended to the dump log *)
(* is in CharRingbuffer.                                                   *)
(***************************************************************************)
EXTENDS Naturals, Sequences, FiniteSets, SequencesExt

CONSTANTS Loggers,     \* threads that log
          Pool,        \* the message objects
          MaxMessages  \* bound: number of messages

ASSUME PoolAssumption == IsFiniteSet(Pool) /\ Pool # {}
ASSUME BoundAssumption == MaxMessages \in Nat

VARIABLES
  empty_pool, full_pool,  \* lists of objects
  buf,               \* per object: the message in it; 0: none yet
  log_thread_value,  \* "there is something to print"
  sync_logging,
  run_flag,
  obj,               \* per logger: the objects it holds, one at most
  returning,         \* the loggers in return_pool_object
  raced,             \* those of them whose push_back races
  at,                \* where the log thread is
  printing,          \* the objects it prints, one at most
  stopping,          \* ~log_thread has been called
  \* history, not in the code:
  messages,          \* the number of messages begun
  queued, printed,   \* the messages put into full_pool, and those printed
  lost               \* the objects that did not get back into the pool

threadvars == <<log_thread_value, run_flag, at, printing>>
racevars == <<returning, raced, lost>>
vars == <<empty_pool, full_pool, buf, sync_logging, obj, stopping, messages,
          queued, printed, threadvars, racevars>>

Init ==
  /\ empty_pool = SetToSeq(Pool) /\ full_pool = <<>>
  /\ buf = [o \in Pool |-> 0]
  /\ log_thread_value = FALSE /\ sync_logging = FALSE /\ run_flag = TRUE
  /\ obj = [l \in Loggers |-> {}]
  /\ at = "start" /\ printing = {} /\ stopping = FALSE
  /\ messages = 0 /\ queued = <<>> /\ printed = <<>>
  /\ returning = {} /\ raced = {} /\ lost = {}

(* An access to empty_pool, with the mutex held or not: who is in the      *)
(* middle of return_pool_object races with it.                             *)
Access == raced' = returning /\ UNCHANGED <<returning, lost>>

-----------------------------------------------------------------------------
(* log_base::log *)

(* It drops the message if the pool is empty.  A thread whose call has not  *)
(* returned does not log, nor does any once the kernel is destroyed.       *)
GetPoolObject(l) ==
  /\ obj[l] = {} /\ ~stopping /\ messages < MaxMessages
  /\ empty_pool # <<>>
  /\ messages' = messages + 1
  /\ LET o == Head(empty_pool)
     IN  /\ empty_pool' = Tail(empty_pool)
         /\ obj' = [obj EXCEPT ![l] = {o}]
         /\ buf' = [buf EXCEPT ![o] = messages']
  /\ Access
  /\ UNCHANGED <<full_pool, sync_logging, stopping, queued, printed, threadvars>>

(* log(): with sync_logging in the thread that logs.   *)
PrintSync(l) ==
  /\ sync_logging /\ l \notin returning
  /\ \E o \in obj[l] :
       /\ printed' = Append(printed, buf[o])
       /\ empty_pool' = Append(empty_pool, o)
  /\ obj' = [obj EXCEPT ![l] = {}]
  /\ Access
  /\ UNCHANGED <<full_pool, buf, sync_logging, stopping, messages, queued, threadvars>>

(* Mutant of Queue: the newest message is the first. *)
QueueInFront(l) ==
  /\ ~sync_logging /\ l \notin returning
  /\ \E o \in obj[l] :
       /\ full_pool' = <<o>> \o full_pool
       /\ queued' = Append(queued, buf[o])
  /\ obj' = [obj EXCEPT ![l] = {}]
  /\ log_thread_value' = TRUE
  /\ UNCHANGED <<empty_pool, buf, sync_logging, run_flag, at, printing, stopping,
                 messages, printed, racevars>>

(* log(): else the message is queued, and the log thread notified.         *)
Queue(l) ==
  /\ ~sync_logging /\ l \notin returning
  /\ \E o \in obj[l] :
       /\ full_pool' = Append(full_pool, o)
       /\ queued' = Append(queued, buf[o])
  /\ obj' = [obj EXCEPT ![l] = {}]
  /\ log_thread_value' = TRUE
  /\ UNCHANGED <<empty_pool, buf, sync_logging, run_flag, at, printing, stopping,
                 messages, printed, racevars>>

(* return_pool_object(): the message is above the level. *)
ReturnPoolObject(l) ==
  /\ obj[l] # {} /\ l \notin returning
  /\ returning' = returning \cup {l}
  /\ raced' = IF returning = {} THEN raced ELSE returning'
  /\ UNCHANGED <<empty_pool, full_pool, buf, sync_logging, obj, stopping, messages,
                 queued, printed, lost, threadvars>>

(* The end of its push_back, which may have had no effect if it raced.     *)
Returned(l) ==
  /\ l \in returning
  /\ \E o \in obj[l] :
       \/ empty_pool' = Append(empty_pool, o) /\ UNCHANGED lost
       \/ l \in raced /\ lost' = lost \cup {o} /\ UNCHANGED empty_pool
  /\ obj' = [obj EXCEPT ![l] = {}]
  /\ returning' = returning \ {l} /\ raced' = returning \ {l}
  /\ UNCHANGED <<full_pool, buf, sync_logging, stopping, messages, queued, printed,
                 threadvars>>

(* kernel::config reads sync_logging when the log thread runs already.     *)
ConfigSyncLogging ==
  /\ ~sync_logging /\ sync_logging' = TRUE
  /\ UNCHANGED <<empty_pool, full_pool, buf, obj, stopping, messages, queued, printed,
                 threadvars, racevars>>

-----------------------------------------------------------------------------
(* log_thread::run *)

(* The inner loop with mtx held: take the next message.  When none is left  *)
(* the outer loop clears the flag, if it is set, and sleeps, or ends.      *)
Drain(value) ==
  IF full_pool # <<>>
  THEN /\ at' = "print" /\ printing' = {Head(full_pool)}
       /\ full_pool' = Tail(full_pool)
       /\ log_thread_value' = value
  ELSE /\ at' = IF run_flag THEN "wait" ELSE "done"
       /\ log_thread_value' = (value /\ ~run_flag)
       /\ printing' = {} /\ UNCHANGED full_pool

(* Mutant of Running: a timeout does not end the loop. *)
RunningOn ==
  /\ at \in {"start", "wait"}
  /\ IF log_thread_value
     THEN Drain(FALSE)
     ELSE at' = "wait" /\ UNCHANGED <<full_pool, log_thread_value, printing>>
  /\ UNCHANGED <<empty_pool, buf, sync_logging, run_flag, obj, stopping, messages,
                 queued, printed, racevars>>

(* The head of the outer loop, at the start and after a timeout.           *)
Running ==
  /\ at \in {"start", "wait"}
  /\ IF run_flag /\ log_thread_value
     THEN Drain(FALSE)
     ELSE /\ at' = IF run_flag THEN "wait" ELSE "done"
          /\ UNCHANGED <<full_pool, log_thread_value, printing>>
  /\ UNCHANGED <<empty_pool, buf, sync_logging, run_flag, obj, stopping, messages,
                 queued, printed, racevars>>

(* Notified, or woken without a reason. *)
Wake ==
  /\ at = "wait"
  /\ Drain(FALSE)
  /\ UNCHANGED <<empty_pool, buf, sync_logging, run_flag, obj, stopping, messages,
                 queued, printed, racevars>>

(* Mutant of PrintNext: the object is not returned. *)
PrintNextLeaks ==
  /\ at = "print"
  /\ \E o \in printing : printed' = Append(printed, buf[o])
  /\ Drain(log_thread_value)
  /\ UNCHANGED <<empty_pool, buf, sync_logging, run_flag, obj, stopping, messages, queued,
                 racevars>>

(* Write it out, without the lock; take it again and return the object.           *)
PrintNext ==
  /\ at = "print"
  /\ \E o \in printing :
       /\ printed' = Append(printed, buf[o])
       /\ empty_pool' = Append(empty_pool, o)
  /\ Drain(log_thread_value)
  /\ Access
  /\ UNCHANGED <<buf, sync_logging, run_flag, obj, stopping, messages, queued>>

-----------------------------------------------------------------------------
(* ~log_thread *)

Stop ==
  /\ ~stopping /\ \A l \in Loggers : obj[l] = {}
  /\ stopping' = TRUE /\ run_flag' = FALSE
  /\ UNCHANGED <<empty_pool, full_pool, buf, log_thread_value, sync_logging, obj, at,
                 printing, messages, queued, printed, racevars>>

(* Mutant of CleanUp: what is left in the queue is not written out. *)
CleanUpDropsRest ==
  /\ stopping /\ at = "done"
  /\ at' = "gone"
  /\ full_pool' = <<>> /\ empty_pool' = <<>>
  /\ UNCHANGED <<buf, log_thread_value, sync_logging, run_flag, obj, printing, stopping,
                 messages, queued, printed, racevars>>

(* Join the thread, write out what it has left and free the objects.           *)
CleanUp ==
  /\ stopping /\ at = "done"
  /\ at' = "gone"
  /\ printed' = printed \o [i \in DOMAIN full_pool |-> buf[full_pool[i]]]
  /\ full_pool' = <<>> /\ empty_pool' = <<>>
  /\ UNCHANGED <<buf, log_thread_value, sync_logging, run_flag, obj, printing, stopping,
                 messages, queued, racevars>>

-----------------------------------------------------------------------------
Log(l) == PrintSync(l) \/ Queue(l) \/ ReturnPoolObject(l) \/ Returned(l)
Run    == Running \/ Wake \/ PrintNext

Next ==
  \/ \E l \in Loggers : GetPoolObject(l) \/ Log(l)
  \/ ConfigSyncLogging \/ Run \/ Stop \/ CleanUp

Spec == Init /\ [][Next]_vars

(* A log call returns, and the log thread, whose wait times out after a    *)
(* second whether it is notified or not, and the destructor go on; nobody  *)
(* has to log anything or to stop.                                         *)
FairSpec ==
  /\ Spec
  /\ \A l \in Loggers : WF_vars(Log(l))
  /\ WF_vars(Running \/ PrintNext) /\ WF_vars(CleanUp)

-----------------------------------------------------------------------------
(* Properties. *)

Messages == 1 .. MaxMessages

TypeOK ==
  /\ empty_pool \in Seq(Pool) /\ full_pool \in Seq(Pool)
  /\ buf \in [Pool -> Messages \cup {0}]
  /\ log_thread_value \in BOOLEAN /\ sync_logging \in BOOLEAN
  /\ run_flag = ~stopping
  /\ obj \in [Loggers -> SUBSET Pool] /\ printing \in SUBSET Pool
  /\ at \in {"start", "wait", "print", "done", "gone"}
  /\ messages \in Messages \cup {0}
  /\ queued \in Seq(Messages) /\ printed \in Seq(Messages)
  /\ returning \in SUBSET Loggers /\ raced \in SUBSET returning /\ lost \in SUBSET Pool

(* Every message is printed at most once, and those that went through the  *)
(* queue in the order in which they were queued and without a gap, although *)
(* the object of one message is that of another as soon as it is back in   *)
(* the pool.                                                               *)
PrintedInOrder ==
  /\ IsInjective(printed)
  /\ \A i, j \in DOMAIN queued, k \in DOMAIN printed :
       i < j /\ printed[k] = queued[j] => \E h \in 1 .. k - 1 : printed[h] = queued[i]

(* A message that was queued is printed, also when robotkernel ends before *)
(* the log thread gets to it.                                              *)
QueuedIsPrinted ==
  \A m \in Messages : m \in ToSet(queued) ~> m \in ToSet(printed)

(* An exhausted pool is filled again, and messages are dropped for a time   *)
(* only, unless return_pool_object has lost an object.                     *)
PoolRefills == empty_pool = <<>> ~> empty_pool # <<>> \/ at = "gone" \/ lost # {}

(* ~log_thread returns. *)
StopReturns == stopping ~> at = "gone"
=============================================================================
