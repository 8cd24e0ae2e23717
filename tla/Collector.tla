----------------------------- MODULE Collector -----------------------------
(***************************************************************************)
(* trigger_collector.h: several slaves, each with a trigger callback of    *)
(* its own, tell the collector when their data are there; once those of    *)
(* all active slaves are, within a timeout, the collector calls back.      *)
(*                                                                         *)
(* The slaves are triggered by one device, whose list_mtx lets one call    *)
(* come after the other (Serial), or by several, whose threads overlap:    *)
(* there is no lock.  The module sets the mask, and reads of the clock and *)
(* of the mask are steps of their own, since both change meanwhile.        *)
(* A timestamp of 0 is that of a slave that is missing.                    *)
(***************************************************************************)
EXTENDS Naturals

CONSTANTS count,      \* the number of slaves
          Timeouts,   \* what reinit may be given
          Serial,     \* no two calls of trigger_collect overlap
          MaxTime,    \* bound: the clock stops there
          MaxChanges  \* bound: calls of the module and changes of the clock

ASSUME CollectorAssumption ==
  /\ count \in Nat \ {0} /\ Timeouts \subseteq Nat /\ Serial \in BOOLEAN
  /\ MaxTime \in Nat \ {0} /\ MaxChanges \in Nat

VARIABLES
  timestamps, active_mask, timeout, receive_timeout,
  now,        \* CLOCK_REALTIME, 1 at first
  at,         \* per slave: where its call of trigger_collect is
  ts,         \* per slave: the time it has read
  place,      \* per slave: the index of the loop over all slaves
  changes,
  \* history, not in the code:
  fresh,      \* the slaves that have triggered since the last callback
  steady,     \* those active since the present call of trigger_collect began
  set_back    \* the clock has been set back

membervars == <<timestamps, active_mask, timeout, receive_timeout>>
callvars   == <<at, ts, place>>
collectorvars ==
  <<membervars, callvars, now, changes, fresh, steady, set_back>>

Slaves == 0 .. count - 1

CollectorInit ==
  /\ timestamps = [i \in Slaves |-> 0] /\ active_mask = [i \in Slaves |-> TRUE]
  /\ timeout \in Timeouts /\ receive_timeout = 0
  /\ now = 1 /\ changes = 0
  /\ at = [i \in Slaves |-> "idle"]
  /\ ts = [i \in Slaves |-> 0] /\ place = [i \in Slaves |-> 0]
  /\ fresh = {} /\ steady = {} /\ set_back = FALSE

GoOn(i, l) == at' = [at EXCEPT ![i] = l]
Return(i) ==
  GoOn(i, "idle") /\ ts' = [ts EXCEPT ![i] = 0] /\ place' = [place EXCEPT ![i] = 0]

-----------------------------------------------------------------------------
(* trigger_collect(i), by trigger_cb::tick *)

get_timestamp(i) ==
  /\ at[i] = "idle" /\ (Serial => \A j \in Slaves : at[j] = "idle")
  /\ ts' = [ts EXCEPT ![i] = now]
  /\ GoOn(i, "expire")
  /\ fresh' = fresh \cup {i} /\ steady' = {j \in Slaves : active_mask[j]}
  /\ UNCHANGED <<membervars, place, now, changes, set_back>>

(* Mutant of Expire: the data of the last attempt are kept. *)
ExpireKeepsStamps(i) ==
  /\ at[i] = "expire"
  /\ GoOn(i, "mark")
  /\ receive_timeout' = IF receive_timeout < ts[i] THEN ts[i] + timeout ELSE receive_timeout
  /\ UNCHANGED <<timestamps, active_mask, timeout, ts, place, now, changes, fresh,
                 steady, set_back>>

(* Start over after a timeout, and after a callback. *)
Expire(i) ==
  /\ at[i] = "expire"
  /\ GoOn(i, "mark")
  /\ IF receive_timeout < ts[i]
     THEN /\ timestamps' = [j \in Slaves |-> 0]
          /\ receive_timeout' = ts[i] + timeout
     ELSE UNCHANGED <<timestamps, receive_timeout>>
  /\ UNCHANGED <<active_mask, timeout, ts, place, now, changes, fresh, steady,
                 set_back>>

Mark(i) ==
  /\ at[i] = "mark"
  /\ timestamps' = [timestamps EXCEPT ![i] = ts[i]]
  /\ GoOn(i, "scan")
  /\ UNCHANGED <<active_mask, timeout, receive_timeout, ts, place, now, changes,
                 fresh, steady, set_back>>

(* Mutant of Missing: slaves that are not active are waited for. *)
MissingAny(j) == timestamps[j] = 0

Missing(j) == active_mask[j] /\ timestamps[j] = 0

Scan(i) ==
  /\ at[i] = "scan" /\ place[i] < count
  /\ IF Missing(place[i])
     THEN Return(i)
     ELSE place' = [place EXCEPT ![i] = @ + 1] /\ UNCHANGED <<at, ts>>
  /\ UNCHANGED <<membervars, now, changes, fresh, steady, set_back>>

Collected(i) ==
  /\ at[i] = "scan" /\ place[i] = count
  /\ GoOn(i, "callback")
  /\ UNCHANGED <<membervars, ts, place, now, changes, fresh, steady, set_back>>

(* Mutant of CallbackDone: the next cycle does not start over. *)
CallbackDoneGoesOn(i) ==
  /\ at[i] = "callback"
  /\ Return(i)
  /\ fresh' = {}
  /\ UNCHANGED <<membervars, now, changes, steady, set_back>>

CallbackDone(i) ==
  /\ at[i] = "callback"
  /\ receive_timeout' = 0
  /\ Return(i)
  /\ fresh' = {}
  /\ UNCHANGED <<timestamps, active_mask, timeout, now, changes, steady, set_back>>

-----------------------------------------------------------------------------
(* The module, and the clock *)

Change == changes < MaxChanges /\ changes' = changes + 1

(* A mask that is too short leaves the other slaves as they are. *)
set_active_mask(mask) ==
  /\ Change
  /\ active_mask' = [i \in Slaves |-> IF i \in DOMAIN mask THEN mask[i] ELSE active_mask[i]]
  /\ steady' = {i \in steady : active_mask'[i]}
  /\ UNCHANGED <<timestamps, timeout, receive_timeout, callvars, now, fresh, set_back>>

(* Not while the collector is in use. *)
reinit(t) ==
  /\ Change /\ \A i \in Slaves : at[i] = "idle"
  /\ timeout' = t /\ receive_timeout' = 0
  /\ timestamps' = [i \in Slaves |-> 0] /\ active_mask' = [i \in Slaves |-> TRUE]
  /\ fresh' = {}
  /\ UNCHANGED <<callvars, now, steady, set_back>>

ClockTick ==
  /\ now < MaxTime /\ now' = now + 1
  /\ UNCHANGED <<membervars, callvars, changes, fresh, steady, set_back>>

(* CLOCK_REALTIME may be set back. *)
SetBack(t) ==
  /\ Change
  /\ t < now /\ now' = t /\ set_back' = TRUE
  /\ UNCHANGED <<membervars, callvars, fresh, steady>>

-----------------------------------------------------------------------------
Collect(i) == Expire(i) \/ Mark(i) \/ Scan(i) \/ Collected(i) \/ CallbackDone(i)

CollectorNext ==
  \/ \E i \in Slaves : get_timestamp(i) \/ Collect(i)
  \/ \E n \in 0 .. count : \E mask \in [0 .. n - 1 -> BOOLEAN] : set_active_mask(mask)
  \/ \E t \in Timeouts : reinit(t)
  \/ ClockTick \/ \E t \in 1 .. MaxTime : SetBack(t)

CollectorSpec == CollectorInit /\ [][CollectorNext]_collectorvars

(* Calls go on, and a slave that is active triggers again and again.       *)
FairCollector ==
  /\ CollectorSpec
  /\ \A i \in Slaves : /\ WF_collectorvars(Collect(i))
                       /\ SF_collectorvars(active_mask[i] /\ get_timestamp(i))

-----------------------------------------------------------------------------
(* Properties. *)

CollectorTypeOK ==
  /\ timestamps \in [Slaves -> Nat] /\ active_mask \in [Slaves -> BOOLEAN]
  /\ timeout \in Nat /\ receive_timeout \in Nat /\ now \in Nat \ {0}
  /\ at \in [Slaves -> {"idle", "expire", "mark", "scan", "callback"}]
  /\ ts \in [Slaves -> Nat] /\ place \in [Slaves -> 0 .. count]
  /\ changes \in Nat /\ set_back \in BOOLEAN
  /\ fresh \subseteq Slaves /\ steady \subseteq Slaves

InCallback(i) == at[i] = "callback"

(* "calls callback when all are collected": when the collector calls back,  *)
(* every active slave has new data, which no callback has seen before.     *)
FreshAtCallback == (\E i \in Slaves : InCallback(i)) => steady \subseteq fresh

(* "within timeout": the data the callback sees are no further apart than  *)
(* the timeout, as long as the clock is not set back.                      *)
InTime ==
  (\E i \in Slaves : InCallback(i)) /\ ~set_back =>
    \A i, j \in steady : timestamps[i] # 0 /\ timestamps[j] <= timestamps[i] + timeout

(* No timeout, change of the mask or of the clock leaves the collector     *)
(* stuck: when the slaves that are active trigger again and again, and in  *)
(* time, it calls back again and again.  (In time, since the clock stops.) *)
CallbackRecurs ==
  []<>((\E i \in Slaves : InCallback(i)) \/ \A i \in Slaves : ~active_mask[i])

-----------------------------------------------------------------------------
(* The inductive invariant of the proofs, for a collector whose calls do    *)
(* not overlap.                                                            *)

Calling(i) == at[i] # "idle"
OneCalls == \A i, j \in Slaves : Calling(i) /\ Calling(j) => i = j

SteadyIsActive == \A j \in steady : active_mask[j]

(* The slave that calls has read the clock and has new data, and the loop  *)
(* has found those of the active slaves before its place.                  *)
CallerInv ==
  \A i \in Slaves :
    /\ Calling(i) => ts[i] # 0 /\ i \in fresh
    /\ at[i] \in {"mark", "scan", "callback"} => receive_timeout # 0
    /\ at[i] \in {"scan", "callback"} =>
         \A j \in steady : j < place[i] => timestamps[j] # 0
    /\ at[i] = "callback" => place[i] = count
    /\ at[i] = "mark" => ts[i] <= receive_timeout
    /\ at[i] \in {"idle", "expire", "mark"} => place[i] = 0

(* The stamps of a cycle that has begun are new, *)
StampsAreFresh ==
  receive_timeout # 0 => \A j \in Slaves : timestamps[j] # 0 => j \in fresh

(* and of the time between its beginning and the timeout. *)
StampsInTime ==
  ~set_back =>
    /\ receive_timeout <= now + timeout
    /\ \A i \in Slaves : at[i] \in {"expire", "mark"} =>
         ts[i] <= now /\ receive_timeout <= ts[i] + timeout
    /\ receive_timeout # 0 => \A j \in Slaves : timestamps[j] # 0 =>
         timestamps[j] <= receive_timeout /\ receive_timeout <= timestamps[j] + timeout

CollectorInv ==
  CollectorTypeOK /\ OneCalls /\ SteadyIsActive /\ CallerInv /\ StampsAreFresh /\ StampsInTime
=============================================================================
