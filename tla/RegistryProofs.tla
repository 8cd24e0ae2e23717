--------------------------- MODULE RegistryProofs ---------------------------
(***************************************************************************)
(* Registry for every configuration: any finite sets of modules, bridges,  *)
(* service providers and listeners, and any number of objects.             *)
(*                                                                         *)
(* The properties say what holds between calls; in the middle of a call    *)
(* they are broken in ways that only what is left to do makes good.  The   *)
(* proofs therefore rest on the order of `todo': which entry may stand     *)
(* before which other one.                                                 *)
(***************************************************************************)
EXTENDS Registry, FiniteSetTheorems, SequenceTheorems, WellFoundedInduction, TLAPS

Objects == Nat \ {0}
Hearers == Listeners \cup Providers

(* A process data that gets its clock from another module has no trigger   *)
(* of its own, so there are no devices but these.                          *)
Addable == {d \in Devices : d[2] = "trigger" => ClockOf[d[1]] = d[1]}

(* What can be on todo. *)
Entries ==
  ({"add_device", "remove_device"} \X Addable \X Objects)
  \cup ({"notify_add", "notify_remove"} \X Hearers \X Devices \X Objects)
  \cup ({"erase"} \X Addable)
  \cup ({"remove_devices", "remove_services", "remove_own", "configure",
         "unload", "unloaded"} \X Owners)
  \cup ({"loaded", "reconfigured"} \X Owners \X Objects)
  \cup ({"new_handler"} \X Providers \X Owners \X Objects)
  \cup ({"delete_handler"} \X Providers \X Owners)
  \cup ({"remove_listener", "erase_listener"} \X Hearers)
  \cup ({"add_service"} \X Services \X Objects)
  \cup ({"offer", "withdraw"} \X Bridges \X Services)
  \cup ({"delete", "remove_service"} \X Services)
  \cup {<<"remove_bridges">>, <<"catch">>}

Pending == ToSet(todo)
Rest    == ToSet(Tail(todo))

TypeOK ==
  /\ object \in [Owners -> Nat] /\ mod_handle \in [Owners -> Nat] /\ objects \in Nat
  /\ phase \in {"load", "modules", "bridges", "providers", "running", "stopped"}
  /\ loaded \subseteq Owners /\ left \subseteq Owners \cup {Kernel}
  /\ services \in [Services -> Nat] /\ bridge_map \subseteq Bridges
  /\ offered \in [Bridges -> SUBSET Services]
  /\ refused \subseteq Services /\ hidden \subseteq Services
  /\ device_map \in [Devices -> Nat] /\ dl_map \subseteq Hearers
  /\ \A d \in Devices \ Addable : device_map[d] = 0
  /\ handlers \in [Providers -> [Owners -> Nat]]
  /\ told \in [Listeners -> SUBSET (Devices \X Objects)]
  /\ todo \in Seq(Entries)

-----------------------------------------------------------------------------
(* The order of todo. *)

Releases   == {"delete_handler", "remove_service", "withdraw", "delete"}
Dismissals == Releases \cup {"notify_remove"}
Removals   == Dismissals \cup {"remove_device", "erase"}
Unloads    == Removals \cup {"remove_devices", "remove_services", "remove_own"}
Additions  == {"add_device", "notify_add", "add_service", "offer", "new_handler", "catch"}

(* The module, and the service, that an entry is about. *)
OwnerOf(e) ==
  CASE e[1] \in {"add_device", "remove_device", "erase",
                 "add_service", "remove_service", "delete"} -> e[2][1]
    [] e[1] \in {"notify_add", "notify_remove", "offer", "withdraw"} -> e[3][1]
    [] e[1] \in {"new_handler", "delete_handler"} -> e[3]
    [] OTHER -> e[2]
ServiceOf(e) == IF e[1] = "add_service" THEN e[2] ELSE e[3]

(* e may stand before f: what is added is added, and what is removed is    *)
(* removed, before the call goes on; nothing that adds comes while devices *)
(* or listeners are on their way out; a trigger is dealt with at once.     *)
MayPrecede(e, f) ==
  /\ f[1] = "offer" => e[1] = "offer"
  /\ f[1] \in {"withdraw", "delete"} => e[1] = "withdraw"
  /\ f[1] = "catch" => e[1] # "remove_bridges"
  /\ f[1] = "notify_add" =>
       /\ e[1] \in Additions /\ (e[1] = "add_device" => e[2][2] = "trigger")
       /\ e[1] \in {"add_service", "offer"} => ServiceOf(e)[2] \in Providers
  /\ f[1] = "add_service" =>
       /\ f[2][2] \notin Providers
       /\ e[1] \in Additions \cup {"configure"} /\ (e[1] # "catch" => OwnerOf(e) = f[2][1])
  /\ f[1] = "new_handler" =>
       e[1] \in {"add_service", "offer"} /\ ServiceOf(e) = <<f[3], f[2]>>
  /\ f[1] \in {"add_device", "remove_device"} => f[2][2] # "trigger"
  /\ f[1] = "add_device" => e[1] \in Additions \cup Removals
  /\ f[1] = "remove_device" => e[1] \in Removals
  /\ f[1] = "erase" => e[1] \in (IF f[2][2] = "trigger" THEN Dismissals ELSE Removals)
  /\ f[1] = "notify_remove" =>
       /\ e[1] \in Removals
       /\ e[1] \in {"erase", "remove_device"} => e[2][2] = "trigger" /\ f[3][2] = "pd"
  /\ f[1] = "erase_listener" => e[1] \in Dismissals
  /\ f[1] \in {"delete_handler", "remove_own"} => e[1] \in Releases
  /\ f[1] = "loaded" =>
       e[1] \in Additions \cup {"configure"} /\ (e[1] # "catch" => OwnerOf(e) = f[2])
  /\ f[1] = "reconfigured" =>
       /\ e[1] \in Additions \cup Removals \cup {"configure"}
       /\ e[1] # "catch" => OwnerOf(e) = f[2]
  /\ f[1] = "remove_devices" => e[1] \in Removals
  /\ f[1] = "remove_services" =>
       e[1] \in Removals \cup {"remove_devices"} /\ OwnerOf(e) = f[2]
  /\ f[1] = "unloaded" => e[1] \in Unloads /\ OwnerOf(e) = f[2]
  /\ f[1] = "unload" => e[1] \in Unloads \cup {"unload", "unloaded"} /\ OwnerOf(e) # f[2]
  /\ f[1] \in {"remove_listener", "remove_service"} =>
       e[1] \in Unloads \cup {"unload", "unloaded", "remove_bridges",
                              "remove_listener", "erase_listener"}

Sorted(s) == \A i, j \in 1 .. Len(s) : i < j => MayPrecede(s[i], s[j])

-----------------------------------------------------------------------------
(* Sequences. *)

LEMMA ElementsOf ==
  ASSUME NEW S, NEW s \in Seq(S)
  PROVE  /\ ToSet(s) = {s[i] : i \in 1 .. Len(s)}
         /\ ToSet(s) \subseteq S
         /\ \A i \in 1 .. Len(s) : s[i] \in ToSet(s)
  BY DEF ToSet

LEMMA ElementsOfConcat ==
  ASSUME NEW S, NEW s \in Seq(S), NEW t \in Seq(S)
  PROVE  s \o t \in Seq(S) /\ ToSet(s \o t) = ToSet(s) \cup ToSet(t)
<1> DEFINE u == s \o t
<1>1. /\ u \in Seq(S) /\ Len(u) = Len(s) + Len(t) /\ Len(s) \in Nat /\ Len(t) \in Nat
      /\ \A i \in 1 .. Len(s) + Len(t) : u[i] = IF i <= Len(s) THEN s[i] ELSE t[i - Len(s)]
  BY ConcatProperties
<1> HIDE DEF u
<1>2. \A i \in 1 .. Len(s) : s[i] \in ToSet(u)
  <2> TAKE i \in 1 .. Len(s)
  <2>1. i \in 1 .. Len(u) /\ u[i] = s[i]
    BY <1>1
  <2> QED BY <1>1, <2>1, ElementsOf
<1>3. \A i \in 1 .. Len(t) : t[i] \in ToSet(u)
  <2> TAKE i \in 1 .. Len(t)
  <2>1. /\ Len(s) + i \in 1 .. Len(s) + Len(t) /\ ~(Len(s) + i <= Len(s))
        /\ (Len(s) + i) - Len(s) = i
    BY <1>1
  <2>2. Len(s) + i \in 1 .. Len(u) /\ u[Len(s) + i] = t[i]
    BY <1>1, <2>1
  <2> QED BY <1>1, <2>2, ElementsOf
<1>4. \A i \in 1 .. Len(u) : u[i] \in ToSet(s) \cup ToSet(t)
  <2> TAKE i \in 1 .. Len(u)
  <2>1. CASE i <= Len(s)
    BY <1>1, <2>1, ElementsOf
  <2>2. CASE ~(i <= Len(s))
    <3>1. i - Len(s) \in 1 .. Len(t) /\ u[i] = t[i - Len(s)]
      BY <1>1, <2>2
    <3> QED BY <3>1, ElementsOf
  <2> QED BY <2>1, <2>2
<1>5. /\ ToSet(u) = {u[i] : i \in 1 .. Len(u)} /\ ToSet(s) = {s[i] : i \in 1 .. Len(s)}
      /\ ToSet(t) = {t[i] : i \in 1 .. Len(t)}
  BY <1>1, ElementsOf
<1>6. ToSet(u) = ToSet(s) \cup ToSet(t)
  BY <1>2, <1>3, <1>4, <1>5
<1> QED BY <1>1, <1>6 DEF u

LEMMA SortedConcat ==
  ASSUME NEW s \in Seq(Entries), NEW t \in Seq(Entries), Sorted(s), Sorted(t),
         \A e \in ToSet(s), f \in ToSet(t) : MayPrecede(e, f)
  PROVE  Sorted(s \o t)
<1> DEFINE u == s \o t
<1>1. /\ Len(u) = Len(s) + Len(t) /\ Len(s) \in Nat /\ Len(t) \in Nat
      /\ \A i \in 1 .. Len(s) + Len(t) : u[i] = IF i <= Len(s) THEN s[i] ELSE t[i - Len(s)]
  BY ConcatProperties
<1> HIDE DEF u
<1>2. SUFFICES ASSUME NEW i \in 1 .. Len(u), NEW j \in 1 .. Len(u), i < j
               PROVE  MayPrecede(u[i], u[j])
  BY DEF Sorted, u
<1>3. CASE j <= Len(s)
  <2>1. i \in 1 .. Len(s) /\ j \in 1 .. Len(s) /\ u[i] = s[i] /\ u[j] = s[j]
    BY <1>1, <1>2, <1>3
  <2> QED BY <1>2, <2>1 DEF Sorted
<1>4. CASE ~(i <= Len(s))
  <2>1. /\ i - Len(s) \in 1 .. Len(t) /\ j - Len(s) \in 1 .. Len(t)
        /\ i - Len(s) < j - Len(s)
        /\ u[i] = t[i - Len(s)] /\ u[j] = t[j - Len(s)]
    BY <1>1, <1>2, <1>4
  <2> QED BY <2>1 DEF Sorted
<1>5. CASE i <= Len(s) /\ ~(j <= Len(s))
  <2>1. i \in 1 .. Len(s) /\ j - Len(s) \in 1 .. Len(t) /\ u[i] = s[i] /\ u[j] = t[j - Len(s)]
    BY <1>1, <1>2, <1>5
  <2>2. s[i] \in ToSet(s) /\ t[j - Len(s)] \in ToSet(t)
    BY <2>1, ElementsOf
  <2> QED BY <2>1, <2>2
<1> QED BY <1>1, <1>3, <1>4, <1>5

LEMMA Join ==
  ASSUME NEW s \in Seq(Entries), NEW t \in Seq(Entries), Sorted(s), Sorted(t),
         \A e \in ToSet(s), f \in ToSet(t) : MayPrecede(e, f)
  PROVE  /\ s \o t \in Seq(Entries) /\ Sorted(s \o t)
         /\ ToSet(s \o t) = ToSet(s) \cup ToSet(t)
<1>1. s \o t \in Seq(Entries) /\ ToSet(s \o t) = ToSet(s) \cup ToSet(t)
  BY ElementsOfConcat
<1>2. Sorted(s \o t)
  BY SortedConcat
<1> QED BY <1>1, <1>2

(* A sequence of entries any of which may stand before any other. *)
LEMMA SortedIfAny ==
  ASSUME NEW s \in Seq(Entries), \A e, f \in ToSet(s) : MayPrecede(e, f)
  PROVE  Sorted(s)
<1>1. \A i \in 1 .. Len(s) : s[i] \in ToSet(s)
  BY ElementsOf
<1> QED BY <1>1 DEF Sorted

LEMMA Single ==
  ASSUME NEW e \in Entries
  PROVE  <<e>> \in Seq(Entries) /\ ToSet(<<e>>) = {e} /\ Sorted(<<e>>)
<1>1. <<e>> \in Seq(Entries) /\ Len(<<e>>) = 1 /\ <<e>>[1] = e
  OBVIOUS
<1>2. 1 .. 1 = {1}
  OBVIOUS
<1>3. Sorted(<<e>>)
  BY <1>1 DEF Sorted
<1>4. ToSet(<<e>>) = {<<e>>[i] : i \in 1 .. 1}
  BY <1>1, ElementsOf
<1>5. ToSet(<<e>>) = {e}
  BY <1>1, <1>2, <1>4
<1> QED BY <1>1, <1>3, <1>5

LEMMA Triple ==
  ASSUME NEW x \in Entries, NEW y \in Entries, NEW z \in Entries,
         MayPrecede(x, y), MayPrecede(x, z), MayPrecede(y, z)
  PROVE  /\ <<x, y, z>> \in Seq(Entries) /\ ToSet(<<x, y, z>>) = {x, y, z}
         /\ Sorted(<<x, y, z>>)
<1> DEFINE t == <<x, y, z>>
<1>1. t \in Seq(Entries) /\ Len(t) = 3 /\ t[1] = x /\ t[2] = y /\ t[3] = z
  OBVIOUS
<1> HIDE DEF t
<1>2. 1 .. 3 = {1, 2, 3}
  OBVIOUS
<1>3. ToSet(t) = {t[i] : i \in 1 .. 3}
  BY <1>1, ElementsOf
<1>4. ToSet(t) = {x, y, z}
  BY <1>1, <1>2, <1>3
<1>5. Sorted(t)
  <2> SUFFICES ASSUME NEW i \in {1, 2, 3}, NEW j \in {1, 2, 3}, i < j
               PROVE  MayPrecede(t[i], t[j])
    BY <1>1, <1>2 DEF Sorted
  <2> QED BY <1>1
<1> QED BY <1>1, <1>4, <1>5 DEF t

LEMMA Nothing ==
  <<>> \in Seq(Entries) /\ ToSet(<<>>) = {} /\ Sorted(<<>>)
<1>1. <<>> \in Seq(Entries) /\ Len(<<>>) = 0
  OBVIOUS
<1> QED BY <1>1 DEF ToSet, Sorted

(* The elements of a loop over a finite set. *)
LEMMA EachOf ==
  ASSUME NEW S, IsFiniteSet(S), NEW F \in [S -> Entries], NEW c,
         c = [i \in DOMAIN SetToSeq(S) |-> c[i]],
         \A i \in DOMAIN SetToSeq(S) :
           SetToSeq(S)[i] \in S => c[i] = F[SetToSeq(S)[i]]
  PROVE  c \in Seq(Entries) /\ ToSet(c) = {F[x] : x \in S}
<1> DEFINE s == SetToSeq(S)
           N == Cardinality(S)
<1>1. N \in Nat /\ \E f : f \in Bijection(1 .. N, S)
  BY FS_CardinalityType DEF ExistsBijection
<1>2. PICK f \in [1 .. N -> S] : IsInjective(f) /\ f \in Surjection(1 .. N, S)
  BY <1>1 DEF Bijection, Injection, IsInjective
<1>3. s \in [1 .. N -> S] /\ IsInjective(s)
  BY <1>2 DEF SetToSeq
<1>4. \A x \in S : \E i \in 1 .. N : s[i] = x
  <2>1. s \in Injection(1 .. N, S)
    BY <1>3 DEF Injection, IsInjective
  <2> DEFINE T == {s[i] : i \in 1 .. N}
  <2>2. T \subseteq S /\ s \in Bijection(1 .. N, T)
    BY <1>3, <2>1 DEF Bijection, Injection, Surjection
  <2>3. IsFiniteSet(1 .. N) /\ Cardinality(1 .. N) = N
    <3>1. N \in Nat
      BY <1>1
    <3> HIDE DEF N
    <3> QED BY <3>1, FS_Interval
  <2>4. ExistsBijection(1 .. N, T)
    BY <2>2 DEF ExistsBijection
  <2>5. Cardinality(T) = N
    BY <2>3, <2>4, FS_Bijection
  <2>6. T = S
    BY <2>2, <2>5, FS_Subset
  <2> QED BY <2>6
<1>5. DOMAIN s = 1 .. N
  BY <1>3
<1>6. c = [i \in 1 .. N |-> F[s[i]]]
  <2>1. \A i \in 1 .. N : c[i] = F[s[i]]
    BY <1>3, <1>5
  <2>2. c = [i \in 1 .. N |-> c[i]]
    BY <1>5
  <2> QED BY <2>1, <2>2
<1> HIDE DEF s, N
<1>7. c \in [1 .. N -> Entries]
  BY <1>3, <1>6
<1>8. c \in Seq(Entries) /\ Len(c) = N
  BY <1>1, <1>7
<1>9. ToSet(c) = {c[i] : i \in 1 .. N}
  <2>1. DOMAIN c = 1 .. N
    BY <1>7
  <2> QED BY <2>1 DEF ToSet
<1>10. \A i \in 1 .. N : c[i] = F[s[i]] /\ s[i] \in S
  BY <1>3, <1>6
<1>11. \A e \in ToSet(c) : \E x \in S : e = F[x]
  BY <1>9, <1>10
<1>12. \A x \in S : F[x] \in ToSet(c)
  <2> TAKE x \in S
  <2>1. PICK i \in 1 .. N : s[i] = x
    BY <1>4
  <2> QED BY <1>9, <1>10, <2>1
<1>13. ToSet(c) = {F[x] : x \in S}
  BY <1>11, <1>12
<1> QED BY <1>8, <1>13

(* It comes to each of them once. *)
LEMMA EachOnce ==
  ASSUME NEW S, IsFiniteSet(S), NEW s, s = SetToSeq(S)
  PROVE  /\ \A i \in DOMAIN s : s[i] \in S
         /\ \A i, j \in DOMAIN s : s[i] = s[j] => i = j
<1> DEFINE N == Cardinality(S)
<1>1. N \in Nat /\ \E f : f \in Bijection(1 .. N, S)
  BY FS_CardinalityType DEF ExistsBijection
<1>2. PICK f \in [1 .. N -> S] : IsInjective(f)
  BY <1>1 DEF Bijection, Injection, IsInjective
<1>3. s \in [1 .. N -> S] /\ IsInjective(s)
  BY <1>2 DEF SetToSeq
<1> QED BY <1>3 DEF IsInjective

(* Every f is behind an e. *)
Before(s, e, f) == \A j \in 1 .. Len(s) : s[j] = f => \E i \in 1 .. j - 1 : s[i] = e

LEMMA BeforeConcat ==
  ASSUME NEW c \in Seq(Entries), NEW t \in Seq(Entries), NEW e, NEW f, f \notin ToSet(c),
         e \in ToSet(c) \/ Before(t, e, f)
  PROVE  Before(c \o t, e, f)
<1> DEFINE u == c \o t
<1>1. /\ u \in Seq(Entries) /\ Len(u) = Len(c) + Len(t) /\ Len(c) \in Nat /\ Len(t) \in Nat
      /\ \A i \in 1 .. Len(c) + Len(t) : u[i] = IF i <= Len(c) THEN c[i] ELSE t[i - Len(c)]
  BY ConcatProperties
<1> HIDE DEF u
<1>2. ToSet(c) = {c[i] : i \in 1 .. Len(c)}
  BY ElementsOf
<1> SUFFICES ASSUME NEW j \in 1 .. Len(u), u[j] = f
             PROVE  \E i \in 1 .. j - 1 : u[i] = e
  BY DEF Before, u
<1>3. ~(j <= Len(c))
  <2> SUFFICES ASSUME j <= Len(c) PROVE FALSE
    OBVIOUS
  <2>1. j \in 1 .. Len(c) /\ c[j] = f
    BY <1>1
  <2> QED BY <1>2, <2>1
<1>4. j - Len(c) \in 1 .. Len(t) /\ t[j - Len(c)] = f
  BY <1>1, <1>3
<1>5. CASE e \in ToSet(c)
  <2>1. PICK i \in 1 .. Len(c) : c[i] = e
    BY <1>2, <1>5
  <2>2. i \in 1 .. j - 1 /\ i \in 1 .. Len(c) + Len(t) /\ i <= Len(c)
    BY <1>1, <1>3
  <2> QED BY <1>1, <2>1, <2>2
<1>6. CASE Before(t, e, f)
  <2>1. PICK i \in 1 .. (j - Len(c)) - 1 : t[i] = e
    BY <1>4, <1>6 DEF Before
  <2>2. /\ i + Len(c) \in 1 .. j - 1 /\ i + Len(c) \in 1 .. Len(c) + Len(t)
        /\ ~(i + Len(c) <= Len(c)) /\ (i + Len(c)) - Len(c) = i
    BY <1>1, <1>4
  <2> QED BY <1>1, <2>1, <2>2
<1> QED BY <1>5, <1>6

(* What has something before it still has when the head makes way for C. *)
KeepsBefore(C) ==
  \A e, f \in Entries :
    f \notin C /\ (e \in C \/ (Before(todo, e, f) /\ e # Head(todo))) => Before(todo', e, f)

(* What Do does: the head of todo makes way for c. *)
LEMMA DoStep ==
  ASSUME TypeOK, Sorted(todo), todo # <<>>, NEW c \in Seq(Entries), Sorted(c), Do(c),
         \A e \in ToSet(c), f \in Rest : MayPrecede(Head(todo), f) => MayPrecede(e, f)
  PROVE  /\ Head(todo) \in Entries
         /\ Pending = {Head(todo)} \cup Rest
         /\ \A f \in Rest : f \in Entries /\ MayPrecede(Head(todo), f)
         /\ todo' \in Seq(Entries) /\ Sorted(todo)'
         /\ Pending' = ToSet(c) \cup Rest /\ KeepsBefore(ToSet(c))
<1>1. todo \in Seq(Entries)
  BY DEF TypeOK
<1> DEFINE h == Head(todo)
           t == Tail(todo)
<1>2. /\ h \in Entries /\ h = todo[1] /\ t \in Seq(Entries)
      /\ Len(t) = Len(todo) - 1 /\ Len(todo) \in Nat \ {0}
      /\ \A i \in 1 .. Len(t) : t[i] = todo[i + 1]
  BY <1>1, HeadTailProperties, EmptySeq
<1> HIDE DEF h, t
<1>3. \A i \in 1 .. Len(t) : MayPrecede(h, t[i])
  <2> TAKE i \in 1 .. Len(t)
  <2>1. 1 \in 1 .. Len(todo) /\ i + 1 \in 1 .. Len(todo) /\ 1 < i + 1
    BY <1>2
  <2> QED BY <1>2, <2>1 DEF Sorted
<1>4. Sorted(t)
  <2> SUFFICES ASSUME NEW i \in 1 .. Len(t), NEW j \in 1 .. Len(t), i < j
               PROVE  MayPrecede(t[i], t[j])
    BY DEF Sorted
  <2>1. i + 1 \in 1 .. Len(todo) /\ j + 1 \in 1 .. Len(todo) /\ i + 1 < j + 1
    BY <1>2
  <2> QED BY <1>2, <2>1 DEF Sorted
<1>5. ToSet(t) = {t[i] : i \in 1 .. Len(t)} /\ ToSet(todo) = {todo[i] : i \in 1 .. Len(todo)}
  BY <1>1, <1>2, ElementsOf
<1>6. \A f \in ToSet(t) : f \in Entries /\ MayPrecede(h, f)
  BY <1>2, <1>3, <1>5
<1>7. ToSet(todo) = {h} \cup ToSet(t)
  <2>1. \A i \in 1 .. Len(todo) : i = 1 \/ (i - 1 \in 1 .. Len(t) /\ todo[i] = t[i - 1])
    <3> TAKE i \in 1 .. Len(todo)
    <3>1. CASE i # 1
      <4>1. i - 1 \in 1 .. Len(t) /\ (i - 1) + 1 = i
        BY <1>2, <3>1
      <4> QED BY <1>2, <4>1
    <3> QED BY <3>1
  <2>2. \A i \in 1 .. Len(t) : i + 1 \in 1 .. Len(todo) /\ todo[i + 1] = t[i]
    BY <1>2
  <2>3. 1 \in 1 .. Len(todo)
    BY <1>2
  <2> QED BY <1>2, <1>5, <2>1, <2>2, <2>3
<1>8. todo' = c \o t
  BY DEF Do, t
<1>9. \A e \in ToSet(c), f \in ToSet(t) : MayPrecede(e, f)
  BY <1>6 DEF Rest, h, t
<1>10. c \o t \in Seq(Entries) /\ ToSet(c \o t) = ToSet(c) \cup ToSet(t) /\ Sorted(c \o t)
  BY <1>2, <1>4, <1>9, ElementsOfConcat, SortedConcat
<1>11. todo' \in Seq(Entries) /\ Sorted(todo') /\ ToSet(todo') = ToSet(c) \cup ToSet(t)
  BY <1>8, <1>10
<1>12. Sorted(todo)' /\ Pending' = ToSet(todo')
  BY <1>11 DEF Sorted, Pending, MayPrecede
<1>13. \A e, f \in Entries : Before(todo, e, f) /\ e # h => Before(t, e, f)
  <2> SUFFICES ASSUME NEW e \in Entries, NEW f \in Entries, Before(todo, e, f), e # h,
                      NEW j \in 1 .. Len(t), t[j] = f
               PROVE  \E i \in 1 .. j - 1 : t[i] = e
    BY DEF Before
  <2>1. j + 1 \in 1 .. Len(todo) /\ todo[j + 1] = f
    BY <1>2
  <2>2. PICK i \in 1 .. (j + 1) - 1 : todo[i] = e
    BY <2>1 DEF Before
  <2>3. i # 1
    BY <1>2, <2>2
  <2>4. i - 1 \in 1 .. j - 1 /\ i - 1 \in 1 .. Len(t) /\ (i - 1) + 1 = i
    BY <1>2, <2>3
  <2> QED BY <1>2, <2>2, <2>4
<1>14. KeepsBefore(ToSet(c))
  <2> SUFFICES ASSUME NEW e \in Entries, NEW f \in Entries, f \notin ToSet(c),
                      e \in ToSet(c) \/ (Before(todo, e, f) /\ e # h)
               PROVE  Before(todo', e, f)
    BY DEF KeepsBefore, h
  <2>1. Before(c \o t, e, f)
    BY <1>2, <1>13, BeforeConcat
  <2> QED BY <1>8, <2>1
<1> QED BY <1>2, <1>6, <1>7, <1>11, <1>12, <1>14 DEF h, t, Pending, Rest

-----------------------------------------------------------------------------
(* Entries. *)

LEMMA Finite ==
  /\ \A S : S \subseteq Hearers => IsFiniteSet(S)
  /\ \A S : S \subseteq Providers => IsFiniteSet(S)
  /\ \A S : S \subseteq Bridges => IsFiniteSet(S)
  /\ \A S : S \subseteq Owners => IsFiniteSet(S)
  /\ \A S : S \subseteq Services => IsFiniteSet(S)
  /\ \A S : S \subseteq Devices => IsFiniteSet(S)
  /\ \A o \in Owners : IsFiniteSet(Kinds[o])
<1>1. /\ IsFiniteSet(Owners) /\ IsFiniteSet(Bridges)
      /\ IsFiniteSet(Providers) /\ IsFiniteSet(Listeners)
  BY RegistryAssumption
<1>2. IsFiniteSet(Hearers)
  BY <1>1, FS_Union DEF Hearers
<1>3. IsFiniteSet({"pd", "trigger", "interface"})
  <2>1. IsFiniteSet({"pd"}) /\ IsFiniteSet({"trigger"}) /\ IsFiniteSet({"interface"})
    BY FS_Singleton
  <2>2. IsFiniteSet({"pd"} \cup {"trigger"})
    BY <2>1, FS_Union
  <2>3. IsFiniteSet(({"pd"} \cup {"trigger"}) \cup {"interface"})
    BY <2>1, <2>2, FS_Union
  <2>4. ({"pd"} \cup {"trigger"}) \cup {"interface"} = {"pd", "trigger", "interface"}
    OBVIOUS
  <2> QED BY <2>3, <2>4
<1>4. IsFiniteSet(Devices)
  BY <1>1, <1>3, FS_Product DEF Devices
<1>5. IsFiniteSet(Services)
  <2>1. IsFiniteSet(Owners \X Providers)
    BY <1>1, FS_Product
  <2>2. IsFiniteSet(Owners \cup {Kernel})
    BY <1>1, FS_Singleton, FS_Union
  <2>3. IsFiniteSet((Owners \cup {Kernel}) \X {"own"})
    BY <2>2, FS_Singleton, FS_Product
  <2>4. {<<o, "own">> : o \in Owners \cup {Kernel}} = (Owners \cup {Kernel}) \X {"own"}
    OBVIOUS
  <2> QED BY <2>1, <2>3, <2>4, FS_Union DEF Services
<1>6. \A o \in Owners : Kinds[o] \subseteq {"pd", "trigger", "interface"}
  BY RegistryAssumption
<1> QED BY <1>1, <1>2, <1>3, <1>4, <1>5, <1>6, FS_Subset

LEMMA Named ==
  /\ \A o \in Owners, k \in {"pd", "trigger", "interface"} : Device(o, k) \in Devices
  /\ \A o \in Owners \cup {Kernel} : <<o, "own">> \in Services
  /\ \A o \in Owners, p \in Providers : <<o, p>> \in Services
  /\ \A d \in Devices : /\ d[1] \in Owners /\ d[2] \in {"pd", "trigger", "interface"}
                        /\ d = <<d[1], d[2]>>
  /\ \A s \in Services : s[1] \in Owners \cup {Kernel} /\ s = <<s[1], s[2]>>
  BY DEF Devices, Device, Services

(* Which devices there can be. *)
LEMMA AddableDevices ==
  /\ Addable \subseteq Devices
  /\ \A o \in Owners, k \in {"pd", "interface"} : Device(o, k) \in Addable
  /\ \A d \in Devices : Generates(d) =>
       Clock(d[1]) \in Addable /\ Clock(d[1]) = Device(d[1], "trigger")
  BY DEF Addable, Devices, Device, Generates, Clock

(* Which entries there are. *)
LEMMA Made ==
  /\ \A d \in Addable, g \in Objects :
       <<"add_device", d, g>> \in Entries /\ <<"remove_device", d, g>> \in Entries
  /\ \A l \in Hearers, d \in Devices, g \in Objects :
       <<"notify_add", l, d, g>> \in Entries /\ <<"notify_remove", l, d, g>> \in Entries
  /\ \A d \in Addable : <<"erase", d>> \in Entries
  /\ \A o \in Owners, op \in {"remove_devices", "remove_services", "remove_own",
                             "configure", "unload", "unloaded"} : <<op, o>> \in Entries
  /\ \A o \in Owners, g \in Objects :
       <<"loaded", o, g>> \in Entries /\ <<"reconfigured", o, g>> \in Entries
  /\ \A p \in Providers, o \in Owners, g \in Objects : <<"new_handler", p, o, g>> \in Entries
  /\ \A p \in Providers, o \in Owners : <<"delete_handler", p, o>> \in Entries
  /\ \A l \in Hearers :
       <<"remove_listener", l>> \in Entries /\ <<"erase_listener", l>> \in Entries
  /\ \A s \in Services, g \in Objects : <<"add_service", s, g>> \in Entries
  /\ \A b \in Bridges, s \in Services :
       <<"offer", b, s>> \in Entries /\ <<"withdraw", b, s>> \in Entries
  /\ \A s \in Services : <<"delete", s>> \in Entries /\ <<"remove_service", s>> \in Entries
  /\ <<"remove_bridges">> \in Entries /\ <<"catch">> \in Entries
  BY DEF Entries

(* And what is in them. *)
LEMMA Shape ==
  ASSUME NEW e \in Entries
  PROVE  /\ e[1] \in {"add_device", "remove_device"} =>
              e = <<e[1], e[2], e[3]>> /\ e[2] \in Addable /\ e[2] \in Devices /\ e[3] \in Objects
         /\ e[1] \in {"notify_add", "notify_remove"} =>
              /\ e = <<e[1], e[2], e[3], e[4]>>
              /\ e[2] \in Hearers /\ e[3] \in Devices /\ e[4] \in Objects
         /\ e[1] = "erase" => e = <<e[1], e[2]>> /\ e[2] \in Addable /\ e[2] \in Devices
         /\ e[1] \in {"remove_devices", "remove_services", "remove_own", "configure",
                      "unload", "unloaded"} => e = <<e[1], e[2]>> /\ e[2] \in Owners
         /\ e[1] \in {"loaded", "reconfigured"} =>
              e = <<e[1], e[2], e[3]>> /\ e[2] \in Owners /\ e[3] \in Objects
         /\ e[1] = "new_handler" =>
              /\ e = <<e[1], e[2], e[3], e[4]>>
              /\ e[2] \in Providers /\ e[3] \in Owners /\ e[4] \in Objects
         /\ e[1] = "delete_handler" =>
              e = <<e[1], e[2], e[3]>> /\ e[2] \in Providers /\ e[3] \in Owners
         /\ e[1] \in {"remove_listener", "erase_listener"} =>
              e = <<e[1], e[2]>> /\ e[2] \in Hearers
         /\ e[1] = "add_service" =>
              e = <<e[1], e[2], e[3]>> /\ e[2] \in Services /\ e[3] \in Objects
         /\ e[1] \in {"offer", "withdraw"} =>
              e = <<e[1], e[2], e[3]>> /\ e[2] \in Bridges /\ e[3] \in Services
         /\ e[1] \in {"delete", "remove_service"} => e = <<e[1], e[2]>> /\ e[2] \in Services
         /\ e[1] \in {"remove_bridges", "catch"} => e = <<e[1]>>
  BY AddableDevices DEF Entries

-----------------------------------------------------------------------------
(* The loops that are put on todo. *)

LEMMA KindsOf ==
  ASSUME NEW o \in Owners
  PROVE  Kinds[o] \subseteq {"pd", "interface"}
  BY RegistryAssumption

LEMMA NotifyAddLoop ==
  ASSUME NEW S \in SUBSET Hearers, NEW d \in Devices, NEW g \in Objects
  PROVE  LET c == [i \in DOMAIN SetToSeq(S) |-> <<"notify_add", SetToSeq(S)[i], d, g>>]
         IN  /\ c \in Seq(Entries) /\ Sorted(c)
             /\ ToSet(c) = {<<"notify_add", x, d, g>> : x \in S}
<1> DEFINE c == [i \in DOMAIN SetToSeq(S) |-> <<"notify_add", SetToSeq(S)[i], d, g>>]
           F == [x \in S |-> <<"notify_add", x, d, g>>]
<1>1. F \in [S -> Entries]
  BY Made
<1>2. IsFiniteSet(S)
  BY Finite
<1>3. c = [i \in DOMAIN SetToSeq(S) |-> c[i]]
  OBVIOUS
<1>4. \A i \in DOMAIN SetToSeq(S) :
        SetToSeq(S)[i] \in S => c[i] = F[SetToSeq(S)[i]]
  OBVIOUS
<1>5. c \in Seq(Entries) /\ ToSet(c) = {F[x] : x \in S}
  <2> HIDE DEF c, F
  <2> QED BY <1>1, <1>2, <1>3, <1>4, EachOf
<1>6. ToSet(c) = {<<"notify_add", x, d, g>> : x \in S}
  BY <1>5
<1>7. \A e, f \in ToSet(c) : MayPrecede(e, f)
  <2> HIDE DEF c
  <2> QED BY <1>6 DEF MayPrecede, Additions, Removals, Dismissals, Releases, Unloads
<1> HIDE DEF c
<1>8. Sorted(c)
  BY <1>5, <1>7, SortedIfAny
<1> QED BY <1>5, <1>6, <1>8 DEF c

LEMMA NotifyRemoveLoop ==
  ASSUME NEW S \in SUBSET Hearers, NEW d \in Devices, NEW g \in Objects
  PROVE  LET c == [i \in DOMAIN SetToSeq(S) |-> <<"notify_remove", SetToSeq(S)[i], d, g>>]
         IN  /\ c \in Seq(Entries) /\ Sorted(c)
             /\ ToSet(c) = {<<"notify_remove", x, d, g>> : x \in S}
<1> DEFINE c == [i \in DOMAIN SetToSeq(S) |-> <<"notify_remove", SetToSeq(S)[i], d, g>>]
           F == [x \in S |-> <<"notify_remove", x, d, g>>]
<1>1. F \in [S -> Entries]
  BY Made
<1>2. IsFiniteSet(S)
  BY Finite
<1>3. c = [i \in DOMAIN SetToSeq(S) |-> c[i]]
  OBVIOUS
<1>4. \A i \in DOMAIN SetToSeq(S) :
        SetToSeq(S)[i] \in S => c[i] = F[SetToSeq(S)[i]]
  OBVIOUS
<1>5. c \in Seq(Entries) /\ ToSet(c) = {F[x] : x \in S}
  <2> HIDE DEF c, F
  <2> QED BY <1>1, <1>2, <1>3, <1>4, EachOf
<1>6. ToSet(c) = {<<"notify_remove", x, d, g>> : x \in S}
  BY <1>5
<1>7. \A e, f \in ToSet(c) : MayPrecede(e, f)
  <2> HIDE DEF c
  <2> QED BY <1>6 DEF MayPrecede, Additions, Removals, Dismissals, Releases, Unloads
<1> HIDE DEF c
<1>8. Sorted(c)
  BY <1>5, <1>7, SortedIfAny
<1> QED BY <1>5, <1>6, <1>8 DEF c

LEMMA DeleteHandlerLoop ==
  ASSUME NEW S \in SUBSET Providers, NEW o \in Owners
  PROVE  LET c == [i \in DOMAIN SetToSeq(S) |-> <<"delete_handler", SetToSeq(S)[i], o>>]
         IN  /\ c \in Seq(Entries) /\ Sorted(c)
             /\ ToSet(c) = {<<"delete_handler", x, o>> : x \in S}
<1> DEFINE c == [i \in DOMAIN SetToSeq(S) |-> <<"delete_handler", SetToSeq(S)[i], o>>]
           F == [x \in S |-> <<"delete_handler", x, o>>]
<1>1. F \in [S -> Entries]
  BY Made
<1>2. IsFiniteSet(S)
  BY Finite
<1>3. c = [i \in DOMAIN SetToSeq(S) |-> c[i]]
  OBVIOUS
<1>4. \A i \in DOMAIN SetToSeq(S) :
        SetToSeq(S)[i] \in S => c[i] = F[SetToSeq(S)[i]]
  OBVIOUS
<1>5. c \in Seq(Entries) /\ ToSet(c) = {F[x] : x \in S}
  <2> HIDE DEF c, F
  <2> QED BY <1>1, <1>2, <1>3, <1>4, EachOf
<1>6. ToSet(c) = {<<"delete_handler", x, o>> : x \in S}
  BY <1>5
<1>7. \A e, f \in ToSet(c) : MayPrecede(e, f)
  <2> HIDE DEF c
  <2> QED BY <1>6 DEF MayPrecede, Additions, Removals, Dismissals, Releases, Unloads
<1> HIDE DEF c
<1>8. Sorted(c)
  BY <1>5, <1>7, SortedIfAny
<1> QED BY <1>5, <1>6, <1>8 DEF c

LEMMA RemoveListenerLoop ==
  ASSUME NEW S \in SUBSET Providers
  PROVE  LET c == [i \in DOMAIN SetToSeq(S) |-> <<"remove_listener", SetToSeq(S)[i]>>]
         IN  /\ c \in Seq(Entries) /\ Sorted(c)
             /\ ToSet(c) = {<<"remove_listener", x>> : x \in S}
<1> DEFINE c == [i \in DOMAIN SetToSeq(S) |-> <<"remove_listener", SetToSeq(S)[i]>>]
           F == [x \in S |-> <<"remove_listener", x>>]
<1>1. F \in [S -> Entries]
  BY Made DEF Hearers
<1>2. IsFiniteSet(S)
  BY Finite
<1>3. c = [i \in DOMAIN SetToSeq(S) |-> c[i]]
  OBVIOUS
<1>4. \A i \in DOMAIN SetToSeq(S) :
        SetToSeq(S)[i] \in S => c[i] = F[SetToSeq(S)[i]]
  OBVIOUS
<1>5. c \in Seq(Entries) /\ ToSet(c) = {F[x] : x \in S}
  <2> HIDE DEF c, F
  <2> QED BY <1>1, <1>2, <1>3, <1>4, EachOf
<1>6. ToSet(c) = {<<"remove_listener", x>> : x \in S}
  BY <1>5
<1>7. \A e, f \in ToSet(c) : MayPrecede(e, f)
  <2> HIDE DEF c
  <2> QED BY <1>6 DEF MayPrecede, Additions, Removals, Dismissals, Releases, Unloads
<1> HIDE DEF c
<1>8. Sorted(c)
  BY <1>5, <1>7, SortedIfAny
<1> QED BY <1>5, <1>6, <1>8 DEF c

LEMMA RemoveServiceLoop ==
  ASSUME NEW S \in SUBSET Services
  PROVE  LET c == [i \in DOMAIN SetToSeq(S) |-> <<"remove_service", SetToSeq(S)[i]>>]
         IN  /\ c \in Seq(Entries) /\ Sorted(c)
             /\ ToSet(c) = {<<"remove_service", x>> : x \in S}
<1> DEFINE c == [i \in DOMAIN SetToSeq(S) |-> <<"remove_service", SetToSeq(S)[i]>>]
           F == [x \in S |-> <<"remove_service", x>>]
<1>1. F \in [S -> Entries]
  BY Made
<1>2. IsFiniteSet(S)
  BY Finite
<1>3. c = [i \in DOMAIN SetToSeq(S) |-> c[i]]
  OBVIOUS
<1>4. \A i \in DOMAIN SetToSeq(S) :
        SetToSeq(S)[i] \in S => c[i] = F[SetToSeq(S)[i]]
  OBVIOUS
<1>5. c \in Seq(Entries) /\ ToSet(c) = {F[x] : x \in S}
  <2> HIDE DEF c, F
  <2> QED BY <1>1, <1>2, <1>3, <1>4, EachOf
<1>6. ToSet(c) = {<<"remove_service", x>> : x \in S}
  BY <1>5
<1>7. \A e, f \in ToSet(c) : MayPrecede(e, f)
  <2> HIDE DEF c
  <2> QED BY <1>6 DEF MayPrecede, Additions, Removals, Dismissals, Releases, Unloads
<1> HIDE DEF c
<1>8. Sorted(c)
  BY <1>5, <1>7, SortedIfAny
<1> QED BY <1>5, <1>6, <1>8 DEF c

LEMMA UnloadLoop ==
  ASSUME NEW S \in SUBSET Owners
  PROVE  LET c == [i \in DOMAIN SetToSeq(S) |-> <<"unload", SetToSeq(S)[i]>>]
         IN  /\ c \in Seq(Entries) /\ Sorted(c)
             /\ ToSet(c) = {<<"unload", x>> : x \in S}
<1> DEFINE c == [i \in DOMAIN SetToSeq(S) |-> <<"unload", SetToSeq(S)[i]>>]
           F == [x \in S |-> <<"unload", x>>]
<1>1. F \in [S -> Entries]
  BY Made
<1>2. IsFiniteSet(S)
  BY Finite
<1>3. c = [i \in DOMAIN SetToSeq(S) |-> c[i]]
  OBVIOUS
<1>4. \A i \in DOMAIN SetToSeq(S) :
        SetToSeq(S)[i] \in S => c[i] = F[SetToSeq(S)[i]]
  OBVIOUS
<1>5. c \in Seq(Entries) /\ ToSet(c) = {F[x] : x \in S}
  <2> HIDE DEF c, F
  <2> QED BY <1>1, <1>2, <1>3, <1>4, EachOf
<1>6. ToSet(c) = {<<"unload", x>> : x \in S}
  BY <1>5
<1>7. \A x, y \in S : x # y => MayPrecede(<<"unload", x>>, <<"unload", y>>)
  BY DEF MayPrecede, OwnerOf
<1>8. \A i, j \in DOMAIN c : i # j =>
        \E x, y \in S : x # y /\ c[i] = <<"unload", x>> /\ c[j] = <<"unload", y>>
  <2> DEFINE t == SetToSeq(S)
  <2>1. t = SetToSeq(S) /\ c = [i \in DOMAIN t |-> <<"unload", t[i]>>]
    OBVIOUS
  <2> HIDE DEF t, c
  <2>2. /\ \A i \in DOMAIN t : t[i] \in S
        /\ \A i, j \in DOMAIN t : t[i] = t[j] => i = j
    BY <1>2, <2>1, EachOnce
  <2>3. DOMAIN c = DOMAIN t /\ \A i \in DOMAIN t : c[i] = <<"unload", t[i]>>
    BY <2>1
  <2> QED BY <2>2, <2>3
<1> HIDE DEF c
<1>9. DOMAIN c = 1 .. Len(c)
  BY <1>5
<1>10. Sorted(c)
  <2> SUFFICES ASSUME NEW i \in 1 .. Len(c), NEW j \in 1 .. Len(c), i < j
               PROVE  MayPrecede(c[i], c[j])
    BY DEF Sorted
  <2>1. i # j /\ i \in DOMAIN c /\ j \in DOMAIN c
    BY <1>9
  <2>2. PICK x, y \in S : x # y /\ c[i] = <<"unload", x>> /\ c[j] = <<"unload", y>>
    BY <1>8, <2>1
  <2> QED BY <1>7, <2>2
<1> QED BY <1>5, <1>6, <1>10 DEF c

LEMMA WithdrawLoop ==
  ASSUME NEW S \in SUBSET Bridges, NEW s \in Services
  PROVE  LET c == [i \in DOMAIN SetToSeq(S) |-> <<"withdraw", SetToSeq(S)[i], s>>]
         IN  /\ c \in Seq(Entries) /\ Sorted(c)
             /\ ToSet(c) = {<<"withdraw", x, s>> : x \in S}
<1> DEFINE c == [i \in DOMAIN SetToSeq(S) |-> <<"withdraw", SetToSeq(S)[i], s>>]
           F == [x \in S |-> <<"withdraw", x, s>>]
<1>1. F \in [S -> Entries]
  BY Made
<1>2. IsFiniteSet(S)
  BY Finite
<1>3. c = [i \in DOMAIN SetToSeq(S) |-> c[i]]
  OBVIOUS
<1>4. \A i \in DOMAIN SetToSeq(S) :
        SetToSeq(S)[i] \in S => c[i] = F[SetToSeq(S)[i]]
  OBVIOUS
<1>5. c \in Seq(Entries) /\ ToSet(c) = {F[x] : x \in S}
  <2> HIDE DEF c, F
  <2> QED BY <1>1, <1>2, <1>3, <1>4, EachOf
<1>6. ToSet(c) = {<<"withdraw", x, s>> : x \in S}
  BY <1>5
<1>7. \A e, f \in ToSet(c) : MayPrecede(e, f)
  <2> HIDE DEF c
  <2> QED BY <1>6 DEF MayPrecede, Additions, Removals, Dismissals, Releases, Unloads
<1> HIDE DEF c
<1>8. Sorted(c)
  BY <1>5, <1>7, SortedIfAny
<1> QED BY <1>5, <1>6, <1>8 DEF c

LEMMA OfferServiceLoop ==
  ASSUME NEW S \in SUBSET Bridges, NEW s \in Services
  PROVE  LET c == [i \in DOMAIN SetToSeq(S) |-> <<"offer", SetToSeq(S)[i], s>>]
         IN  /\ c \in Seq(Entries) /\ Sorted(c)
             /\ ToSet(c) = {<<"offer", x, s>> : x \in S}
<1> DEFINE c == [i \in DOMAIN SetToSeq(S) |-> <<"offer", SetToSeq(S)[i], s>>]
           F == [x \in S |-> <<"offer", x, s>>]
<1>1. F \in [S -> Entries]
  BY Made
<1>2. IsFiniteSet(S)
  BY Finite
<1>3. c = [i \in DOMAIN SetToSeq(S) |-> c[i]]
  OBVIOUS
<1>4. \A i \in DOMAIN SetToSeq(S) :
        SetToSeq(S)[i] \in S => c[i] = F[SetToSeq(S)[i]]
  OBVIOUS
<1>5. c \in Seq(Entries) /\ ToSet(c) = {F[x] : x \in S}
  <2> HIDE DEF c, F
  <2> QED BY <1>1, <1>2, <1>3, <1>4, EachOf
<1>6. ToSet(c) = {<<"offer", x, s>> : x \in S}
  BY <1>5
<1>7. \A e, f \in ToSet(c) : MayPrecede(e, f)
  <2> HIDE DEF c
  <2> QED BY <1>6 DEF MayPrecede, Additions, Removals, Dismissals, Releases, Unloads
<1> HIDE DEF c
<1>8. Sorted(c)
  BY <1>5, <1>7, SortedIfAny
<1> QED BY <1>5, <1>6, <1>8 DEF c

LEMMA OfferLoop ==
  ASSUME NEW S \in SUBSET Services, NEW b \in Bridges
  PROVE  LET c == [i \in DOMAIN SetToSeq(S) |-> <<"offer", b, SetToSeq(S)[i]>>]
         IN  /\ c \in Seq(Entries) /\ Sorted(c)
             /\ ToSet(c) = {<<"offer", b, x>> : x \in S}
<1> DEFINE c == [i \in DOMAIN SetToSeq(S) |-> <<"offer", b, SetToSeq(S)[i]>>]
           F == [x \in S |-> <<"offer", b, x>>]
<1>1. F \in [S -> Entries]
  BY Made
<1>2. IsFiniteSet(S)
  BY Finite
<1>3. c = [i \in DOMAIN SetToSeq(S) |-> c[i]]
  OBVIOUS
<1>4. \A i \in DOMAIN SetToSeq(S) :
        SetToSeq(S)[i] \in S => c[i] = F[SetToSeq(S)[i]]
  OBVIOUS
<1>5. c \in Seq(Entries) /\ ToSet(c) = {F[x] : x \in S}
  <2> HIDE DEF c, F
  <2> QED BY <1>1, <1>2, <1>3, <1>4, EachOf
<1>6. ToSet(c) = {<<"offer", b, x>> : x \in S}
  BY <1>5
<1>7. \A e, f \in ToSet(c) : MayPrecede(e, f)
  <2> HIDE DEF c
  <2> QED BY <1>6 DEF MayPrecede, Additions, Removals, Dismissals, Releases, Unloads
<1> HIDE DEF c
<1>8. Sorted(c)
  BY <1>5, <1>7, SortedIfAny
<1> QED BY <1>5, <1>6, <1>8 DEF c

LEMMA AddDeviceLoop ==
  ASSUME NEW o \in Owners, NEW g \in Objects
  PROVE  LET c == [i \in DOMAIN SetToSeq(Kinds[o]) |-> <<"add_device", Device(o, SetToSeq(Kinds[o])[i]), g>>]
         IN  /\ c \in Seq(Entries) /\ Sorted(c)
             /\ ToSet(c) = {<<"add_device", Device(o, x), g>> : x \in Kinds[o]}
<1> DEFINE c == [i \in DOMAIN SetToSeq(Kinds[o]) |-> <<"add_device", Device(o, SetToSeq(Kinds[o])[i]), g>>]
           F == [x \in Kinds[o] |-> <<"add_device", Device(o, x), g>>]
<1>1. F \in [Kinds[o] -> Entries]
  BY Made, AddableDevices, KindsOf
<1>2. IsFiniteSet(Kinds[o])
  BY Finite
<1>3. c = [i \in DOMAIN SetToSeq(Kinds[o]) |-> c[i]]
  OBVIOUS
<1>4. \A i \in DOMAIN SetToSeq(Kinds[o]) :
        SetToSeq(Kinds[o])[i] \in Kinds[o] => c[i] = F[SetToSeq(Kinds[o])[i]]
  OBVIOUS
<1>5. c \in Seq(Entries) /\ ToSet(c) = {F[x] : x \in Kinds[o]}
  <2> HIDE DEF c, F
  <2> QED BY <1>1, <1>2, <1>3, <1>4, EachOf
<1>6. ToSet(c) = {<<"add_device", Device(o, x), g>> : x \in Kinds[o]}
  BY <1>5
<1>7. \A e, f \in ToSet(c) : MayPrecede(e, f)
  <2> HIDE DEF c
  <2> QED BY <1>6, KindsOf DEF MayPrecede, Additions, Removals, Dismissals, Releases, Unloads, Device
<1> HIDE DEF c
<1>8. Sorted(c)
  BY <1>5, <1>7, SortedIfAny
<1> QED BY <1>5, <1>6, <1>8 DEF c

LEMMA RemoveDeviceLoop ==
  ASSUME NEW o \in Owners, NEW g \in Objects
  PROVE  LET c == [i \in DOMAIN SetToSeq(Kinds[o]) |-> <<"remove_device", Device(o, SetToSeq(Kinds[o])[i]), g>>]
         IN  /\ c \in Seq(Entries) /\ Sorted(c)
             /\ ToSet(c) = {<<"remove_device", Device(o, x), g>> : x \in Kinds[o]}
<1> DEFINE c == [i \in DOMAIN SetToSeq(Kinds[o]) |-> <<"remove_device", Device(o, SetToSeq(Kinds[o])[i]), g>>]
           F == [x \in Kinds[o] |-> <<"remove_device", Device(o, x), g>>]
<1>1. F \in [Kinds[o] -> Entries]
  BY Made, AddableDevices, KindsOf
<1>2. IsFiniteSet(Kinds[o])
  BY Finite
<1>3. c = [i \in DOMAIN SetToSeq(Kinds[o]) |-> c[i]]
  OBVIOUS
<1>4. \A i \in DOMAIN SetToSeq(Kinds[o]) :
        SetToSeq(Kinds[o])[i] \in Kinds[o] => c[i] = F[SetToSeq(Kinds[o])[i]]
  OBVIOUS
<1>5. c \in Seq(Entries) /\ ToSet(c) = {F[x] : x \in Kinds[o]}
  <2> HIDE DEF c, F
  <2> QED BY <1>1, <1>2, <1>3, <1>4, EachOf
<1>6. ToSet(c) = {<<"remove_device", Device(o, x), g>> : x \in Kinds[o]}
  BY <1>5
<1>7. \A e, f \in ToSet(c) : MayPrecede(e, f)
  <2> HIDE DEF c
  <2> QED BY <1>6, KindsOf DEF MayPrecede, Additions, Removals, Dismissals, Releases, Unloads, Device
<1> HIDE DEF c
<1>8. Sorted(c)
  BY <1>5, <1>7, SortedIfAny
<1> QED BY <1>5, <1>6, <1>8 DEF c

LEMMA AddListenerLoop ==
  ASSUME NEW S \in SUBSET Devices, NEW l \in Hearers, NEW m \in [Devices -> Nat], \A x \in S : m[x] # 0
  PROVE  LET c == [i \in DOMAIN SetToSeq(S) |-> <<"notify_add", l, SetToSeq(S)[i], m[SetToSeq(S)[i]]>>]
         IN  /\ c \in Seq(Entries) /\ Sorted(c)
             /\ ToSet(c) = {<<"notify_add", l, x, m[x]>> : x \in S}
<1> DEFINE c == [i \in DOMAIN SetToSeq(S) |-> <<"notify_add", l, SetToSeq(S)[i], m[SetToSeq(S)[i]]>>]
           F == [x \in S |-> <<"notify_add", l, x, m[x]>>]
<1>1. F \in [S -> Entries]
  BY Made DEF Objects
<1>2. IsFiniteSet(S)
  BY Finite
<1>3. c = [i \in DOMAIN SetToSeq(S) |-> c[i]]
  OBVIOUS
<1>4. \A i \in DOMAIN SetToSeq(S) :
        SetToSeq(S)[i] \in S => c[i] = F[SetToSeq(S)[i]]
  OBVIOUS
<1>5. c \in Seq(Entries) /\ ToSet(c) = {F[x] : x \in S}
  <2> HIDE DEF c, F
  <2> QED BY <1>1, <1>2, <1>3, <1>4, EachOf
<1>6. ToSet(c) = {<<"notify_add", l, x, m[x]>> : x \in S}
  BY <1>5
<1>7. \A e, f \in ToSet(c) : MayPrecede(e, f)
  <2> HIDE DEF c
  <2> QED BY <1>6 DEF MayPrecede, Additions, Removals, Dismissals, Releases, Unloads
<1> HIDE DEF c
<1>8. Sorted(c)
  BY <1>5, <1>7, SortedIfAny
<1> QED BY <1>5, <1>6, <1>8 DEF c

LEMMA DropListenerLoop ==
  ASSUME NEW S \in SUBSET Devices, NEW l \in Hearers, NEW m \in [Devices -> Nat], \A x \in S : m[x] # 0
  PROVE  LET c == [i \in DOMAIN SetToSeq(S) |-> <<"notify_remove", l, SetToSeq(S)[i], m[SetToSeq(S)[i]]>>]
         IN  /\ c \in Seq(Entries) /\ Sorted(c)
             /\ ToSet(c) = {<<"notify_remove", l, x, m[x]>> : x \in S}
<1> DEFINE c == [i \in DOMAIN SetToSeq(S) |-> <<"notify_remove", l, SetToSeq(S)[i], m[SetToSeq(S)[i]]>>]
           F == [x \in S |-> <<"notify_remove", l, x, m[x]>>]
<1>1. F \in [S -> Entries]
  BY Made DEF Objects
<1>2. IsFiniteSet(S)
  BY Finite
<1>3. c = [i \in DOMAIN SetToSeq(S) |-> c[i]]
  OBVIOUS
<1>4. \A i \in DOMAIN SetToSeq(S) :
        SetToSeq(S)[i] \in S => c[i] = F[SetToSeq(S)[i]]
  OBVIOUS
<1>5. c \in Seq(Entries) /\ ToSet(c) = {F[x] : x \in S}
  <2> HIDE DEF c, F
  <2> QED BY <1>1, <1>2, <1>3, <1>4, EachOf
<1>6. ToSet(c) = {<<"notify_remove", l, x, m[x]>> : x \in S}
  BY <1>5
<1>7. \A e, f \in ToSet(c) : MayPrecede(e, f)
  <2> HIDE DEF c
  <2> QED BY <1>6 DEF MayPrecede, Additions, Removals, Dismissals, Releases, Unloads
<1> HIDE DEF c
<1>8. Sorted(c)
  BY <1>5, <1>7, SortedIfAny
<1> QED BY <1>5, <1>6, <1>8 DEF c

-----------------------------------------------------------------------------
(* What the steps do to todo: the head makes way for C. *)

Does(C) ==
  /\ todo # <<>> /\ Head(todo) \in Entries
  /\ Pending = {Head(todo)} \cup Rest
  /\ \A f \in Rest : f \in Entries /\ MayPrecede(Head(todo), f)
  /\ todo' \in Seq(Entries) /\ Sorted(todo)'
  /\ Pending' = C \cup Rest /\ KeepsBefore(C)

(* The trigger a process data has generated, and everybody who listens. *)
TriggerToo(op, d, g) == IF Generates(d) THEN {<<op, Device(d[1], "trigger"), g>>} ELSE {}
ToldTo(op, d, g) == {<<op, l, d, g>> : l \in dl_map}

LEMMA HeadOf ==
  ASSUME TypeOK, todo # <<>>
  PROVE  Head(todo) \in Entries
  BY HeadTailProperties DEF TypeOK

(* A step that puts nothing on todo. *)
LEMMA DropStep ==
  ASSUME TypeOK, Sorted(todo), todo # <<>>, Do(<<>>)
  PROVE  Does({})
<1>1. <<>> \in Seq(Entries) /\ ToSet(<<>>) = {} /\ Sorted(<<>>)
  BY Nothing
<1>2. \A e \in ToSet(<<>>), f \in Rest : MayPrecede(Head(todo), f) => MayPrecede(e, f)
  BY <1>1
<1> QED BY <1>1, <1>2, DoStep DEF Does

LEMMA AddDeviceDoes ==
  ASSUME TypeOK, Sorted(todo), AddDevice, NEW d, NEW g, d = Head(todo)[2], g = Head(todo)[3]
  PROVE  /\ TypeOK' /\ Head(todo) = <<"add_device", d, g>> /\ d \in Devices /\ g \in Objects
         /\ d \in Addable /\ CanBeMade(d) /\ Does(IF device_map[d] # 0 THEN {}
                 ELSE TriggerToo("add_device", d, g) \cup ToldTo("notify_add", d, g))
<1> DEFINE h == Head(todo)
<1>1. todo # <<>> /\ h \in Entries /\ h[1] = "add_device"
  BY HeadOf DEF AddDevice, Doing, Idle
<1>2. /\ h = <<"add_device", d, g>> /\ d \in Addable /\ d \in Devices /\ g \in Objects
      /\ CanBeMade(d)
  BY <1>1, Shape DEF AddDevice
<1>3. CASE device_map[d] # 0
  <2>1. Do(<<>>) /\ UNCHANGED device_map
    BY <1>3 DEF AddDevice
  <2>2. Does({})
    BY <1>1, <2>1, DropStep
  <2>3. TypeOK'
    BY <2>1, <2>2 DEF TypeOK, AddDevice, modulevars, servicevars, Does
  <2> QED BY <1>2, <1>3, <2>2, <2>3
<1>4. CASE device_map[d] = 0
  <2> DEFINE a == IF Generates(d) THEN << <<"add_device", Clock(d[1]), g>> >> ELSE <<>>
             b == [i \in DOMAIN SetToSeq(dl_map) |-> <<"notify_add", SetToSeq(dl_map)[i], d, g>>]
  <2>1. Do(a \o b) /\ device_map' = [device_map EXCEPT ![d] = g]
    BY <1>4 DEF AddDevice, Each
  <2>2. b \in Seq(Entries) /\ Sorted(b) /\ ToSet(b) = ToldTo("notify_add", d, g)
    BY <1>2, NotifyAddLoop DEF TypeOK, ToldTo
  <2>3. a \in Seq(Entries) /\ Sorted(a) /\ ToSet(a) = TriggerToo("add_device", d, g)
    BY <1>2, Single, Nothing, Made, AddableDevices DEF TriggerToo
  <2> HIDE DEF a, b
  <2>4. \A e \in ToSet(a), f \in ToSet(b) : MayPrecede(e, f)
    BY <2>2, <2>3 DEF MayPrecede, TriggerToo, ToldTo, Additions, Generates, Device
  <2>5. /\ a \o b \in Seq(Entries) /\ Sorted(a \o b)
        /\ ToSet(a \o b) = TriggerToo("add_device", d, g) \cup ToldTo("notify_add", d, g)
    BY <2>2, <2>3, <2>4, Join
  <2>6. \A e \in ToSet(a \o b), f \in Rest : MayPrecede(h, f) => MayPrecede(e, f)
    BY <1>2, <2>5, Named DEF MayPrecede, TriggerToo, ToldTo, Additions, Removals, Dismissals, Releases,
                      Unloads, OwnerOf, ServiceOf, Device
  <2>7. Does(TriggerToo("add_device", d, g) \cup ToldTo("notify_add", d, g))
    BY <1>1, <2>1, <2>5, <2>6, DoStep DEF Does
  <2>8. TypeOK'
    BY <1>2, <2>1, <2>7 DEF TypeOK, AddDevice, modulevars, servicevars, Does, Objects
  <2> QED BY <1>2, <1>4, <2>7, <2>8
<1>5. device_map[d] \in Nat
  BY <1>2 DEF TypeOK
<1> QED BY <1>3, <1>4

LEMMA RemoveDeviceDoes ==
  ASSUME TypeOK, Sorted(todo), RemoveDevice,
         NEW d, NEW g, d = Head(todo)[2], g = Head(todo)[3]
  PROVE  /\ TypeOK' /\ Head(todo) = <<"remove_device", d, g>> /\ d \in Devices /\ g \in Objects
         /\ d \in Addable
         /\ Does(TriggerToo("remove_device", d, g) \cup ToldTo("notify_remove", d, g)
                 \cup {<<"erase", d>>})
<1> DEFINE h == Head(todo)
           a == IF Generates(d) THEN << <<"remove_device", Clock(d[1]), g>> >> ELSE <<>>
           b == [i \in DOMAIN SetToSeq(dl_map) |-> <<"notify_remove", SetToSeq(dl_map)[i], d, g>>]
           c == << <<"erase", d>> >>
<1>1. todo # <<>> /\ h \in Entries /\ h[1] = "remove_device"
  BY HeadOf DEF RemoveDevice, Doing, Idle
<1>2. h = <<"remove_device", d, g>> /\ d \in Addable /\ d \in Devices /\ g \in Objects
  BY <1>1, Shape
<1>3. Do((a \o b) \o c) \/ Do(a \o b \o c)
  BY DEF RemoveDevice, Each
<1>4. b \in Seq(Entries) /\ Sorted(b) /\ ToSet(b) = ToldTo("notify_remove", d, g)
  BY <1>2, NotifyRemoveLoop DEF TypeOK, ToldTo
<1>5. a \in Seq(Entries) /\ Sorted(a) /\ ToSet(a) = TriggerToo("remove_device", d, g)
  BY <1>2, Single, Nothing, Made, AddableDevices DEF TriggerToo
<1>6. c \in Seq(Entries) /\ Sorted(c) /\ ToSet(c) = {<<"erase", d>>}
  BY <1>2, Single, Made
<1>7. /\ \A e \in ToSet(a), f \in ToSet(b) : MayPrecede(e, f)
      /\ \A e \in ToSet(a) \cup ToSet(b), f \in ToSet(c) : MayPrecede(e, f)
  <2> HIDE DEF a, b, c
  <2>1. \A e \in ToSet(a), f \in ToSet(b) : MayPrecede(e, f)
    BY <1>4, <1>5 DEF TriggerToo, Generates, ToldTo, Device, MayPrecede, Additions, Removals, Dismissals, Releases,
        Unloads, OwnerOf, ServiceOf
  <2>2. \A e \in ToSet(a), f \in ToSet(c) : MayPrecede(e, f)
    BY <1>6, <1>5 DEF TriggerToo, Generates, Device, MayPrecede, Additions, Removals, Dismissals, Releases,
        Unloads, OwnerOf, ServiceOf
  <2>3. \A e \in ToSet(b), f \in ToSet(c) : MayPrecede(e, f)
    BY <1>4, <1>6 DEF ToldTo, MayPrecede, Additions, Removals, Dismissals, Releases,
        Unloads, OwnerOf, ServiceOf
  <2> QED BY <2>1, <2>2, <2>3
<1> HIDE DEF a, b, c
<1> DEFINE all == (a \o b) \o c
           C == TriggerToo("remove_device", d, g) \cup ToldTo("notify_remove", d, g)
                \cup {<<"erase", d>>}
<1>8. /\ a \o b \in Seq(Entries) /\ Sorted(a \o b)
      /\ ToSet(a \o b) = ToSet(a) \cup ToSet(b)
  BY <1>4, <1>5, <1>7, Join
<1>9. /\ all \in Seq(Entries) /\ Sorted(all)
      /\ ToSet(all) = (ToSet(a) \cup ToSet(b)) \cup ToSet(c)
  <2>1. \A e \in ToSet(a \o b), f \in ToSet(c) : MayPrecede(e, f)
    BY <1>7, <1>8
  <2> QED BY <1>6, <1>8, <2>1, Join
<1>10. ToSet(all) = C
  BY <1>4, <1>5, <1>6, <1>9
<1>11. Do(all)
  BY <1>3, <1>4, <1>5, <1>6, ConcatAssociative
<1> HIDE DEF all
<1>12. \A e \in C, f \in Rest : MayPrecede(h, f) => MayPrecede(e, f)
  <2> SUFFICES ASSUME NEW f \in Rest, MayPrecede(h, f)
               PROVE  \A e \in C : MayPrecede(e, f)
    OBVIOUS
  <2>1. \A e \in TriggerToo("remove_device", d, g) : MayPrecede(e, f)
    BY <1>2, Named DEF TriggerToo, Device, MayPrecede, Additions, Removals, Dismissals, Releases,
        Unloads, OwnerOf, ServiceOf
  <2>2. \A e \in ToldTo("notify_remove", d, g) : MayPrecede(e, f)
    BY <1>2, Named DEF ToldTo, MayPrecede, Additions, Removals, Dismissals, Releases,
        Unloads, OwnerOf, ServiceOf
  <2>3. MayPrecede(<<"erase", d>>, f)
    BY <1>2, Named DEF MayPrecede, Additions, Removals, Dismissals, Releases,
        Unloads, OwnerOf, ServiceOf
  <2> QED BY <2>1, <2>2, <2>3
<1>13. Does(C)
  <2> HIDE DEF C
  <2> QED BY <1>1, <1>9, <1>10, <1>11, <1>12, DoStep DEF Does
<1>14. TypeOK'
  <2> HIDE DEF C
  <2> QED BY <1>13 DEF TypeOK, RemoveDevice, modulevars, servicevars, devicevars, Does
<1> QED BY <1>2, <1>13, <1>14

LEMMA EraseDeviceDoes ==
  ASSUME TypeOK, Sorted(todo), EraseDevice, NEW d, d = Head(todo)[2]
  PROVE  /\ TypeOK' /\ Head(todo) = <<"erase", d>> /\ d \in Devices /\ d \in Addable
         /\ Does({})
<1>1. todo # <<>> /\ Head(todo) \in Entries /\ Head(todo)[1] = "erase"
  BY HeadOf DEF EraseDevice, Doing, Idle
<1>2. Head(todo) = <<"erase", d>> /\ d \in Devices /\ d \in Addable
  BY <1>1, Shape
<1>3. Does({})
  BY <1>1, DropStep DEF EraseDevice
<1>4. TypeOK'
  BY <1>2, <1>3 DEF TypeOK, EraseDevice, modulevars, servicevars, Does
<1> QED BY <1>2, <1>3, <1>4

LEMMA RemoveDevicesDoes ==
  ASSUME TypeOK, Sorted(todo), RemoveDevices, NEW o, o = Head(todo)[2]
  PROVE  /\ TypeOK' /\ Head(todo) = <<"remove_devices", o>> /\ o \in Owners
         /\ Does({})
<1>1. todo # <<>> /\ Head(todo) \in Entries /\ Head(todo)[1] = "remove_devices"
  BY HeadOf DEF RemoveDevices, Doing, Idle
<1>2. Head(todo) = <<"remove_devices", o>> /\ o \in Owners
  BY <1>1, Shape
<1>3. Does({})
  BY <1>1, DropStep DEF RemoveDevices
<1>4. TypeOK'
  BY <1>2, <1>3 DEF TypeOK, RemoveDevices, modulevars, servicevars, Does
<1> QED BY <1>2, <1>3, <1>4

LEMMA NotifyDoes ==
  ASSUME TypeOK, Sorted(todo), Notify,
         NEW l, NEW d, NEW g, l = Head(todo)[2], d = Head(todo)[3], g = Head(todo)[4]
  PROVE  /\ TypeOK' /\ l \in Listeners /\ d \in Devices /\ g \in Objects
         /\ \/ Head(todo) = <<"notify_add", l, d, g>>
            \/ Head(todo) = <<"notify_remove", l, d, g>>
         /\ Does({})
<1>1. todo # <<>> /\ Head(todo) \in Entries /\ Head(todo)[1] \in {"notify_add", "notify_remove"}
  BY HeadOf DEF Notify, Doing, Idle
<1>2. /\ d \in Devices /\ g \in Objects /\ l \in Listeners
      /\ \/ Head(todo) = <<"notify_add", l, d, g>>
         \/ Head(todo) = <<"notify_remove", l, d, g>>
  BY <1>1, Shape DEF Notify
<1>3. Does({})
  BY <1>1, DropStep DEF Notify
<1>4. told' \in [Listeners -> SUBSET (Devices \X Objects)]
  BY <1>2 DEF TypeOK, Notify
<1>5. TypeOK'
  BY <1>3, <1>4 DEF TypeOK, Notify, modulevars, servicevars, Does
<1> QED BY <1>2, <1>3, <1>5

(* What a service provider does about an interface. *)
Handled(p, o, g) ==
  IF handlers[p][o] # 0 THEN {}
  ELSE {<<"add_service", <<o, p>>, g>>, <<"new_handler", p, o, g>>, <<"catch">>}

LEMMA NotifyProviderDoes ==
  ASSUME TypeOK, Sorted(todo), NotifyProvider,
         NEW p, NEW d, NEW g, p = Head(todo)[2], d = Head(todo)[3], g = Head(todo)[4]
  PROVE  /\ TypeOK' /\ p \in Providers /\ d \in Devices /\ g \in Objects
         /\ \/ /\ Head(todo) = <<"notify_add", p, d, g>>
               /\ Does(IF d[2] # "interface" THEN {} ELSE Handled(p, d[1], g))
            \/ /\ Head(todo) = <<"notify_remove", p, d, g>>
               /\ Does(IF d[2] # "interface" THEN {} ELSE {<<"delete_handler", p, d[1]>>})
<1> DEFINE h == Head(todo)
           o == d[1]
<1>1. todo # <<>> /\ h \in Entries /\ h[1] \in {"notify_add", "notify_remove"}
  BY HeadOf DEF NotifyProvider, Doing, Idle
<1>2. /\ d \in Devices /\ g \in Objects /\ p \in Providers /\ o \in Owners
      /\ h = <<"notify_add", p, d, g>> \/ h = <<"notify_remove", p, d, g>>
  BY <1>1, Shape, Named DEF NotifyProvider
<1>3. ASSUME NEW C, Does(C) PROVE TypeOK'
  BY <1>3 DEF TypeOK, NotifyProvider, modulevars, servicevars, devicevars, Does
<1>4. CASE d[2] # "interface"
  <2>1. Does({})
    BY <1>1, <1>4, DropStep DEF NotifyProvider, test_interface
  <2> QED BY <1>2, <1>3, <1>4, <2>1
<1>5. CASE d[2] = "interface" /\ h[1] = "notify_remove"
  <2> DEFINE c == << <<"delete_handler", p, o>> >>
  <2>1. Do(c)
    BY <1>1, <1>5 DEF NotifyProvider, test_interface, remove_interface, Doing
  <2>2. c \in Seq(Entries) /\ Sorted(c) /\ ToSet(c) = {<<"delete_handler", p, o>>}
    BY <1>2, Single, Made
  <2> HIDE DEF c
  <2>3. \A e \in ToSet(c), f \in Rest : MayPrecede(h, f) => MayPrecede(e, f)
    BY <1>2, <1>5, <2>2 DEF MayPrecede, Additions, Removals, Dismissals, Releases,
        Unloads, OwnerOf, ServiceOf
  <2>4. Does({<<"delete_handler", p, o>>})
    BY <1>1, <2>1, <2>2, <2>3, DoStep DEF Does
  <2> QED BY <1>2, <1>3, <1>5, <2>4
<1>6. CASE d[2] = "interface" /\ h[1] = "notify_add" /\ handlers[p][o] # 0
  <2>1. Does({})
    BY <1>1, <1>6, DropStep DEF NotifyProvider, test_interface, add_interface, Doing
  <2> QED BY <1>2, <1>3, <1>6, <2>1 DEF Handled
<1>7. CASE d[2] = "interface" /\ h[1] = "notify_add" /\ handlers[p][o] = 0
  <2> DEFINE x == <<"add_service", <<o, p>>, g>>
             y == <<"new_handler", p, o, g>>
             z == <<"catch">>
             all == <<x, y, z>>
  <2>1. Do(all)
    BY <1>1, <1>7 DEF NotifyProvider, test_interface, add_interface, Doing
  <2>2. x \in Entries /\ y \in Entries /\ z \in Entries
    BY <1>2, Made, Named
  <2>3. MayPrecede(x, y) /\ MayPrecede(x, z) /\ MayPrecede(y, z)
    BY DEF MayPrecede, Additions, OwnerOf, ServiceOf
  <2>4. all \in Seq(Entries) /\ Sorted(all) /\ ToSet(all) = {x, y, z}
    <3> HIDE DEF x, y, z
    <3> QED BY <2>2, <2>3, Triple
  <2>5. ToSet(all) = Handled(p, o, g)
    BY <1>7, <2>4 DEF Handled
  <2> HIDE DEF all
  <2>6. \A e \in ToSet(all), f \in Rest : MayPrecede(h, f) => MayPrecede(e, f)
    BY <1>2, <1>7, <2>5 DEF Handled, MayPrecede, Additions, Removals, Dismissals, Releases,
        Unloads, OwnerOf, ServiceOf
  <2>7. Does(Handled(p, o, g))
    BY <1>1, <2>1, <2>4, <2>5, <2>6, DoStep DEF Does
  <2> QED BY <1>2, <1>3, <1>7, <2>7
<1> QED BY <1>1, <1>4, <1>5, <1>6, <1>7

LEMMA NewHandlerDoes ==
  ASSUME TypeOK, Sorted(todo), NewHandler,
         NEW p, NEW o, NEW g, p = Head(todo)[2], o = Head(todo)[3], g = Head(todo)[4]
  PROVE  /\ TypeOK' /\ Head(todo) = <<"new_handler", p, o, g>>
         /\ p \in Providers /\ o \in Owners /\ g \in Objects
         /\ Does({})
<1>1. todo # <<>> /\ Head(todo) \in Entries /\ Head(todo)[1] = "new_handler"
  BY HeadOf DEF NewHandler, Doing, Idle
<1>2. Head(todo) = <<"new_handler", p, o, g>> /\ p \in Providers /\ o \in Owners /\ g \in Objects
  BY <1>1, Shape
<1>3. Does({})
  BY <1>1, DropStep DEF NewHandler
<1>4. handlers' \in [Providers -> [Owners -> Nat]]
  BY <1>2 DEF TypeOK, NewHandler, Objects
<1>5. TypeOK'
  BY <1>3, <1>4 DEF TypeOK, NewHandler, modulevars, servicevars, Does
<1> QED BY <1>2, <1>3, <1>5

LEMMA DeleteHandlerDoes ==
  ASSUME TypeOK, Sorted(todo), DeleteHandler, NEW p, NEW o, p = Head(todo)[2], o = Head(todo)[3]
  PROVE  /\ TypeOK' /\ Head(todo) = <<"delete_handler", p, o>> /\ p \in Providers /\ o \in Owners
         /\ Does(IF handlers[p][o] = 0 THEN {} ELSE {<<"remove_service", <<o, p>> >>})
<1> DEFINE h == Head(todo)
           c == << <<"remove_service", <<o, p>> >> >>
<1>1. todo # <<>> /\ h \in Entries /\ h[1] = "delete_handler"
  BY HeadOf DEF DeleteHandler, Doing, Idle
<1>2. h = <<"delete_handler", p, o>> /\ p \in Providers /\ o \in Owners
  BY <1>1, Shape
<1>3. ASSUME NEW C, Does(C) PROVE TypeOK'
  <2>1. handlers' \in [Providers -> [Owners -> Nat]]
    BY <1>2 DEF TypeOK, DeleteHandler
  <2> QED BY <1>3, <2>1 DEF TypeOK, DeleteHandler, modulevars, servicevars, Does
<1>4. CASE handlers[p][o] = 0
  <2>1. Does({})
    BY <1>1, <1>4, DropStep DEF DeleteHandler
  <2> QED BY <1>2, <1>3, <1>4, <2>1
<1>5. CASE handlers[p][o] # 0
  <2>1. Do(c)
    BY <1>5 DEF DeleteHandler
  <2>2. c \in Seq(Entries) /\ Sorted(c) /\ ToSet(c) = {<<"remove_service", <<o, p>> >>}
    BY <1>2, Single, Made, Named
  <2> HIDE DEF c
  <2>3. \A e \in ToSet(c), f \in Rest : MayPrecede(h, f) => MayPrecede(e, f)
    BY <1>2, <2>2 DEF MayPrecede, Additions, Removals, Dismissals, Releases,
        Unloads, OwnerOf, ServiceOf
  <2>4. Does({<<"remove_service", <<o, p>> >>})
    BY <1>1, <2>1, <2>2, <2>3, DoStep DEF Does
  <2> QED BY <1>2, <1>3, <1>5, <2>4
<1> QED BY <1>4, <1>5

LEMMA EndOfTryDoes ==
  ASSUME TypeOK, Sorted(todo), EndOfTry
  PROVE  TypeOK' /\ Head(todo) = <<"catch">> /\ Does({})
<1>1. todo # <<>> /\ Head(todo) \in Entries /\ Head(todo)[1] = "catch"
  BY HeadOf DEF EndOfTry, Doing, Idle
<1>2. Head(todo) = <<"catch">>
  BY <1>1, Shape
<1>3. Does({})
  BY <1>1, DropStep DEF EndOfTry
<1>4. TypeOK'
  BY <1>3 DEF TypeOK, EndOfTry, modulevars, servicevars, devicevars, Does
<1> QED BY <1>2, <1>3, <1>4

LEMMA RemoveListenerDoes ==
  ASSUME TypeOK, Sorted(todo), RemoveListener, NEW l, l = Head(todo)[2]
  PROVE  /\ TypeOK' /\ Head(todo) = <<"remove_listener", l>> /\ l \in Hearers
         /\ Does({<<"notify_remove", l, d, device_map[d]>> : d \in Registered}
                 \cup {<<"erase_listener", l>>})
<1> DEFINE h == Head(todo)
           a == [i \in DOMAIN SetToSeq(Registered) |->
                   <<"notify_remove", l, SetToSeq(Registered)[i], device_map[SetToSeq(Registered)[i]]>>]
           b == << <<"erase_listener", l>> >>
           A == {<<"notify_remove", l, d, device_map[d]>> : d \in Registered}
<1>1. todo # <<>> /\ h \in Entries /\ h[1] = "remove_listener"
  BY HeadOf DEF RemoveListener, Doing, Idle
<1>2. h = <<"remove_listener", l>> /\ l \in Hearers
  BY <1>1, Shape
<1>3. Do(a \o b)
  BY DEF RemoveListener, Each
<1>4. a \in Seq(Entries) /\ Sorted(a) /\ ToSet(a) = A
  <2>1. Registered \in SUBSET Devices /\ device_map \in [Devices -> Nat]
        /\ \A d \in Registered : device_map[d] # 0
    BY DEF Registered, TypeOK
  <2> HIDE DEF A
  <2>2. A = {<<"notify_remove", l, x, device_map[x]>> : x \in Registered}
    BY DEF A
  <2> QED BY <1>2, <2>1, <2>2, DropListenerLoop
<1>5. b \in Seq(Entries) /\ Sorted(b) /\ ToSet(b) = {<<"erase_listener", l>>}
  BY <1>2, Single, Made
<1> HIDE DEF a, b
<1>6. \A e \in ToSet(a), f \in ToSet(b) : MayPrecede(e, f)
  BY <1>4, <1>5 DEF MayPrecede, Additions, Removals, Dismissals, Releases,
        Unloads, OwnerOf, ServiceOf
<1>7. /\ a \o b \in Seq(Entries) /\ Sorted(a \o b)
      /\ ToSet(a \o b) = A \cup {<<"erase_listener", l>>}
  BY <1>4, <1>5, <1>6, Join
<1>8. \A e \in ToSet(a \o b), f \in Rest : MayPrecede(h, f) => MayPrecede(e, f)
  BY <1>2, <1>7 DEF MayPrecede, Additions, Removals, Dismissals, Releases,
        Unloads, OwnerOf, ServiceOf
<1>9. Does(A \cup {<<"erase_listener", l>>})
  BY <1>1, <1>3, <1>7, <1>8, DoStep DEF Does
<1>10. TypeOK'
  <2> HIDE DEF A
  <2> QED BY <1>9 DEF TypeOK, RemoveListener, modulevars, servicevars, devicevars, Does
<1> QED BY <1>2, <1>9, <1>10

LEMMA EraseListenerDoes ==
  ASSUME TypeOK, Sorted(todo), EraseListener, NEW l, l = Head(todo)[2]
  PROVE  /\ TypeOK' /\ Head(todo) = <<"erase_listener", l>> /\ l \in Hearers
         /\ Does({})
<1>1. todo # <<>> /\ Head(todo) \in Entries /\ Head(todo)[1] = "erase_listener"
  BY HeadOf DEF EraseListener, Doing, Idle
<1>2. Head(todo) = <<"erase_listener", l>> /\ l \in Hearers
  BY <1>1, Shape
<1>3. Does({})
  BY <1>1, DropStep DEF EraseListener
<1>4. told' \in [Listeners -> SUBSET (Devices \X Objects)]
  BY DEF TypeOK, EraseListener
<1>5. TypeOK'
  BY <1>3, <1>4 DEF TypeOK, EraseListener, modulevars, servicevars, Does
<1> QED BY <1>2, <1>3, <1>5

LEMMA OfferDoes ==
  ASSUME TypeOK, Sorted(todo), Offer, NEW b, NEW s, b = Head(todo)[2], s = Head(todo)[3]
  PROVE  /\ TypeOK' /\ Head(todo) = <<"offer", b, s>> /\ b \in Bridges /\ s \in Services
         /\ Does({})
<1>1. todo # <<>> /\ Head(todo) \in Entries /\ Head(todo)[1] = "offer"
  BY HeadOf DEF Offer, Doing, Idle
<1>2. Head(todo) = <<"offer", b, s>> /\ b \in Bridges /\ s \in Services
  BY <1>1, Shape
<1>3. Does({})
  BY <1>1, DropStep DEF Offer
<1>4. offered' \in [Bridges -> SUBSET Services]
  BY <1>2 DEF TypeOK, Offer
<1>5. TypeOK'
  BY <1>2, <1>3, <1>4 DEF TypeOK, Offer, modulevars, servicevars, devicevars, Does
<1> QED BY <1>2, <1>3, <1>5

LEMMA WithdrawDoes ==
  ASSUME TypeOK, Sorted(todo), Withdraw, NEW b, NEW s, b = Head(todo)[2], s = Head(todo)[3]
  PROVE  /\ TypeOK' /\ Head(todo) = <<"withdraw", b, s>> /\ b \in Bridges /\ s \in Services
         /\ Does({})
<1>1. todo # <<>> /\ Head(todo) \in Entries /\ Head(todo)[1] = "withdraw"
  BY HeadOf DEF Withdraw, Doing, Idle
<1>2. Head(todo) = <<"withdraw", b, s>> /\ b \in Bridges /\ s \in Services
  BY <1>1, Shape
<1>3. Does({})
  BY <1>1, DropStep DEF Withdraw
<1>4. offered' \in [Bridges -> SUBSET Services]
  BY <1>2 DEF TypeOK, Withdraw
<1>5. TypeOK'
  BY <1>2, <1>3, <1>4 DEF TypeOK, Withdraw, modulevars, servicevars, devicevars, Does
<1> QED BY <1>2, <1>3, <1>5

LEMMA DeleteDoes ==
  ASSUME TypeOK, Sorted(todo), Delete, NEW s, s = Head(todo)[2]
  PROVE  /\ TypeOK' /\ Head(todo) = <<"delete", s>> /\ s \in Services
         /\ Does({})
<1>1. todo # <<>> /\ Head(todo) \in Entries /\ Head(todo)[1] = "delete"
  BY HeadOf DEF Delete, Doing, Idle
<1>2. Head(todo) = <<"delete", s>> /\ s \in Services
  BY <1>1, Shape
<1>3. Does({})
  BY <1>1, DropStep DEF Delete
<1>4. services' \in [Services -> Nat]
  BY <1>2 DEF TypeOK, Delete
<1>5. TypeOK'
  BY <1>2, <1>3, <1>4 DEF TypeOK, Delete, modulevars, servicevars, devicevars, Does
<1> QED BY <1>2, <1>3, <1>5

LEMMA RemoveBridgesDoes ==
  ASSUME TypeOK, Sorted(todo), RemoveBridges
  PROVE  /\ TypeOK' /\ Head(todo) = <<"remove_bridges">>
         /\ Does({})
<1>1. todo # <<>> /\ Head(todo) \in Entries /\ Head(todo)[1] = "remove_bridges"
  BY HeadOf DEF RemoveBridges, Doing, Idle
<1>2. Head(todo) = <<"remove_bridges">>
  BY <1>1, Shape
<1>3. Does({})
  BY <1>1, DropStep DEF RemoveBridges
<1>4. TypeOK'
  BY <1>2, <1>3 DEF TypeOK, RemoveBridges, modulevars, servicevars, devicevars, Does
<1> QED BY <1>2, <1>3, <1>4

LEMMA ConfiguredDoes ==
  ASSUME TypeOK, Sorted(todo), Configured, NEW o, o = Head(todo)[2]
  PROVE  /\ TypeOK' /\ Head(todo) = <<"configure", o>> /\ o \in Owners
         /\ Does({})
<1>1. todo # <<>> /\ Head(todo) \in Entries /\ Head(todo)[1] = "configure"
  BY HeadOf DEF Configured, Doing, Idle
<1>2. Head(todo) = <<"configure", o>> /\ o \in Owners
  BY <1>1, Shape
<1>3. Does({})
  BY <1>1, DropStep DEF Configured
<1>4. TypeOK'
  BY <1>2, <1>3 DEF TypeOK, Configured, modulevars, servicevars, devicevars, Does
<1> QED BY <1>2, <1>3, <1>4

LEMMA LoadedDoes ==
  ASSUME TypeOK, Sorted(todo), Loaded, NEW o, NEW g, o = Head(todo)[2], g = Head(todo)[3]
  PROVE  /\ TypeOK' /\ Head(todo) = <<"loaded", o, g>> /\ o \in Owners /\ g \in Objects
         /\ Does({})
<1>1. todo # <<>> /\ Head(todo) \in Entries /\ Head(todo)[1] = "loaded"
  BY HeadOf DEF Loaded, Doing, Idle
<1>2. Head(todo) = <<"loaded", o, g>> /\ o \in Owners /\ g \in Objects
  BY <1>1, Shape
<1>3. Does({})
  BY <1>1, DropStep DEF Loaded
<1>4. object' \in [Owners -> Nat] /\ mod_handle' \in [Owners -> Nat]
  BY <1>2 DEF TypeOK, Loaded, Objects
<1>5. TypeOK'
  BY <1>2, <1>3, <1>4 DEF TypeOK, Loaded, modulevars, servicevars, devicevars, Does
<1> QED BY <1>2, <1>3, <1>5

LEMMA ReconfiguredDoes ==
  ASSUME TypeOK, Sorted(todo), Reconfigured, NEW o, NEW g, o = Head(todo)[2], g = Head(todo)[3]
  PROVE  /\ TypeOK' /\ Head(todo) = <<"reconfigured", o, g>> /\ o \in Owners /\ g \in Objects
         /\ Does({})
<1>1. todo # <<>> /\ Head(todo) \in Entries /\ Head(todo)[1] = "reconfigured"
  BY HeadOf DEF Reconfigured, Doing, Idle
<1>2. Head(todo) = <<"reconfigured", o, g>> /\ o \in Owners /\ g \in Objects
  BY <1>1, Shape
<1>3. Does({})
  BY <1>1, DropStep DEF Reconfigured
<1>4. mod_handle' \in [Owners -> Nat]
  BY <1>2 DEF TypeOK, Reconfigured, Objects
<1>5. TypeOK'
  BY <1>2, <1>3, <1>4 DEF TypeOK, Reconfigured, modulevars, servicevars, devicevars, Does
<1> QED BY <1>2, <1>3, <1>5

LEMMA UnloadedDoes ==
  ASSUME TypeOK, Sorted(todo), Unloaded, NEW o, o = Head(todo)[2]
  PROVE  /\ TypeOK' /\ Head(todo) = <<"unloaded", o>> /\ o \in Owners
         /\ Does({})
<1>1. todo # <<>> /\ Head(todo) \in Entries /\ Head(todo)[1] = "unloaded"
  BY HeadOf DEF Unloaded, Doing, Idle
<1>2. Head(todo) = <<"unloaded", o>> /\ o \in Owners
  BY <1>1, Shape
<1>3. Does({})
  BY <1>1, DropStep DEF Unloaded
<1>4. loaded' \subseteq Owners
  BY <1>2 DEF TypeOK, Unloaded, Close
<1>5. TypeOK'
  BY <1>2, <1>3, <1>4 DEF TypeOK, Unloaded, modulevars, servicevars, devicevars, Does
<1> QED BY <1>2, <1>3, <1>5


LEMMA AddServiceDoes ==
  ASSUME TypeOK, Sorted(todo), AddService, NEW s, NEW g, s = Head(todo)[2], g = Head(todo)[3]
  PROVE  /\ TypeOK' /\ Head(todo) = <<"add_service", s, g>> /\ s \in Services /\ g \in Objects
         /\ Does(IF services[s] # 0 THEN {} ELSE {<<"offer", b, s>> : b \in bridge_map})
<1> DEFINE h == Head(todo)
           c == [i \in DOMAIN SetToSeq(bridge_map) |-> <<"offer", SetToSeq(bridge_map)[i], s>>]
<1>1. todo # <<>> /\ h \in Entries /\ h[1] = "add_service"
  BY HeadOf DEF AddService, Doing, Idle
<1>2. h = <<"add_service", s, g>> /\ s \in Services /\ g \in Objects
  BY <1>1, Shape
<1>3. services' \in [Services -> Nat]
  BY <1>2 DEF TypeOK, AddService, Objects
<1>4. ASSUME NEW C, Does(C) PROVE TypeOK'
  BY <1>3, <1>4 DEF TypeOK, AddService, modulevars, devicevars, Does
<1>5. CASE services[s] # 0
  <2>1. Does({})
    BY <1>1, <1>5, DropStep DEF AddService
  <2> QED BY <1>2, <1>4, <1>5, <2>1
<1>6. CASE services[s] = 0
  <2>1. Do(c)
    BY <1>6 DEF AddService, Each
  <2>2. c \in Seq(Entries) /\ Sorted(c) /\ ToSet(c) = {<<"offer", b, s>> : b \in bridge_map}
    BY <1>2, OfferServiceLoop DEF TypeOK
  <2> HIDE DEF c
  <2>3. \A e \in ToSet(c), f \in Rest : MayPrecede(h, f) => MayPrecede(e, f)
    BY <1>2, <2>2 DEF MayPrecede, Additions, Removals, Dismissals, Releases,
        Unloads, OwnerOf, ServiceOf
  <2>4. Does({<<"offer", b, s>> : b \in bridge_map})
    BY <1>1, <2>1, <2>2, <2>3, DoStep DEF Does
  <2> QED BY <1>2, <1>4, <1>6, <2>4
<1> QED BY <1>5, <1>6

LEMMA RemoveServiceDoes ==
  ASSUME TypeOK, Sorted(todo), RemoveService, NEW s, s = Head(todo)[2]
  PROVE  /\ TypeOK' /\ Head(todo) = <<"remove_service", s>> /\ s \in Services
         /\ Does(IF services[s] = 0 THEN {}
                 ELSE {<<"withdraw", b, s>> : b \in bridge_map} \cup {<<"delete", s>>})
<1> DEFINE h == Head(todo)
           a == [i \in DOMAIN SetToSeq(bridge_map) |-> <<"withdraw", SetToSeq(bridge_map)[i], s>>]
           b == << <<"delete", s>> >>
           A == {<<"withdraw", x, s>> : x \in bridge_map}
<1>1. todo # <<>> /\ h \in Entries /\ h[1] = "remove_service"
  BY HeadOf DEF RemoveService, Doing, Idle
<1>2. h = <<"remove_service", s>> /\ s \in Services
  BY <1>1, Shape
<1>4. ASSUME NEW C, Does(C) PROVE TypeOK'
  BY <1>4 DEF TypeOK, RemoveService, modulevars, servicevars, devicevars, Does
<1>5. CASE services[s] = 0
  <2>1. Does({})
    BY <1>1, <1>5, DropStep DEF RemoveService
  <2> QED BY <1>2, <1>4, <1>5, <2>1
<1>6. CASE services[s] # 0
  <2>1. Do(a \o b)
    BY <1>6 DEF RemoveService, Each
  <2>2. a \in Seq(Entries) /\ Sorted(a) /\ ToSet(a) = A
    BY <1>2, WithdrawLoop DEF TypeOK
  <2>3. b \in Seq(Entries) /\ Sorted(b) /\ ToSet(b) = {<<"delete", s>>}
    BY <1>2, Single, Made
  <2> HIDE DEF a, b
  <2>4. \A e \in ToSet(a), f \in ToSet(b) : MayPrecede(e, f)
    BY <2>2, <2>3 DEF MayPrecede, Additions, Removals, Dismissals, Releases,
        Unloads, OwnerOf, ServiceOf
  <2>5. /\ a \o b \in Seq(Entries) /\ Sorted(a \o b)
        /\ ToSet(a \o b) = A \cup {<<"delete", s>>}
    BY <2>2, <2>3, <2>4, Join
  <2>6. \A e \in ToSet(a \o b), f \in Rest : MayPrecede(h, f) => MayPrecede(e, f)
    BY <1>2, <2>5, Named DEF MayPrecede, Additions, Removals, Dismissals, Releases,
        Unloads, OwnerOf, ServiceOf
  <2>7. Does(A \cup {<<"delete", s>>})
    BY <1>1, <2>1, <2>5, <2>6, DoStep DEF Does
  <2>8. TypeOK'
    <3> HIDE DEF A
    <3> QED BY <1>4, <2>7
  <2> QED BY <1>2, <1>6, <2>7, <2>8
<1> QED BY <1>5, <1>6

LEMMA RemoveServicesDoes ==
  ASSUME TypeOK, Sorted(todo), RemoveServices, NEW o, o = Head(todo)[2]
  PROVE  /\ TypeOK' /\ Head(todo) = <<"remove_services", o>> /\ o \in Owners
         /\ Does({<<"delete_handler", p, o>> : p \in dl_map \cap Providers}
                 \cup {<<"remove_own", o>>})
<1> DEFINE h == Head(todo)
           P == dl_map \cap Providers
           a == [i \in DOMAIN SetToSeq(P) |-> <<"delete_handler", SetToSeq(P)[i], o>>]
           b == << <<"remove_own", o>> >>
           A == {<<"delete_handler", p, o>> : p \in P}
<1>1. todo # <<>> /\ h \in Entries /\ h[1] = "remove_services"
  BY HeadOf DEF RemoveServices, Doing, Idle
<1>2. h = <<"remove_services", o>> /\ o \in Owners
  BY <1>1, Shape
<1>3. Do(a \o b)
  BY <1>2 DEF RemoveServices, remove_module, Each
<1>4. a \in Seq(Entries) /\ Sorted(a) /\ ToSet(a) = A
  <2>1. P \in SUBSET Providers
    OBVIOUS
  <2> HIDE DEF P
  <2> QED BY <1>2, <2>1, DeleteHandlerLoop
<1>5. b \in Seq(Entries) /\ Sorted(b) /\ ToSet(b) = {<<"remove_own", o>>}
  BY <1>2, Single, Made
<1> HIDE DEF a, b
<1>6. \A e \in ToSet(a), f \in ToSet(b) : MayPrecede(e, f)
  BY <1>4, <1>5 DEF MayPrecede, Additions, Removals, Dismissals, Releases,
        Unloads, OwnerOf, ServiceOf
<1>7. /\ a \o b \in Seq(Entries) /\ Sorted(a \o b)
      /\ ToSet(a \o b) = A \cup {<<"remove_own", o>>}
  BY <1>4, <1>5, <1>6, Join
<1>8. \A e \in ToSet(a \o b), f \in Rest : MayPrecede(h, f) => MayPrecede(e, f)
  BY <1>2, <1>7 DEF MayPrecede, Additions, Removals, Dismissals, Releases,
        Unloads, OwnerOf, ServiceOf
<1>9. Does(A \cup {<<"remove_own", o>>})
  BY <1>1, <1>3, <1>7, <1>8, DoStep DEF Does
<1>10. TypeOK'
  <2> HIDE DEF A
  <2> QED BY <1>9 DEF TypeOK, RemoveServices, modulevars, servicevars, devicevars, Does
<1> QED BY <1>2, <1>9, <1>10

LEMMA RemoveOwnDoes ==
  ASSUME TypeOK, Sorted(todo), RemoveOwn, NEW o, o = Head(todo)[2]
  PROVE  /\ TypeOK' /\ Head(todo) = <<"remove_own", o>> /\ o \in Owners
         /\ Does({<<"remove_service", s>> : s \in {x \in Services : x[1] = o}})
<1> DEFINE h == Head(todo)
           T == {x \in Services : x[1] = o}
           c == [i \in DOMAIN SetToSeq(T) |-> <<"remove_service", SetToSeq(T)[i]>>]
           C == {<<"remove_service", s>> : s \in T}
<1>1. todo # <<>> /\ h \in Entries /\ h[1] = "remove_own"
  BY HeadOf DEF RemoveOwn, Doing, Idle
<1>2. h = <<"remove_own", o>> /\ o \in Owners
  BY <1>1, Shape
<1>3. Do(c)
  BY <1>2 DEF RemoveOwn, Each
<1>4. c \in Seq(Entries) /\ Sorted(c) /\ ToSet(c) = C
  <2>1. T \in SUBSET Services
    OBVIOUS
  <2> HIDE DEF T
  <2> QED BY <2>1, RemoveServiceLoop
<1> HIDE DEF c
<1>5. \A e \in ToSet(c), f \in Rest : MayPrecede(h, f) => MayPrecede(e, f)
  BY <1>2, <1>4 DEF MayPrecede, Additions, Removals, Dismissals, Releases,
        Unloads, OwnerOf, ServiceOf
<1>6. Does(C)
  BY <1>1, <1>3, <1>4, <1>5, DoStep DEF Does
<1>7. TypeOK'
  <2> HIDE DEF C
  <2> QED BY <1>6 DEF TypeOK, RemoveOwn, modulevars, servicevars, devicevars, Does
<1> QED BY <1>2, <1>6, <1>7

(* What mod_unconfigure and mod_configure make of a module's devices. *)
Taken(o) ==
  IF o \in Tidy /\ mod_handle[o] # 0
  THEN {<<"remove_device", Device(o, k), mod_handle[o]>> : k \in Kinds[o]} ELSE {}
Given(o, g) == {<<"add_device", Device(o, k), g>> : k \in Kinds[o]}

LEMMA UnconfigureSequence ==
  ASSUME TypeOK, NEW o \in Owners
  PROVE  /\ Unconfigure(o) \in Seq(Entries) /\ Sorted(Unconfigure(o))
         /\ ToSet(Unconfigure(o)) = Taken(o)
<1> DEFINE c == [i \in DOMAIN SetToSeq(Kinds[o]) |->
                   <<"remove_device", Device(o, SetToSeq(Kinds[o])[i]), mod_handle[o]>>]
<1>1. CASE o \in Tidy /\ mod_handle[o] # 0
  <2>1. mod_handle[o] \in Objects
    BY <1>1 DEF TypeOK, Objects
  <2>2. Unconfigure(o) = c
    BY <1>1 DEF Unconfigure, Each
  <2>3. /\ c \in Seq(Entries) /\ Sorted(c)
        /\ ToSet(c) = {<<"remove_device", Device(o, k), mod_handle[o]>> : k \in Kinds[o]}
    BY <2>1, RemoveDeviceLoop
  <2> QED BY <1>1, <2>2, <2>3 DEF Taken
<1>2. CASE ~(o \in Tidy /\ mod_handle[o] # 0)
  BY <1>2, Nothing DEF Unconfigure, Taken
<1> QED BY <1>1, <1>2

LEMMA ConfigureSequence ==
  ASSUME NEW o \in Owners, NEW g \in Objects
  PROVE  /\ Configure(o, g) \in Seq(Entries) /\ Sorted(Configure(o, g))
         /\ ToSet(Configure(o, g)) = Given(o, g) \cup {<<"configure", o>>}
<1> DEFINE a == [i \in DOMAIN SetToSeq(Kinds[o]) |->
                   <<"add_device", Device(o, SetToSeq(Kinds[o])[i]), g>>]
           b == << <<"configure", o>> >>
<1>1. Configure(o, g) = a \o b
  BY DEF Configure, Each
<1>2. a \in Seq(Entries) /\ Sorted(a) /\ ToSet(a) = Given(o, g)
  BY AddDeviceLoop DEF Given
<1>3. b \in Seq(Entries) /\ Sorted(b) /\ ToSet(b) = {<<"configure", o>>}
  BY Single, Made
<1> HIDE DEF a, b
<1>4. \A e \in ToSet(a), f \in ToSet(b) : MayPrecede(e, f)
  BY <1>2, <1>3 DEF MayPrecede, Additions, Removals, Dismissals, Releases,
        Unloads, OwnerOf, ServiceOf
<1> QED BY <1>1, <1>2, <1>3, <1>4, Join

LEMMA UnloadDoes ==
  ASSUME TypeOK, Sorted(todo), Unload, NEW o, o = Head(todo)[2]
  PROVE  /\ TypeOK' /\ Head(todo) = <<"unload", o>> /\ o \in Owners
         /\ Does(Taken(o) \cup {<<"remove_devices", o>>, <<"remove_services", o>>,
                                <<"unloaded", o>>})
<1> DEFINE h == Head(todo)
           x == <<"remove_devices", o>>
           y == <<"remove_services", o>>
           z == <<"unloaded", o>>
           a == Unconfigure(o)
           b == <<x, y, z>>
<1>1. todo # <<>> /\ h \in Entries /\ h[1] = "unload"
  BY HeadOf DEF Unload, Doing, Idle
<1>2. h = <<"unload", o>> /\ o \in Owners
  BY <1>1, Shape
<1>3. Do(a \o b)
  BY <1>2 DEF Unload
<1>4. a \in Seq(Entries) /\ Sorted(a) /\ ToSet(a) = Taken(o)
  BY <1>2, UnconfigureSequence
<1>5. b \in Seq(Entries) /\ Sorted(b) /\ ToSet(b) = {x, y, z}
  <2>1. x \in Entries /\ y \in Entries /\ z \in Entries
    BY <1>2, Made
  <2>2. MayPrecede(x, y) /\ MayPrecede(x, z) /\ MayPrecede(y, z)
    BY DEF MayPrecede, Additions, Removals, Dismissals, Releases,
        Unloads, OwnerOf, ServiceOf
  <2> HIDE DEF x, y, z
  <2> QED BY <2>1, <2>2, Triple
<1>6. \A e \in Taken(o) : e[1] = "remove_device" /\ e[2][1] = o
  BY DEF Taken, Device
<1>7. \A e \in Taken(o), f \in {x, y, z} : MayPrecede(e, f)
  BY <1>6 DEF MayPrecede, Additions, Removals, Dismissals, Releases,
        Unloads, OwnerOf, ServiceOf
<1> HIDE DEF a, b
<1>8. a \o b \in Seq(Entries) /\ Sorted(a \o b) /\ ToSet(a \o b) = Taken(o) \cup {x, y, z}
  <2>1. \A e \in ToSet(a), f \in ToSet(b) : MayPrecede(e, f)
    BY <1>4, <1>5, <1>7
  <2> QED BY <1>4, <1>5, <2>1, Join
<1>9. \A e \in ToSet(a \o b), f \in Rest : MayPrecede(h, f) => MayPrecede(e, f)
  <2> SUFFICES ASSUME NEW f \in Rest, MayPrecede(h, f)
               PROVE  \A e \in Taken(o) \cup {x, y, z} : MayPrecede(e, f)
    BY <1>8
  <2>1. \A e \in {x, y, z} : MayPrecede(e, f)
    BY <1>2 DEF MayPrecede, Additions, Removals, Dismissals, Releases,
        Unloads, OwnerOf, ServiceOf
  <2>2. \A e \in Taken(o) : MayPrecede(e, f)
    BY <1>2, <1>6 DEF MayPrecede, Additions, Removals, Dismissals, Releases,
        Unloads, OwnerOf, ServiceOf
  <2> QED BY <2>1, <2>2
<1>10. Does(Taken(o) \cup {x, y, z})
  BY <1>1, <1>3, <1>8, <1>9, DoStep DEF Does
<1>11. TypeOK'
  BY <1>2, <1>10 DEF TypeOK, Unload, servicevars, devicevars, Does
<1> QED BY <1>2, <1>10, <1>11

-----------------------------------------------------------------------------
(* What a call begins with. *)

Starts(C) ==
  /\ todo = <<>> /\ Pending = {}
  /\ todo' \in Seq(Entries) /\ Sorted(todo)'
  /\ Pending' = C

LEMMA StartStep ==
  ASSUME Idle, NEW c \in Seq(Entries), Sorted(c), todo' = c
  PROVE  Starts(ToSet(c))
<1>1. Pending = {}
  BY Nothing DEF Idle, Pending
<1>2. Sorted(todo)' /\ Pending' = ToSet(c)
  BY DEF Sorted, Pending, MayPrecede
<1> QED BY <1>1, <1>2 DEF Starts, Idle

LEMMA IdleStep ==
  ASSUME Idle, todo' = <<>>
  PROVE  Starts({})
  BY Nothing, StartStep

LEMMA AddListenerStarts ==
  ASSUME TypeOK, NEW l \in Hearers, AddListener(l)
  PROVE  TypeOK' /\ Starts({<<"notify_add", l, d, device_map[d]>> : d \in Registered})
<1> DEFINE c == [i \in DOMAIN SetToSeq(Registered) |->
                   <<"notify_add", l, SetToSeq(Registered)[i], device_map[SetToSeq(Registered)[i]]>>]
           C == {<<"notify_add", l, d, device_map[d]>> : d \in Registered}
<1>1. Idle /\ todo' = c
  BY DEF AddListener, Each
<1>2. c \in Seq(Entries) /\ Sorted(c) /\ ToSet(c) = C
  <2>1. Registered \in SUBSET Devices /\ device_map \in [Devices -> Nat]
        /\ \A d \in Registered : device_map[d] # 0
    BY DEF Registered, TypeOK
  <2> HIDE DEF C
  <2>2. C = {<<"notify_add", l, x, device_map[x]>> : x \in Registered}
    BY DEF C
  <2> QED BY <2>1, <2>2, AddListenerLoop
<1>3. Starts(C)
  <2> HIDE DEF c
  <2> QED BY <1>1, <1>2, StartStep
<1>4. TypeOK'
  <2> HIDE DEF C
  <2> QED BY <1>3 DEF TypeOK, AddListener, modulevars, servicevars, Starts
<1> QED BY <1>3, <1>4

LEMMA CallRemoveListenerStarts ==
  ASSUME TypeOK, NEW l \in Listeners, CallRemoveListener(l)
  PROVE  TypeOK' /\ Starts({<<"remove_listener", l>>})
<1> DEFINE c == << <<"remove_listener", l>> >>
<1>1. c \in Seq(Entries) /\ Sorted(c) /\ ToSet(c) = {<<"remove_listener", l>>}
  BY Single, Made DEF Hearers
<1>2. Idle /\ todo' = c
  BY DEF CallRemoveListener
<1> HIDE DEF c
<1>3. Starts({<<"remove_listener", l>>})
  BY <1>1, <1>2, StartStep
<1>4. TypeOK'
  BY <1>3 DEF TypeOK, CallRemoveListener, modulevars, servicevars, devicevars, Starts
<1> QED BY <1>3, <1>4

LEMMA CallByOwnerStarts ==
  ASSUME TypeOK, NEW s \in Services, CallByOwner(s)
  PROVE  TypeOK' /\ Starts({<<"withdraw", b, s>> : b \in bridge_map})
<1> DEFINE c == [i \in DOMAIN SetToSeq(bridge_map) |-> <<"withdraw", SetToSeq(bridge_map)[i], s>>]
           C == {<<"withdraw", b, s>> : b \in bridge_map}
<1>1. c \in Seq(Entries) /\ Sorted(c) /\ ToSet(c) = C
  BY WithdrawLoop DEF TypeOK
<1>2. Idle /\ todo' = c
  BY DEF CallByOwner, Each
<1> HIDE DEF c, C
<1>3. Starts(C)
  BY <1>1, <1>2, StartStep
<1>4. TypeOK'
  BY <1>3 DEF TypeOK, CallByOwner, modulevars, devicevars, Starts
<1> QED BY <1>3, <1>4 DEF C

LEMMA AddBridgeStarts ==
  ASSUME TypeOK, NEW b \in Bridges, AddBridge(b)
  PROVE  TypeOK' /\ Starts({<<"offer", b, s>> : s \in {x \in Services : services[x] # 0}})
<1> DEFINE T == {x \in Services : services[x] # 0}
           c == [i \in DOMAIN SetToSeq(T) |-> <<"offer", b, SetToSeq(T)[i]>>]
           C == {<<"offer", b, s>> : s \in T}
<1>1. c \in Seq(Entries) /\ Sorted(c) /\ ToSet(c) = C
  <2>1. T \in SUBSET Services
    OBVIOUS
  <2> HIDE DEF T
  <2> QED BY <2>1, OfferLoop
<1>2. Idle /\ todo' = c
  BY DEF AddBridge, Each
<1> HIDE DEF c, C
<1>3. Starts(C)
  BY <1>1, <1>2, StartStep
<1>4. TypeOK'
  BY <1>3 DEF TypeOK, AddBridge, modulevars, devicevars, Starts
<1> QED BY <1>3, <1>4 DEF C

LEMMA LoadStarts ==
  ASSUME TypeOK, NEW o \in Owners, NEW end \in {<<>>, << <<"catch">> >>}, load_module(o, end)
  PROVE  /\ TypeOK' /\ objects' \in Objects
         /\ Starts(Given(o, objects') \cup {<<"configure", o>>, <<"add_service", <<o, "own">>, objects'>>,
                                            <<"loaded", o, objects'>>} \cup ToSet(end))
<1> DEFINE g == objects'
           x == <<"add_service", <<o, "own">>, g>>
           y == <<"loaded", o, g>>
           a == Configure(o, g)
<1>1. g \in Objects
  BY DEF load_module, TypeOK, Objects
<1>2. Idle /\ todo' = ((a \o <<x>>) \o <<y>>) \o end
  <2>1. Idle /\ todo' = (a \o <<x>>) \o <<y>> \o end
    BY DEF load_module, Construct
  <2> QED BY <2>1
<1>3. /\ a \in Seq(Entries) /\ Sorted(a)
      /\ ToSet(a) = Given(o, g) \cup {<<"configure", o>>}
  BY <1>1, ConfigureSequence
<1>4. /\ <<x>> \in Seq(Entries) /\ Sorted(<<x>>) /\ ToSet(<<x>>) = {x}
      /\ <<y>> \in Seq(Entries) /\ Sorted(<<y>>) /\ ToSet(<<y>>) = {y}
  BY <1>1, Single, Made, Named
<1>5. /\ end \in Seq(Entries) /\ Sorted(end)
      /\ ToSet(end) \subseteq {<<"catch">>}
  BY Single, Nothing, Made
<1>6. /\ \A e \in Given(o, g) : e[1] = "add_device" /\ e[2][1] = o
  BY DEF Given, Device
<1>7. /\ \A e \in ToSet(a) : MayPrecede(e, x) /\ MayPrecede(e, y) /\ MayPrecede(e, <<"catch">>)
      /\ MayPrecede(x, y) /\ MayPrecede(x, <<"catch">>) /\ MayPrecede(y, <<"catch">>)
  BY <1>3, <1>6, RegistryAssumption DEF MayPrecede, Additions, Removals, Dismissals, Releases,
        Unloads, OwnerOf, ServiceOf
<1> HIDE DEF a, g, x, y
<1>8. /\ a \o <<x>> \in Seq(Entries) /\ Sorted(a \o <<x>>) /\ ToSet(a \o <<x>>) = ToSet(a) \cup {x}
  <2>1. \A e \in ToSet(a), f \in ToSet(<<x>>) : MayPrecede(e, f)
    BY <1>4, <1>7
  <2> QED BY <1>3, <1>4, <2>1, Join
<1>9. /\ (a \o <<x>>) \o <<y>> \in Seq(Entries) /\ Sorted((a \o <<x>>) \o <<y>>)
      /\ ToSet((a \o <<x>>) \o <<y>>) = (ToSet(a) \cup {x}) \cup {y}
  <2> DEFINE u == a \o <<x>>
             v == <<y>>
  <2>1. /\ u \in Seq(Entries) /\ Sorted(u) /\ ToSet(u) = ToSet(a) \cup {x}
        /\ v \in Seq(Entries) /\ Sorted(v) /\ ToSet(v) = {y}
    BY <1>4, <1>8
  <2>2. \A e \in ToSet(u), f \in ToSet(v) : MayPrecede(e, f)
    BY <1>7, <2>1
  <2> HIDE DEF u, v
  <2>3. /\ u \o v \in Seq(Entries) /\ Sorted(u \o v)
        /\ ToSet(u \o v) = ToSet(u) \cup ToSet(v)
    BY <2>1, <2>2, Join
  <2> QED BY <2>1, <2>3 DEF u, v
<1> DEFINE all == ((a \o <<x>>) \o <<y>>) \o end
<1>10. /\ all \in Seq(Entries) /\ Sorted(all)
       /\ ToSet(all) = ((ToSet(a) \cup {x}) \cup {y}) \cup ToSet(end)
  <2>1. \A e \in ToSet((a \o <<x>>) \o <<y>>), f \in ToSet(end) : MayPrecede(e, f)
    BY <1>5, <1>7, <1>9
  <2> QED BY <1>5, <1>9, <2>1, Join
<1>11. ToSet(all) = Given(o, g) \cup {<<"configure", o>>, x, y} \cup ToSet(end)
  BY <1>3, <1>10
<1> HIDE DEF all
<1>12. Starts(Given(o, g) \cup {<<"configure", o>>, x, y} \cup ToSet(end))
  <2>1. todo' = all
    BY <1>2 DEF all
  <2> QED BY <1>2, <1>10, <1>11, <2>1, StartStep
<1>13. todo' \in Seq(Entries)
  BY <1>12 DEF Starts
<1>14. TypeOK'
  BY <1>13 DEF TypeOK, load_module, Open, servicevars, devicevars
<1> QED BY <1>1, <1>12, <1>14 DEF g, x, y

LEMMA ReconfigureStarts ==
  ASSUME TypeOK, NEW o \in Owners, svc_reconfigure_module(o)
  PROVE  /\ TypeOK' /\ objects' \in Objects
         /\ Starts(Taken(o) \cup Given(o, objects')
                   \cup {<<"configure", o>>, <<"reconfigured", o, objects'>>, <<"catch">>})
<1> DEFINE g == objects'
           x == <<"reconfigured", o, g>>
           y == <<"catch">>
           a == Unconfigure(o)
           b == Configure(o, g)
<1>1. g \in Objects
  BY DEF svc_reconfigure_module, TypeOK, Objects
<1>2. Idle /\ todo' = (a \o b) \o <<x, y>>
  <2>1. Idle /\ todo' = a \o b \o <<x, y>>
    BY DEF svc_reconfigure_module
  <2> QED BY <2>1
<1>3. /\ a \in Seq(Entries) /\ Sorted(a) /\ ToSet(a) = Taken(o)
      /\ b \in Seq(Entries) /\ Sorted(b)
      /\ ToSet(b) = Given(o, g) \cup {<<"configure", o>>}
  BY <1>1, ConfigureSequence, UnconfigureSequence
<1>4. /\ <<x>> \in Seq(Entries) /\ Sorted(<<x>>) /\ ToSet(<<x>>) = {x}
      /\ <<y>> \in Seq(Entries) /\ Sorted(<<y>>) /\ ToSet(<<y>>) = {y}
  BY <1>1, Single, Made
<1>5. /\ \A e \in Given(o, g) : e[1] = "add_device" /\ e[2][1] = o /\ e[2][2] # "trigger"
      /\ \A e \in Taken(o) : e[1] = "remove_device" /\ e[2][1] = o
  BY KindsOf DEF Given, Taken, Device
<1>6. \A e \in ToSet(a), f \in ToSet(b) : MayPrecede(e, f)
  BY <1>3, <1>5 DEF MayPrecede, Additions, Removals, Dismissals, Releases,
        Unloads, OwnerOf, ServiceOf
<1>7. /\ \A e \in ToSet(a) \cup ToSet(b) : MayPrecede(e, x) /\ MayPrecede(e, y)
      /\ MayPrecede(x, y)
  BY <1>3, <1>5 DEF MayPrecede, Additions, Removals, Dismissals, Releases,
        Unloads, OwnerOf, ServiceOf
<1>8. <<x, y>> = <<x>> \o <<y>>
  OBVIOUS
<1> HIDE DEF a, b, g, x, y
<1>9. a \o b \in Seq(Entries) /\ Sorted(a \o b) /\ ToSet(a \o b) = ToSet(a) \cup ToSet(b)
  BY <1>3, <1>6, Join
<1>10. <<x, y>> \in Seq(Entries) /\ Sorted(<<x, y>>) /\ ToSet(<<x, y>>) = {x} \cup {y}
  <2>1. \A e \in ToSet(<<x>>), f \in ToSet(<<y>>) : MayPrecede(e, f)
    BY <1>4, <1>7
  <2>2. <<x>> \o <<y>> \in Seq(Entries) /\ Sorted(<<x>> \o <<y>>)
        /\ ToSet(<<x>> \o <<y>>) = {x} \cup {y}
    BY <1>4, <2>1, Join
  <2> QED BY <1>8, <2>2
<1> DEFINE all == (a \o b) \o <<x, y>>
<1>11. /\ all \in Seq(Entries) /\ Sorted(all)
       /\ ToSet(all) = (ToSet(a) \cup ToSet(b)) \cup ({x} \cup {y})
  <2>1. \A e \in ToSet(a \o b), f \in ToSet(<<x, y>>) : MayPrecede(e, f)
    BY <1>7, <1>9, <1>10
  <2> QED BY <1>9, <1>10, <2>1, Join
<1>12. ToSet(all) = Taken(o) \cup Given(o, g) \cup {<<"configure", o>>, x, y}
  BY <1>3, <1>11
<1> HIDE DEF all
<1>13. Starts(Taken(o) \cup Given(o, g) \cup {<<"configure", o>>, x, y})
  <2>1. todo' = all
    BY <1>2 DEF all
  <2> QED BY <1>2, <1>11, <1>12, <2>1, StartStep
<1>14. todo' \in Seq(Entries)
  BY <1>13 DEF Starts
<1>15. TypeOK'
  BY <1>14 DEF TypeOK, svc_reconfigure_module, servicevars, devicevars
<1> QED BY <1>1, <1>13, <1>15 DEF g, x, y

LEMMA RemoveModuleStarts ==
  ASSUME TypeOK, NEW o \in Owners, svc_remove_module(o)
  PROVE  TypeOK' /\ Starts({<<"unload", o>>})
<1> DEFINE c == << <<"unload", o>> >>
<1>1. c \in Seq(Entries) /\ Sorted(c) /\ ToSet(c) = {<<"unload", o>>}
  BY Single, Made
<1>2. Idle /\ todo' = c
  BY DEF svc_remove_module
<1> HIDE DEF c
<1>3. Starts({<<"unload", o>>})
  BY <1>1, <1>2, StartStep
<1>4. TypeOK'
  BY <1>3 DEF TypeOK, svc_remove_module, modulevars, servicevars, devicevars, Starts
<1> QED BY <1>3, <1>4

LEMMA ReadConfigStarts ==
  ASSUME TypeOK, ReadConfig
  PROVE  TypeOK' /\ Starts({})
<1>1. Starts({})
  BY IdleStep DEF ReadConfig, Idle
<1>2. TypeOK'
  BY <1>1 DEF TypeOK, ReadConfig, servicevars, devicevars, Starts
<1> QED BY <1>1, <1>2

LEMMA NextPhaseStarts ==
  ASSUME TypeOK, NextPhase
  PROVE  /\ TypeOK'
         /\ Starts(IF phase = "providers" THEN {<<"add_service", <<Kernel, "own">>, 1>>} ELSE {})
<1>1. CASE phase # "providers"
  <2>1. Starts({})
    BY <1>1, IdleStep DEF NextPhase, Idle
  <2>2. TypeOK'
    BY <1>1, <2>1 DEF TypeOK, NextPhase, servicevars, devicevars, Starts
  <2> QED BY <1>1, <2>1, <2>2
<1>2. CASE phase = "providers"
  <2> DEFINE c == << <<"add_service", <<Kernel, "own">>, 1>> >>
  <2>1. c \in Seq(Entries) /\ Sorted(c) /\ ToSet(c) = {<<"add_service", <<Kernel, "own">>, 1>>}
    <3>1. <<Kernel, "own">> \in Services /\ 1 \in Objects
      BY Named DEF Objects
    <3>2. <<"add_service", <<Kernel, "own">>, 1>> \in Entries
      BY <3>1, Made
    <3> QED BY <3>2, Single
  <2>2. Idle /\ todo' = c /\ phase' = "running"
    BY <1>2 DEF NextPhase
  <2> HIDE DEF c
  <2>3. Starts({<<"add_service", <<Kernel, "own">>, 1>>})
    BY <2>1, <2>2, StartStep
  <2>4. TypeOK'
    BY <2>2, <2>3 DEF TypeOK, NextPhase, servicevars, devicevars, Starts
  <2> QED BY <1>2, <2>3, <2>4
<1> QED BY <1>1, <1>2

-----------------------------------------------------------------------------
(* The end of the program, and exceptions. *)

Exit ==
  {<<"unload", o>> : o \in {x \in Owners : object[x] # 0}}
  \cup {<<"remove_bridges">>}
  \cup {<<"remove_listener", p>> : p \in dl_map \cap Providers}
  \cup {<<"remove_service", s>> : s \in Services}

LEMMA AtExitSequence ==
  ASSUME TypeOK
  PROVE  AtExit \in Seq(Entries) /\ Sorted(AtExit) /\ ToSet(AtExit) = Exit
<1> DEFINE S == {o \in Owners : object[o] # 0}
           P == dl_map \cap Providers
           a == [i \in DOMAIN SetToSeq(S) |-> <<"unload", SetToSeq(S)[i]>>]
           b == << <<"remove_bridges">> >>
           c == [i \in DOMAIN SetToSeq(P) |-> <<"remove_listener", SetToSeq(P)[i]>>]
           d == [i \in DOMAIN SetToSeq(Services) |-> <<"remove_service", SetToSeq(Services)[i]>>]
           A == {<<"unload", o>> : o \in S}
           C == {<<"remove_listener", p>> : p \in P}
           D == {<<"remove_service", s>> : s \in Services}
<1>1. AtExit = ((a \o b) \o c) \o d
  <2>1. AtExit = a \o b \o c \o d
    BY DEF AtExit, Each, Unregister
  <2> QED BY <2>1
<1>2. a \in Seq(Entries) /\ Sorted(a) /\ ToSet(a) = A
  <2>1. S \in SUBSET Owners
    OBVIOUS
  <2> HIDE DEF S
  <2> QED BY <2>1, UnloadLoop
<1>3. b \in Seq(Entries) /\ Sorted(b) /\ ToSet(b) = {<<"remove_bridges">>}
  BY Single, Made
<1>4. c \in Seq(Entries) /\ Sorted(c) /\ ToSet(c) = C
  <2>1. P \in SUBSET Providers
    OBVIOUS
  <2> HIDE DEF P
  <2> QED BY <2>1, RemoveListenerLoop
<1>5. d \in Seq(Entries) /\ Sorted(d) /\ ToSet(d) = D
  BY RemoveServiceLoop
<1>6. Exit = ((A \cup {<<"remove_bridges">>}) \cup C) \cup D
  BY DEF Exit
<1>7. \A e \in A, f \in {<<"remove_bridges">>} : MayPrecede(e, f)
  BY DEF MayPrecede, Additions, Removals, Dismissals, Releases,
        Unloads, OwnerOf, ServiceOf
<1>8. \A e \in A \cup {<<"remove_bridges">>}, f \in C : MayPrecede(e, f)
  BY DEF MayPrecede, Additions, Removals, Dismissals, Releases,
        Unloads, OwnerOf, ServiceOf
<1>9. \A e \in (A \cup {<<"remove_bridges">>}) \cup C, f \in D : MayPrecede(e, f)
  BY DEF MayPrecede, Additions, Removals, Dismissals, Releases,
        Unloads, OwnerOf, ServiceOf
<1> HIDE DEF a, b, c, d, A, C, D
<1> DEFINE u == a \o b
           v == u \o c
           w == v \o d
<1>10. u \in Seq(Entries) /\ Sorted(u) /\ ToSet(u) = A \cup {<<"remove_bridges">>}
  BY <1>2, <1>3, <1>7, Join
<1> HIDE DEF u
<1>11. v \in Seq(Entries) /\ Sorted(v) /\ ToSet(v) = (A \cup {<<"remove_bridges">>}) \cup C
  <2>1. \A e \in ToSet(u), f \in ToSet(c) : MayPrecede(e, f)
    BY <1>4, <1>8, <1>10
  <2> QED BY <1>4, <1>10, <2>1, Join
<1> HIDE DEF v
<1>12. w \in Seq(Entries) /\ Sorted(w) /\ ToSet(w) = Exit
  <2>1. \A e \in ToSet(v), f \in ToSet(d) : MayPrecede(e, f)
    BY <1>5, <1>9, <1>11
  <2> QED BY <1>5, <1>6, <1>11, <2>1, Join
<1>13. AtExit = w
  BY <1>1 DEF u, v, w
<1> QED BY <1>12, <1>13

LEMMA ShutdownStarts ==
  ASSUME TypeOK, Shutdown
  PROVE  TypeOK' /\ Starts(Exit) /\ phase' = "stopped"
<1>1. AtExit \in Seq(Entries) /\ Sorted(AtExit) /\ ToSet(AtExit) = Exit
  BY AtExitSequence
<1>2. Idle /\ todo' = AtExit /\ phase' = "stopped"
  BY DEF Shutdown
<1>3. Starts(Exit)
  BY <1>1, <1>2, StartStep
<1>4. TypeOK'
  BY <1>2, <1>3 DEF TypeOK, Shutdown, servicevars, devicevars, Starts
<1> QED BY <1>2, <1>3, <1>4

(* The modules whose loading the first n entries would have ended. *)
Lost(n) == {todo[i][2] : i \in {j \in 1 .. n : todo[j][1] = "loaded"}}

(* The nth entry catches the exception. *)
Catches(n) ==
  /\ n \in 1 .. Len(todo) /\ todo[n] = <<"catch">>
  /\ \A i \in 1 .. n - 1 : todo[i] # <<"catch">>
  /\ Pending' = {todo[i] : i \in n + 1 .. Len(todo)}
  /\ Close(Lost(n)) /\ phase' = phase

(* Nothing does. *)
GivesUp ==
  /\ <<"catch">> \notin Pending /\ Pending' = Exit
  /\ Close(Lost(Len(todo))) /\ phase' = "stopped"

LEMMA FirstCatch ==
  ASSUME TypeOK, Caught
  PROVE  LET n == SelectInSeq(todo, LAMBDA c : c = <<"catch">>)
         IN  /\ n \in 1 .. Len(todo) /\ todo[n] = <<"catch">>
             /\ \A i \in 1 .. n - 1 : todo[i] # <<"catch">>
<1> DEFINE I == {i \in 1 .. Len(todo) : todo[i] = <<"catch">>}
<1>1. DOMAIN todo = 1 .. Len(todo) /\ Len(todo) \in Nat
  BY LenProperties DEF TypeOK
<1>2. I # {} /\ I \subseteq Nat
  BY <1>1 DEF Caught
<1>3. \E x \in I : \A y \in I : x <= y
  <2>1. PICK x \in I : \A y \in I : ~(<<y, x>> \in OpToRel(<, Nat))
    <3> HIDE DEF I
    <3> QED BY <1>2, NatLessThanWellFounded, WFMin
  <2>2. \A y \in I : x <= y
    <3> TAKE y \in I
    <3>1. x \in Nat /\ y \in Nat /\ ~(y < x)
      BY <1>2, <2>1 DEF OpToRel
    <3> QED BY <3>1
  <2> QED BY <2>2
<1>4. Min(I) \in I /\ \A y \in I : Min(I) <= y
  <2> HIDE DEF I
  <2> QED BY <1>3 DEF Min
<1>5. \A i \in 1 .. Min(I) - 1 : todo[i] # <<"catch">>
  <2> TAKE i \in 1 .. Min(I) - 1
  <2>1. Min(I) \in 1 .. Len(todo)
    BY <1>4
  <2>2. i \in 1 .. Len(todo) /\ ~(Min(I) <= i)
    <3> HIDE DEF I
    <3> QED BY <1>1, <2>1
  <2> QED BY <1>4, <2>2
<1>6. SelectInSeq(todo, LAMBDA c : c = <<"catch">>) = Min(I)
  BY <1>2 DEF SelectInSeq
<1> QED BY <1>4, <1>5, <1>6

Throws ==
  /\ todo' \in Seq(Entries) /\ Sorted(todo)'
  /\ (\E n \in 1 .. Len(todo) : Catches(n)) \/ GivesUp
  /\ loaded' \subseteq Owners /\ phase' \in {phase, "stopped"}

LEMMA ThrowStep ==
  ASSUME TypeOK, Sorted(todo), Throw
  PROVE  Throws
<1>1. todo \in Seq(Entries) /\ Len(todo) \in Nat /\ DOMAIN todo = 1 .. Len(todo)
  BY LenProperties DEF TypeOK
<1>2. CASE Caught
  <2> DEFINE n == SelectInSeq(todo, LAMBDA c : c = <<"catch">>)
  <2>1. todo' = SubSeq(todo, n + 1, Len(todo)) /\ phase' = phase /\ Close(Lost(n))
    BY <1>2 DEF Throw, Lost
  <2>2. /\ n \in 1 .. Len(todo) /\ todo[n] = <<"catch">>
        /\ \A i \in 1 .. n - 1 : todo[i] # <<"catch">>
    BY <1>2, FirstCatch
  <2> HIDE DEF n
  <2> DEFINE t == SubSeq(todo, n + 1, Len(todo))
  <2>3. /\ t \in Seq(Entries) /\ Len(t) = Len(todo) - n
        /\ \A i \in 1 .. Len(todo) - n : t[i] = todo[n + i] /\ n + i \in 1 .. Len(todo)
    <3>1. n + 1 \in Int /\ Len(todo) \in Int /\ \A i \in n + 1 .. Len(todo) : todo[i] \in Entries
      BY <1>1, <2>2
    <3>2. /\ t \in Seq(Entries)
          /\ Len(t) = (IF n + 1 <= Len(todo) THEN Len(todo) - (n + 1) + 1 ELSE 0)
          /\ \A i \in 1 .. Len(todo) - (n + 1) + 1 : t[i] = todo[(n + 1) + i - 1]
      BY <3>1, SubSeqProperties
    <3>3. Len(t) = Len(todo) - n
      <4>1. n \in Nat /\ Len(todo) \in Nat /\ n <= Len(todo)
        BY <1>1, <2>2
      <4> HIDE DEF t
      <4>2. CASE n + 1 <= Len(todo)
        <5>1. Len(t) = Len(todo) - (n + 1) + 1
          BY <3>2, <4>2
        <5> QED BY <4>1, <5>1
      <4>3. CASE ~(n + 1 <= Len(todo))
        <5>1. Len(t) = 0
          BY <3>2, <4>3
        <5> QED BY <4>1, <4>3, <5>1
      <4> QED BY <4>2, <4>3
    <3>4. ASSUME NEW i \in 1 .. Len(todo) - n
          PROVE  t[i] = todo[n + i] /\ n + i \in 1 .. Len(todo)
      <4>1. i \in 1 .. Len(todo) - (n + 1) + 1 /\ (n + 1) + i - 1 = n + i
        BY <1>1, <2>2
      <4> QED BY <1>1, <2>2, <3>2, <4>1
    <3> QED BY <3>2, <3>3, <3>4
  <2> HIDE DEF t
  <2>4. Sorted(t)
    <3> SUFFICES ASSUME NEW i \in 1 .. Len(t), NEW j \in 1 .. Len(t), i < j
                 PROVE  MayPrecede(t[i], t[j])
      BY DEF Sorted
    <3>1. n + i \in 1 .. Len(todo) /\ n + j \in 1 .. Len(todo) /\ n + i < n + j
      BY <1>1, <2>2, <2>3
    <3> QED BY <2>3, <3>1 DEF Sorted
  <2>5. ToSet(t) = {todo[i] : i \in n + 1 .. Len(todo)}
    <3>1. ToSet(t) = {t[i] : i \in 1 .. Len(todo) - n}
      BY <2>3, ElementsOf
    <3>2. \A i \in 1 .. Len(todo) - n : n + i \in n + 1 .. Len(todo) /\ t[i] = todo[n + i]
      BY <1>1, <2>2, <2>3
    <3>3. \A i \in n + 1 .. Len(todo) :
            i - n \in 1 .. Len(todo) - n /\ n + (i - n) = i /\ t[i - n] = todo[i]
      <4> TAKE i \in n + 1 .. Len(todo)
      <4>1. i - n \in 1 .. Len(todo) - n /\ n + (i - n) = i
        BY <1>1, <2>2
      <4> QED BY <2>3, <4>1
    <3> QED BY <3>1, <3>2, <3>3
  <2>6. Sorted(todo)' /\ Pending' = ToSet(t) /\ todo' = t
    <3>1. todo' = t
      BY <2>1 DEF t
    <3> QED BY <2>4, <3>1 DEF Sorted, Pending, MayPrecede
  <2>7. Catches(n)
    BY <2>1, <2>2, <2>5, <2>6 DEF Catches
  <2>8. loaded' \subseteq Owners
    BY <2>1 DEF Close, TypeOK
  <2> QED BY <2>1, <2>2, <2>3, <2>6, <2>7, <2>8 DEF Throws
<1>3. CASE ~Caught
  <2>1. todo' = AtExit /\ phase' = "stopped" /\ Close(Lost(Len(todo)))
    BY <1>3 DEF Throw, Lost
  <2>2. AtExit \in Seq(Entries) /\ Sorted(AtExit) /\ ToSet(AtExit) = Exit
    BY AtExitSequence
  <2>3. Sorted(todo)' /\ Pending' = Exit
    BY <2>1, <2>2 DEF Sorted, Pending, MayPrecede
  <2>4. <<"catch">> \notin Pending
    BY <1>1, <1>3 DEF Caught, Pending, ToSet
  <2>5. loaded' \subseteq Owners
    BY <2>1 DEF Close, TypeOK
  <2> QED BY <2>1, <2>2, <2>3, <2>4, <2>5 DEF Throws, GivesUp
<1> QED BY <1>2, <1>3

LEMMA RefuseThrows ==
  ASSUME TypeOK, Sorted(todo), Refuse, NEW b, NEW s, b = Head(todo)[2], s = Head(todo)[3]
  PROVE  /\ TypeOK' /\ Throws /\ todo # <<>>
         /\ Head(todo) = <<"offer", b, s>> /\ b \in Bridges /\ s \in Services
<1>1. todo # <<>> /\ Head(todo) \in Entries /\ Head(todo)[1] = "offer"
  BY HeadOf DEF Refuse, Doing, Idle
<1>2. Head(todo) = <<"offer", b, s>> /\ b \in Bridges /\ s \in Services
  BY <1>1, Shape
<1>3. Throws
  BY ThrowStep DEF Refuse
<1>4. s[1] \in Owners \cup {Kernel}
  BY <1>2, Named
<1>5. refused' \subseteq Services /\ left' \subseteq Owners \cup {Kernel}
  BY <1>2, <1>4 DEF Refuse, TypeOK
<1>6. TypeOK'
  BY <1>3, <1>5 DEF TypeOK, Refuse, devicevars, Throws
<1> QED BY <1>1, <1>2, <1>3, <1>6

LEMMA ConfigureFailsThrows ==
  ASSUME TypeOK, Sorted(todo), ConfigureFails
  PROVE  /\ TypeOK' /\ Throws /\ todo # <<>>
         /\ Head(todo)[1] \in {"configure", "add_device"}
         /\ Head(todo)[1] = "add_device" => Head(todo)[2][2] # "trigger"
         /\ OwnerOf(Head(todo)) \in Owners /\ left' = left \cup {OwnerOf(Head(todo))}
<1>1. /\ todo # <<>> /\ Head(todo) \in Entries
      /\ \/ Head(todo)[1] = "configure" /\ left' = left \cup {Head(todo)[2]}
         \/ /\ Head(todo)[1] = "add_device" /\ Head(todo)[2][2] # "trigger"
            /\ left' = left \cup {Head(todo)[2][1]}
  BY HeadOf DEF ConfigureFails, Doing, Idle
<1>2. OwnerOf(Head(todo)) \in Owners /\ left' = left \cup {OwnerOf(Head(todo))}
  BY <1>1, Shape, Named DEF OwnerOf
<1>3. Throws
  BY ThrowStep DEF ConfigureFails
<1>4. left' \subseteq Owners \cup {Kernel}
  BY <1>2 DEF TypeOK
<1>5. TypeOK'
  BY <1>3, <1>4 DEF TypeOK, ConfigureFails, servicevars, devicevars, Throws
<1> QED BY <1>1, <1>2, <1>3, <1>5

LEMMA ConfigFailsThrows ==
  ASSUME TypeOK, Sorted(todo), ConfigFails
  PROVE  TypeOK' /\ Throws /\ todo = <<>>
<1>1. Throws
  BY ThrowStep DEF ConfigFails
<1>2. TypeOK'
  BY <1>1 DEF TypeOK, ConfigFails, servicevars, devicevars, Throws
<1> QED BY <1>1, <1>2 DEF ConfigFails, Idle

-----------------------------------------------------------------------------
(* Every step keeps todo in order. *)

Ordered == TypeOK /\ Sorted(todo)

LEMMA CallKeepsOrder ==
  ASSUME Ordered, Call
  PROVE  Ordered'
<1>1. TypeOK /\ Sorted(todo)
  BY DEF Ordered
<1> SUFFICES TypeOK' /\ Sorted(todo)'
  BY DEF Ordered
<1>2. ASSUME NEW l \in Listeners, CallAddListener(l)
      PROVE  TypeOK' /\ Sorted(todo)'
  BY <1>1, <1>2, AddListenerStarts DEF CallAddListener, Hearers, Starts
<1>3. ASSUME NEW l \in Listeners, CallRemoveListener(l)
      PROVE  TypeOK' /\ Sorted(todo)'
  BY <1>1, <1>3, CallRemoveListenerStarts DEF Starts
<1>4. ASSUME NEW p \in Providers, AddProvider(p)
      PROVE  TypeOK' /\ Sorted(todo)'
  BY <1>1, <1>4, AddListenerStarts DEF AddProvider, Hearers, Starts
<1>5. ASSUME NEW s \in Services, CallByOwner(s)
      PROVE  TypeOK' /\ Sorted(todo)'
  BY <1>1, <1>5, CallByOwnerStarts DEF Starts
<1>6. ASSUME NEW b \in Bridges, AddBridge(b)
      PROVE  TypeOK' /\ Sorted(todo)'
  BY <1>1, <1>6, AddBridgeStarts DEF Starts
<1>7. ASSUME NEW o \in Owners, CreateModule(o)
      PROVE  TypeOK' /\ Sorted(todo)'
  <2>1. load_module(o, <<>>)
    BY <1>7 DEF CreateModule
  <2> QED BY <1>1, <2>1, LoadStarts DEF Starts
<1>8. ASSUME NEW o \in Owners, svc_add_module(o)
      PROVE  TypeOK' /\ Sorted(todo)'
  <2>1. load_module(o, << <<"catch">> >>)
    BY <1>8 DEF svc_add_module
  <2> QED BY <1>1, <2>1, LoadStarts DEF Starts
<1>9. ASSUME NEW o \in Owners, svc_reconfigure_module(o)
      PROVE  TypeOK' /\ Sorted(todo)'
  BY <1>1, <1>9, ReconfigureStarts DEF Starts
<1>10. ASSUME NEW o \in Owners, svc_remove_module(o)
       PROVE  TypeOK' /\ Sorted(todo)'
  BY <1>1, <1>10, RemoveModuleStarts DEF Starts
<1>11. CASE ReadConfig
  BY <1>1, <1>11, ReadConfigStarts DEF Starts
<1>12. CASE NextPhase
  BY <1>1, <1>12, NextPhaseStarts DEF Starts
<1>13. CASE ConfigFails
  BY <1>1, <1>13, ConfigFailsThrows DEF Throws
<1>14. CASE Shutdown
  BY <1>1, <1>14, ShutdownStarts DEF Starts
<1> QED BY <1>2, <1>3, <1>4, <1>5, <1>6, <1>7, <1>8, <1>9, <1>10,
           <1>11, <1>12, <1>13, <1>14, CalledAssumption DEF Call

LEMMA DeviceStepKeepsOrder ==
  ASSUME Ordered, DeviceStep
  PROVE  Ordered'
<1>1. TypeOK /\ Sorted(todo)
  BY DEF Ordered
<1> SUFFICES TypeOK' /\ Sorted(todo)'
  BY DEF Ordered
<1>2. CASE AddDevice
  BY <1>1, <1>2, AddDeviceDoes DEF Does
<1>3. CASE RemoveDevice
  BY <1>1, <1>3, RemoveDeviceDoes DEF Does
<1>4. CASE EraseDevice
  BY <1>1, <1>4, EraseDeviceDoes DEF Does
<1>5. CASE RemoveDevices
  BY <1>1, <1>5, RemoveDevicesDoes DEF Does
<1>6. CASE Notify
  BY <1>1, <1>6, NotifyDoes DEF Does
<1>7. CASE NotifyProvider
  BY <1>1, <1>7, NotifyProviderDoes DEF Does
<1>8. CASE NewHandler
  BY <1>1, <1>8, NewHandlerDoes DEF Does
<1>9. CASE DeleteHandler
  BY <1>1, <1>9, DeleteHandlerDoes DEF Does
<1>10. CASE EndOfTry
  BY <1>1, <1>10, EndOfTryDoes DEF Does
<1>11. CASE RemoveListener
  BY <1>1, <1>11, RemoveListenerDoes DEF Does
<1>12. CASE EraseListener
  BY <1>1, <1>12, EraseListenerDoes DEF Does
<1> QED BY <1>2, <1>3, <1>4, <1>5, <1>6, <1>7, <1>8, <1>9, <1>10, <1>11, <1>12 DEF DeviceStep

LEMMA ServiceStepKeepsOrder ==
  ASSUME Ordered, ServiceStep
  PROVE  Ordered'
<1>1. TypeOK /\ Sorted(todo)
  BY DEF Ordered
<1> SUFFICES TypeOK' /\ Sorted(todo)'
  BY DEF Ordered
<1>2. CASE AddService
  BY <1>1, <1>2, AddServiceDoes DEF Does
<1>3. CASE Offer
  BY <1>1, <1>3, OfferDoes DEF Does
<1>4. CASE Refuse
  BY <1>1, <1>4, RefuseThrows DEF Throws
<1>5. CASE RemoveService
  BY <1>1, <1>5, RemoveServiceDoes DEF Does
<1>6. CASE Withdraw
  BY <1>1, <1>6, WithdrawDoes DEF Does
<1>7. CASE Delete
  BY <1>1, <1>7, DeleteDoes DEF Does
<1>8. CASE RemoveServices
  BY <1>1, <1>8, RemoveServicesDoes DEF Does
<1>9. CASE RemoveOwn
  BY <1>1, <1>9, RemoveOwnDoes DEF Does
<1>10. CASE RemoveBridges
  BY <1>1, <1>10, RemoveBridgesDoes DEF Does
<1> QED BY <1>2, <1>3, <1>4, <1>5, <1>6, <1>7, <1>8, <1>9, <1>10 DEF ServiceStep

LEMMA ModuleStepKeepsOrder ==
  ASSUME Ordered, ModuleStep
  PROVE  Ordered'
<1>1. TypeOK /\ Sorted(todo)
  BY DEF Ordered
<1> SUFFICES TypeOK' /\ Sorted(todo)'
  BY DEF Ordered
<1>2. CASE Configured
  BY <1>1, <1>2, ConfiguredDoes DEF Does
<1>3. CASE ConfigureFails
  BY <1>1, <1>3, ConfigureFailsThrows DEF Throws
<1>4. CASE Loaded
  BY <1>1, <1>4, LoadedDoes DEF Does
<1>5. CASE Reconfigured
  BY <1>1, <1>5, ReconfiguredDoes DEF Does
<1>6. CASE Unload
  BY <1>1, <1>6, UnloadDoes DEF Does
<1>7. CASE Unloaded
  BY <1>1, <1>7, UnloadedDoes DEF Does
<1> QED BY <1>2, <1>3, <1>4, <1>5, <1>6, <1>7 DEF ModuleStep

LEMMA InitOrdered ==
  Init => Ordered /\ Pending = {}
<1> SUFFICES ASSUME Init PROVE TypeOK /\ Sorted(todo) /\ Pending = {}
  BY DEF Ordered
<1>1. todo = <<>> /\ todo \in Seq(Entries) /\ Sorted(todo) /\ Pending = {}
  BY Nothing DEF Init, Pending
<1>2. 0 \in Nat
  OBVIOUS
<1>3. None(Owners) \in [Owners -> Nat] /\ None(Services) \in [Services -> Nat]
  BY <1>2 DEF None
<1>4. None(Devices) \in [Devices -> Nat] /\ \A d \in Devices : None(Devices)[d] = 0
  BY <1>2 DEF None
<1> QED BY <1>1, <1>2, <1>3, <1>4 DEF Init, TypeOK

(* Types, and the order of what is left to do of a call. *)
THEOREM CallsAreOrdered == Spec => []Ordered
<1>1. Init => Ordered
  BY InitOrdered
<1>2. Ordered /\ [Next]_vars => Ordered'
  <2> SUFFICES ASSUME Ordered, [Next]_vars PROVE Ordered'
    OBVIOUS
  <2>1. CASE Next
    BY <2>1, CallKeepsOrder, DeviceStepKeepsOrder, ServiceStepKeepsOrder,
       ModuleStepKeepsOrder DEF Next
  <2>2. CASE UNCHANGED vars
    BY <2>2 DEF Ordered, TypeOK, Sorted, MayPrecede, OwnerOf, ServiceOf,
                vars, modulevars, servicevars, devicevars
  <2> QED BY <2>1, <2>2
<1> QED BY <1>1, <1>2, PTL DEF Spec

-----------------------------------------------------------------------------
(* Bridges and services. *)

(* A service that a bridge offers is there, and an offer that is still to  *)
(* be made is of one that is; a service is deleted only after each bridge  *)
(* has let go of it; and what a bridge does not offer it has refused, or   *)
(* it is just being told.  Only the offers of one service can be caught.   *)
OfferInv ==
  /\ \A b \in Bridges : \A s \in offered[b] : services[s] # 0
  /\ \A b \in Bridges \ bridge_map : offered[b] = {}
  /\ \A b \in Bridges, s \in Services :
       <<"offer", b, s>> \in Pending => services[s] # 0 /\ b \in bridge_map
  /\ \A s \in Services : <<"delete", s>> \in Pending =>
       \A b \in Bridges : s \in offered[b] => <<"withdraw", b, s>> \in Pending
  /\ \A b \in Bridges, s \in Services : <<"withdraw", b, s>> \in Pending =>
       s \in hidden \/ <<"delete", s>> \in Pending
  /\ \A b, c \in Bridges, s, t \in Services :
       <<"offer", b, s>> \in Pending /\ <<"offer", c, t>> \in Pending =>
         s = t \/ <<"catch">> \notin Pending
AllOffered ==
  <<"remove_bridges">> \in Pending \/
    \A b \in bridge_map, s \in Services : services[s] # 0 =>
      \/ s \in offered[b] \cup refused \cup hidden
      \/ <<"offer", b, s>> \in Pending \/ <<"delete", s>> \in Pending
BridgeInv == OfferInv /\ AllOffered

ServiceOps == {"offer", "withdraw", "delete", "remove_bridges"}

(* While something else is at hand, nothing of this is. *)
LEMMA NoOffers ==
  ASSUME TypeOK, Sorted(todo), NEW C, Does(C), Head(todo)[1] \notin ServiceOps
  PROVE  \A f \in Pending : f[1] \notin {"offer", "withdraw", "delete"}
<1>1. \A f \in Rest : MayPrecede(Head(todo), f)
  BY DEF Does
<1>2. \A f \in Rest : f[1] \notin {"offer", "withdraw", "delete"}
  BY <1>1 DEF MayPrecede, ServiceOps
<1> QED BY <1>2 DEF Does, ServiceOps

LEMMA ApartDoes ==
  ASSUME TypeOK, Sorted(todo), BridgeInv, NEW C, Does(C), UNCHANGED servicevars,
         Head(todo)[1] \notin ServiceOps, \A e \in C : e[1] \notin ServiceOps
  PROVE  BridgeInv'
<1>1. \A f \in Pending : f[1] \notin {"offer", "withdraw", "delete"}
  BY NoOffers
<1>2. Pending = {Head(todo)} \cup Rest /\ Pending' = C \cup Rest
  BY DEF Does
<1>3. \A f \in Pending' : f[1] \notin {"offer", "withdraw", "delete"}
  BY <1>1, <1>2 DEF ServiceOps
<1>4. <<"remove_bridges">> \in Pending => <<"remove_bridges">> \in Pending'
  BY <1>2 DEF ServiceOps
<1>5. OfferInv'
  BY <1>3 DEF BridgeInv, OfferInv, servicevars
<1>6. AllOffered'
  BY <1>1, <1>4 DEF BridgeInv, AllOffered, servicevars
<1> QED BY <1>5, <1>6 DEF BridgeInv

LEMMA ApartStarts ==
  ASSUME BridgeInv, NEW C, Starts(C), UNCHANGED servicevars,
         \A e \in C : e[1] \notin {"offer", "withdraw", "delete"}
  PROVE  BridgeInv'
<1>1. Pending = {} /\ Pending' = C
  BY DEF Starts
<1>2. OfferInv'
  BY <1>1 DEF BridgeInv, OfferInv, servicevars
<1>3. AllOffered'
  BY <1>1 DEF BridgeInv, AllOffered, servicevars
<1> QED BY <1>2, <1>3 DEF BridgeInv

(* What is left to do after an exception. *)
LEMMA AfterThrow ==
  ASSUME TypeOK, Sorted(todo), Throws
  PROVE  \/ Pending' = Exit
         \/ /\ Pending' \subseteq Pending /\ <<"catch">> \in Pending
            /\ <<"remove_bridges">> \in Pending => <<"remove_bridges">> \in Pending'
<1>1. todo \in Seq(Entries) /\ Len(todo) \in Nat
  BY DEF TypeOK
<1>2. Pending = {todo[i] : i \in 1 .. Len(todo)}
  BY <1>1, ElementsOf DEF Pending
<1>3. CASE GivesUp
  BY <1>3 DEF GivesUp
<1>4. ASSUME NEW n \in 1 .. Len(todo), Catches(n)
      PROVE  /\ Pending' \subseteq Pending /\ <<"catch">> \in Pending
             /\ <<"remove_bridges">> \in Pending => <<"remove_bridges">> \in Pending'
  <2>1. todo[n] = <<"catch">> /\ Pending' = {todo[i] : i \in n + 1 .. Len(todo)}
    BY <1>4 DEF Catches
  <2>2. \A i \in n + 1 .. Len(todo) : i \in 1 .. Len(todo)
    BY <1>1
  <2>3. \A i \in 1 .. n - 1 : i \in 1 .. Len(todo) /\ i < n
    BY <1>1
  <2>4. \A i \in 1 .. n - 1 : todo[i] # <<"remove_bridges">>
    <3> TAKE i \in 1 .. n - 1
    <3>1. MayPrecede(todo[i], todo[n])
      BY <2>3 DEF Sorted
    <3> QED BY <2>1, <3>1 DEF MayPrecede
  <2>5. \A i \in 1 .. Len(todo) : todo[i] = <<"remove_bridges">> => i \in n + 1 .. Len(todo)
    <3> SUFFICES ASSUME NEW i \in 1 .. Len(todo), todo[i] = <<"remove_bridges">>
                 PROVE  i \in n + 1 .. Len(todo)
      OBVIOUS
    <3>1. i # n
      BY <2>1
    <3>2. ~(i \in 1 .. n - 1)
      BY <2>4
    <3> QED BY <1>1, <3>1, <3>2
  <2> QED BY <1>2, <2>1, <2>2, <2>5
<1> QED BY <1>3, <1>4 DEF Throws

LEMMA ApartThrows ==
  ASSUME TypeOK, Sorted(todo), BridgeInv, Throws, UNCHANGED servicevars,
         \A f \in Pending : f[1] \notin {"offer", "withdraw", "delete"}
  PROVE  BridgeInv'
<1>1. \/ Pending' = Exit
      \/ /\ Pending' \subseteq Pending
         /\ <<"remove_bridges">> \in Pending => <<"remove_bridges">> \in Pending'
  BY AfterThrow
<1>2. \A f \in Exit : f[1] \notin {"offer", "withdraw", "delete"}
  BY DEF Exit
<1>3. \A f \in Pending' : f[1] \notin {"offer", "withdraw", "delete"}
  BY <1>1, <1>2
<1>4. <<"remove_bridges">> \in Pending => <<"remove_bridges">> \in Pending'
  BY <1>1 DEF Exit
<1>5. OfferInv'
  BY <1>3 DEF BridgeInv, OfferInv, servicevars
<1>6. AllOffered'
  BY <1>4 DEF BridgeInv, AllOffered, servicevars
<1> QED BY <1>5, <1>6 DEF BridgeInv

LEMMA Heads ==
  ASSUME TypeOK, Sorted(todo), todo # <<>>
  PROVE  Pending = {Head(todo)} \cup Rest /\ \A f \in Rest : MayPrecede(Head(todo), f)
<1> DEFINE h == Head(todo)
           t == Tail(todo)
<1>1. /\ h = todo[1] /\ t \in Seq(Entries) /\ todo \in Seq(Entries)
      /\ Len(t) = Len(todo) - 1 /\ Len(todo) \in Nat \ {0}
      /\ \A i \in 1 .. Len(t) : t[i] = todo[i + 1]
  BY HeadTailProperties, EmptySeq DEF TypeOK
<1>2. ToSet(t) = {t[i] : i \in 1 .. Len(t)} /\ Pending = {todo[i] : i \in 1 .. Len(todo)}
  BY <1>1, ElementsOf DEF Pending
<1> HIDE DEF h, t
<1>3. \A i \in 1 .. Len(t) : MayPrecede(h, t[i])
  <2> TAKE i \in 1 .. Len(t)
  <2>1. 1 \in 1 .. Len(todo) /\ i + 1 \in 1 .. Len(todo) /\ 1 < i + 1
    BY <1>1
  <2> QED BY <1>1, <2>1 DEF Sorted
<1>4. \A i \in 1 .. Len(todo) : i = 1 \/ (i - 1 \in 1 .. Len(t) /\ todo[i] = t[i - 1])
  <2> TAKE i \in 1 .. Len(todo)
  <2>1. CASE i # 1
    <3>1. i - 1 \in 1 .. Len(t) /\ (i - 1) + 1 = i
      BY <1>1, <2>1
    <3> QED BY <1>1, <3>1
  <2> QED BY <2>1
<1>5. \A i \in 1 .. Len(t) : i + 1 \in 1 .. Len(todo) /\ todo[i + 1] = t[i]
  BY <1>1
<1>6. 1 \in 1 .. Len(todo)
  BY <1>1
<1>7. Pending = {h} \cup ToSet(t)
  BY <1>1, <1>2, <1>4, <1>5, <1>6
<1> QED BY <1>2, <1>3, <1>7 DEF Rest, h, t

LEMMA AddServiceKeepsBridges ==
  ASSUME TypeOK, Sorted(todo), BridgeInv, AddService
  PROVE  BridgeInv'
<1>1. PICK s, g : s = Head(todo)[2] /\ g = Head(todo)[3]
  OBVIOUS
<1> DEFINE C == IF services[s] # 0 THEN {} ELSE {<<"offer", b, s>> : b \in bridge_map}
<1>2. /\ Head(todo) = <<"add_service", s, g>> /\ s \in Services /\ g \in Objects
      /\ Does(C)
  BY <1>1, AddServiceDoes
<1>3. UNCHANGED <<bridge_map, offered, refused, hidden>>
  BY DEF AddService
<1>4. \A f \in Pending : f[1] \notin {"offer", "withdraw", "delete"}
  <2> HIDE DEF C
  <2> QED BY <1>2, NoOffers DEF ServiceOps
<1>5. Pending = {Head(todo)} \cup Rest /\ Pending' = C \cup Rest
  BY <1>2 DEF Does
<1>6. <<"remove_bridges">> \in Pending => <<"remove_bridges">> \in Pending'
  BY <1>2, <1>5
<1>7. CASE services[s] # 0
  <2>1. UNCHANGED servicevars
    BY <1>1, <1>3, <1>7 DEF AddService, servicevars
  <2> QED BY <1>2, <1>7, <2>1, ApartDoes DEF ServiceOps
<1>8. CASE services[s] = 0
  <2>1. services' = [services EXCEPT ![s] = g]
    BY <1>1, <1>8 DEF AddService
  <2>2. services'[s] # 0 /\ \A t \in Services : t # s => services'[t] = services[t]
    BY <1>2, <2>1 DEF TypeOK, Objects
  <2>3. \A f \in Pending' : f[1] \notin {"withdraw", "delete"}
    BY <1>4, <1>5, <1>8
  <2>4. \A b \in Bridges, t \in Services :
          <<"offer", b, t>> \in Pending' <=> t = s /\ b \in bridge_map
    BY <1>4, <1>5, <1>8
  <2>5. OfferInv'
    <3>1. \A b \in Bridges : \A t \in offered[b] : t \in Services /\ services'[t] # 0
      BY <2>2 DEF TypeOK, BridgeInv, OfferInv
    <3> QED BY <1>3, <2>2, <2>3, <2>4, <3>1 DEF BridgeInv, OfferInv
  <2>6. AllOffered'
    <3> SUFFICES ASSUME <<"remove_bridges">> \notin Pending',
                        NEW b \in bridge_map, NEW t \in Services, services'[t] # 0
                 PROVE  t \in offered[b] \cup refused \cup hidden \/ <<"offer", b, t>> \in Pending'
      BY <1>3 DEF AllOffered
    <3>1. b \in Bridges
      BY DEF TypeOK
    <3>2. CASE t = s
      BY <2>4, <3>1, <3>2
    <3>3. CASE t # s
      BY <1>4, <1>6, <2>2, <3>3 DEF BridgeInv, AllOffered
    <3> QED BY <3>2, <3>3
  <2> QED BY <2>5, <2>6 DEF BridgeInv
<1> QED BY <1>7, <1>8

LEMMA OfferKeepsBridges ==
  ASSUME TypeOK, Sorted(todo), BridgeInv, Offer
  PROVE  BridgeInv'
<1>1. PICK b, s : b = Head(todo)[2] /\ s = Head(todo)[3]
  OBVIOUS
<1>2. /\ Head(todo) = <<"offer", b, s>> /\ b \in Bridges /\ s \in Services
      /\ Does({})
  BY <1>1, OfferDoes
<1>3. UNCHANGED <<services, bridge_map, refused, hidden>>
  BY DEF Offer
<1>4. Pending = {Head(todo)} \cup Rest /\ Pending' = Rest
  BY <1>2 DEF Does
<1>5. \A f \in Pending : f[1] \notin {"withdraw", "delete"}
  BY <1>2, <1>4 DEF Does, MayPrecede
<1>6. services[s] # 0 /\ b \in bridge_map
  BY <1>2, <1>4 DEF BridgeInv, OfferInv
<1>7. offered' = [offered EXCEPT ![b] = @ \cup {s}]
  BY <1>1 DEF Offer
<1>8. /\ offered'[b] = offered[b] \cup {s}
      /\ \A c \in Bridges : c # b => offered'[c] = offered[c]
  BY <1>2, <1>7 DEF TypeOK
<1>9. Pending' \subseteq Pending
  BY <1>4
<1>10. OfferInv'
  <2>1. \A c \in Bridges : \A t \in offered'[c] : services[t] # 0
    BY <1>6, <1>8 DEF BridgeInv, OfferInv
  <2>2. \A c \in Bridges \ bridge_map : offered'[c] = {}
    BY <1>6, <1>8 DEF BridgeInv, OfferInv
  <2>3. \A c \in Bridges, t \in Services :
          <<"offer", c, t>> \in Pending' => services[t] # 0 /\ c \in bridge_map
    BY <1>9 DEF BridgeInv, OfferInv
  <2>4. \A f \in Pending' : f[1] \notin {"withdraw", "delete"}
    BY <1>5, <1>9
  <2>5. \A c, e \in Bridges, t, u \in Services :
          <<"offer", c, t>> \in Pending' /\ <<"offer", e, u>> \in Pending' =>
            t = u \/ <<"catch">> \notin Pending'
    BY <1>9 DEF BridgeInv, OfferInv
  <2> QED BY <1>3, <2>1, <2>2, <2>3, <2>4, <2>5 DEF OfferInv
<1>11. AllOffered'
  <2> SUFFICES ASSUME <<"remove_bridges">> \notin Pending',
                      NEW c \in bridge_map, NEW t \in Services, services[t] # 0
               PROVE  t \in offered'[c] \cup refused \cup hidden \/ <<"offer", c, t>> \in Pending'
    BY <1>3 DEF AllOffered
  <2>1. <<"remove_bridges">> \notin Pending
    BY <1>2, <1>4
  <2>2. c \in Bridges
    BY DEF TypeOK
  <2>3. t \in offered[c] \cup refused \cup hidden \/ <<"offer", c, t>> \in Pending
    BY <1>5, <2>1 DEF BridgeInv, AllOffered
  <2>4. CASE <<"offer", c, t>> \in Pending \ Pending'
    <3>1. c = b /\ t = s
      BY <1>2, <1>4, <2>4
    <3> QED BY <1>8, <3>1
  <2>5. offered[c] \subseteq offered'[c]
    BY <1>8, <2>2
  <2> QED BY <2>3, <2>4, <2>5
<1> QED BY <1>10, <1>11 DEF BridgeInv

LEMMA RefuseKeepsBridges ==
  ASSUME TypeOK, Sorted(todo), BridgeInv, Refuse
  PROVE  BridgeInv'
<1>1. PICK b, s : b = Head(todo)[2] /\ s = Head(todo)[3]
  OBVIOUS
<1>2. /\ Throws /\ todo # <<>>
      /\ Head(todo) = <<"offer", b, s>> /\ b \in Bridges /\ s \in Services
  BY <1>1, RefuseThrows
<1>3. UNCHANGED <<services, bridge_map, offered, hidden>> /\ refused' = refused \cup {s}
  BY <1>1 DEF Refuse
<1>4. Pending = {Head(todo)} \cup Rest /\ \A f \in Rest : MayPrecede(Head(todo), f)
  BY <1>2, Heads
<1>5. \A f \in Pending : f[1] \notin {"withdraw", "delete"}
  BY <1>2, <1>4 DEF MayPrecede
<1>6. \/ Pending' = Exit
      \/ /\ Pending' \subseteq Pending /\ <<"catch">> \in Pending
         /\ <<"remove_bridges">> \in Pending => <<"remove_bridges">> \in Pending'
  BY <1>2, AfterThrow
<1>7. \A f \in Exit : f[1] \notin {"offer", "withdraw", "delete"}
  BY DEF Exit
<1>8. \A f \in Pending' : f[1] \notin {"withdraw", "delete"}
  BY <1>5, <1>6, <1>7
<1>9. \A c \in Bridges, t \in Services :
        <<"offer", c, t>> \in Pending' => <<"offer", c, t>> \in Pending
  BY <1>6, <1>7
<1>10. OfferInv'
  <2>1. \A c, e \in Bridges, t, u \in Services :
          <<"offer", c, t>> \in Pending' /\ <<"offer", e, u>> \in Pending' => t = u
    BY <1>6, <1>7, <1>9 DEF BridgeInv, OfferInv
  <2> QED BY <1>3, <1>8, <1>9, <2>1 DEF BridgeInv, OfferInv
<1>11. AllOffered'
  <2>1. CASE Pending' = Exit
    BY <2>1 DEF AllOffered, Exit
  <2>2. CASE Pending' # Exit
    <3> SUFFICES ASSUME <<"remove_bridges">> \notin Pending',
                        NEW c \in bridge_map, NEW t \in Services, services[t] # 0
                 PROVE  t \in offered[c] \cup refused' \cup hidden
      BY <1>3 DEF AllOffered
    <3>1. <<"remove_bridges">> \notin Pending /\ <<"catch">> \in Pending
      BY <1>6, <2>2
    <3>2. t \in offered[c] \cup refused \cup hidden \/ <<"offer", c, t>> \in Pending
      BY <1>5, <3>1 DEF BridgeInv, AllOffered
    <3>3. c \in Bridges
      BY DEF TypeOK
    <3>4. <<"offer", c, t>> \in Pending => t = s
      BY <1>2, <1>4, <3>1, <3>3 DEF BridgeInv, OfferInv
    <3> QED BY <1>3, <3>2, <3>4
  <2> QED BY <2>1, <2>2
<1> QED BY <1>10, <1>11 DEF BridgeInv

LEMMA RemoveServiceKeepsBridges ==
  ASSUME TypeOK, Sorted(todo), BridgeInv, RemoveService
  PROVE  BridgeInv'
<1>1. PICK s : s = Head(todo)[2]
  OBVIOUS
<1> DEFINE C == IF services[s] = 0 THEN {}
                ELSE {<<"withdraw", b, s>> : b \in bridge_map} \cup {<<"delete", s>>}
<1>2. Head(todo) = <<"remove_service", s>> /\ s \in Services /\ Does(C)
  BY <1>1, RemoveServiceDoes
<1>3. UNCHANGED servicevars
  BY DEF RemoveService
<1>4. \A f \in Pending : f[1] \notin {"offer", "withdraw", "delete"}
  <2> HIDE DEF C
  <2> QED BY <1>2, NoOffers DEF ServiceOps
<1>5. Pending = {Head(todo)} \cup Rest /\ Pending' = C \cup Rest
  BY <1>2 DEF Does
<1>6. CASE services[s] = 0
  BY <1>2, <1>3, <1>6, ApartDoes DEF ServiceOps
<1>7. CASE services[s] # 0
  <2>1. \A f \in Pending' : f[1] # "offer"
    BY <1>4, <1>5, <1>7
  <2>2. \A t \in Services : <<"delete", t>> \in Pending' <=> t = s
    BY <1>4, <1>5, <1>7
  <2>3. \A b \in Bridges, t \in Services :
          <<"withdraw", b, t>> \in Pending' <=> t = s /\ b \in bridge_map
    BY <1>4, <1>5, <1>7
  <2>4. <<"remove_bridges">> \in Pending => <<"remove_bridges">> \in Pending'
    BY <1>2, <1>5
  <2>5. OfferInv'
    BY <1>2, <1>3, <2>1, <2>2, <2>3 DEF BridgeInv, OfferInv, servicevars
  <2>6. AllOffered'
    BY <1>3, <1>4, <2>4 DEF BridgeInv, AllOffered, servicevars
  <2> QED BY <2>5, <2>6 DEF BridgeInv
<1> QED BY <1>6, <1>7

LEMMA WithdrawKeepsBridges ==
  ASSUME TypeOK, Sorted(todo), BridgeInv, Withdraw
  PROVE  BridgeInv'
<1>1. PICK b, s : b = Head(todo)[2] /\ s = Head(todo)[3]
  OBVIOUS
<1>2. /\ Head(todo) = <<"withdraw", b, s>> /\ b \in Bridges /\ s \in Services
      /\ Does({})
  BY <1>1, WithdrawDoes
<1>3. UNCHANGED <<services, bridge_map, refused, hidden>>
  BY DEF Withdraw
<1>4. Pending = {Head(todo)} \cup Rest /\ Pending' = Rest
  BY <1>2 DEF Does
<1>5. \A f \in Pending : f[1] # "offer"
  BY <1>2, <1>4 DEF Does, MayPrecede
<1>6. offered' = [offered EXCEPT ![b] = @ \ {s}]
  BY <1>1 DEF Withdraw
<1>7. /\ offered'[b] = offered[b] \ {s}
      /\ \A c \in Bridges : c # b => offered'[c] = offered[c]
  BY <1>2, <1>6 DEF TypeOK
<1>8. \A c \in Bridges : offered'[c] \subseteq offered[c]
  BY <1>7
<1>9. Pending' \subseteq Pending
  BY <1>4
<1>10. \A f \in Pending : f # <<"withdraw", b, s>> => f \in Pending'
  BY <1>2, <1>4
<1>11. OfferInv'
  <2>1. \A c \in Bridges : \A t \in offered'[c] : services[t] # 0
    BY <1>8 DEF BridgeInv, OfferInv
  <2>2. \A c \in Bridges \ bridge_map : offered'[c] = {}
    BY <1>8 DEF BridgeInv, OfferInv
  <2>3. \A t \in Services : <<"delete", t>> \in Pending' =>
          \A c \in Bridges : t \in offered'[c] => <<"withdraw", c, t>> \in Pending'
    <3> SUFFICES ASSUME NEW t \in Services, <<"delete", t>> \in Pending',
                        NEW c \in Bridges, t \in offered'[c]
                 PROVE  <<"withdraw", c, t>> \in Pending'
      OBVIOUS
    <3>1. <<"withdraw", c, t>> \in Pending
      BY <1>8, <1>9 DEF BridgeInv, OfferInv
    <3>2. ~(c = b /\ t = s)
      BY <1>7
    <3> QED BY <1>10, <3>1, <3>2
  <2>4. \A c \in Bridges, t \in Services : <<"withdraw", c, t>> \in Pending' =>
          t \in hidden \/ <<"delete", t>> \in Pending'
    BY <1>9, <1>10 DEF BridgeInv, OfferInv
  <2> QED BY <1>3, <1>5, <1>9, <2>1, <2>2, <2>3, <2>4 DEF OfferInv
<1>12. AllOffered'
  <2> SUFFICES ASSUME <<"remove_bridges">> \notin Pending',
                      NEW c \in bridge_map, NEW t \in Services, services[t] # 0
               PROVE  t \in offered'[c] \cup refused \cup hidden \/ <<"delete", t>> \in Pending'
    BY <1>3 DEF AllOffered
  <2>1. <<"remove_bridges">> \notin Pending
    BY <1>10
  <2>2. t \in offered[c] \cup refused \cup hidden \/ <<"delete", t>> \in Pending
    BY <1>5, <2>1 DEF BridgeInv, AllOffered
  <2>3. c \in Bridges
    BY DEF TypeOK
  <2>4. CASE c = b /\ t = s
    <3>1. s \in hidden \/ <<"delete", s>> \in Pending
      BY <1>2, <1>4 DEF BridgeInv, OfferInv
    <3> QED BY <1>10, <2>4, <3>1
  <2>5. CASE ~(c = b /\ t = s)
    BY <1>7, <1>10, <2>2, <2>3, <2>5
  <2> QED BY <2>4, <2>5
<1> QED BY <1>11, <1>12 DEF BridgeInv

LEMMA DeleteKeepsBridges ==
  ASSUME TypeOK, Sorted(todo), BridgeInv, Delete
  PROVE  BridgeInv'
<1>1. PICK s : s = Head(todo)[2]
  OBVIOUS
<1>2. Head(todo) = <<"delete", s>> /\ s \in Services /\ Does({})
  BY <1>1, DeleteDoes
<1>3. UNCHANGED <<bridge_map, offered>>
  BY DEF Delete
<1>4. Pending = {Head(todo)} \cup Rest /\ Pending' = Rest
  BY <1>2 DEF Does
<1>5. \A f \in Rest : f[1] \notin {"offer", "withdraw", "delete"}
  BY <1>2 DEF Does, MayPrecede
<1>6. services' = [services EXCEPT ![s] = 0] /\ refused' = refused \ {s} /\ hidden' = hidden \ {s}
  BY <1>1 DEF Delete
<1>7. services'[s] = 0 /\ \A t \in Services : t # s => services'[t] = services[t]
  BY <1>2, <1>6 DEF TypeOK
<1>8. \A b \in Bridges : s \notin offered[b]
  <2>1. \A b \in Bridges : <<"withdraw", b, s>> \notin Pending
    BY <1>2, <1>4, <1>5
  <2> QED BY <1>2, <1>4, <2>1 DEF BridgeInv, OfferInv
<1>9. OfferInv'
  <2>1. \A b \in Bridges : \A t \in offered[b] : services'[t] # 0
    <3> SUFFICES ASSUME NEW b \in Bridges, NEW t \in offered[b] PROVE services'[t] # 0
      OBVIOUS
    <3>1. t \in Services /\ t # s /\ services[t] # 0
      BY <1>8 DEF TypeOK, BridgeInv, OfferInv
    <3> QED BY <1>7, <3>1
  <2> QED BY <1>3, <1>4, <1>5, <2>1 DEF BridgeInv, OfferInv
<1>10. AllOffered'
  <2> SUFFICES ASSUME <<"remove_bridges">> \notin Pending',
                      NEW b \in bridge_map, NEW t \in Services, services'[t] # 0
               PROVE  t \in offered[b] \cup refused' \cup hidden'
    BY <1>3 DEF AllOffered
  <2>1. <<"remove_bridges">> \notin Pending
    BY <1>2, <1>4
  <2>2. t # s /\ services[t] # 0
    BY <1>7
  <2>3. <<"offer", b, t>> \notin Pending /\ <<"delete", t>> \notin Pending
    BY <1>2, <1>4, <1>5, <2>2
  <2>4. t \in offered[b] \cup refused \cup hidden
    BY <2>1, <2>2, <2>3 DEF BridgeInv, AllOffered
  <2> QED BY <1>6, <2>2, <2>4
<1> QED BY <1>9, <1>10 DEF BridgeInv

LEMMA RemoveBridgesKeepsBridges ==
  ASSUME TypeOK, Sorted(todo), BridgeInv, RemoveBridges
  PROVE  BridgeInv'
<1>1. Head(todo) = <<"remove_bridges">> /\ Does({})
  BY RemoveBridgesDoes
<1>2. Pending' = Rest /\ \A f \in Rest : MayPrecede(Head(todo), f)
  BY <1>1 DEF Does
<1>3. \A f \in Pending' : f[1] \notin {"offer", "withdraw", "delete"}
  BY <1>1, <1>2 DEF MayPrecede
<1>4. bridge_map' = {} /\ \A b \in Bridges : offered'[b] = {}
  BY DEF RemoveBridges
<1> QED BY <1>3, <1>4 DEF BridgeInv, OfferInv, AllOffered

LEMMA CallByOwnerKeepsBridges ==
  ASSUME TypeOK, BridgeInv, NEW s \in Services, CallByOwner(s)
  PROVE  BridgeInv'
<1>1. Starts({<<"withdraw", b, s>> : b \in bridge_map})
  BY CallByOwnerStarts
<1>2. Pending = {} /\ Pending' = {<<"withdraw", b, s>> : b \in bridge_map}
  BY <1>1 DEF Starts
<1>3. UNCHANGED <<services, bridge_map, offered, refused>> /\ hidden' = hidden \cup {s}
  BY DEF CallByOwner
<1>4. OfferInv'
  BY <1>2, <1>3 DEF BridgeInv, OfferInv
<1>5. AllOffered'
  BY <1>2, <1>3 DEF BridgeInv, AllOffered
<1> QED BY <1>4, <1>5 DEF BridgeInv

LEMMA AddBridgeKeepsBridges ==
  ASSUME TypeOK, BridgeInv, NEW b \in Bridges, AddBridge(b)
  PROVE  BridgeInv'
<1>1. Starts({<<"offer", b, s>> : s \in {x \in Services : services[x] # 0}})
  BY AddBridgeStarts
<1>2. /\ Pending = {}
      /\ Pending' = {<<"offer", b, s>> : s \in {x \in Services : services[x] # 0}}
  BY <1>1 DEF Starts
<1>3. UNCHANGED <<services, offered, refused, hidden>> /\ bridge_map' = bridge_map \cup {b}
  BY DEF AddBridge
<1>4. <<"catch">> \notin Pending' /\ \A f \in Pending' : f[1] = "offer"
  BY <1>2
<1>5. \A c \in Bridges, s \in Services :
        <<"offer", c, s>> \in Pending' <=> c = b /\ services[s] # 0
  BY <1>2
<1>6. OfferInv'
  BY <1>3, <1>4, <1>5 DEF BridgeInv, OfferInv
<1>7. AllOffered'
  <2> SUFFICES ASSUME NEW c \in bridge_map', NEW s \in Services, services[s] # 0
               PROVE  s \in offered[c] \cup refused \cup hidden \/ <<"offer", c, s>> \in Pending'
    BY <1>3 DEF AllOffered
  <2>1. CASE c = b
    BY <1>5, <2>1
  <2>2. CASE c # b
    BY <1>2, <1>3, <2>2 DEF BridgeInv, AllOffered
  <2> QED BY <2>1, <2>2
<1> QED BY <1>6, <1>7 DEF BridgeInv

LEMMA CallKeepsBridges ==
  ASSUME TypeOK, Sorted(todo), BridgeInv, Call
  PROVE  BridgeInv'
<1>1. ASSUME NEW l \in Hearers, AddListener(l)
      PROVE  BridgeInv'
  <2>1. Starts({<<"notify_add", l, d, device_map[d]>> : d \in Registered})
    BY <1>1, AddListenerStarts
  <2>2. UNCHANGED servicevars
    BY <1>1 DEF AddListener
  <2> QED BY <2>1, <2>2, ApartStarts
<1>2. ASSUME NEW l \in Listeners, CallRemoveListener(l)
      PROVE  BridgeInv'
  <2>1. Starts({<<"remove_listener", l>>}) /\ UNCHANGED servicevars
    BY <1>2, CallRemoveListenerStarts DEF CallRemoveListener
  <2> QED BY <2>1, ApartStarts
<1>3. ASSUME NEW o \in Owners, NEW end \in {<<>>, << <<"catch">> >>}, load_module(o, end)
      PROVE  BridgeInv'
  <2> DEFINE C == Given(o, objects')
                  \cup {<<"configure", o>>, <<"add_service", <<o, "own">>, objects'>>,
                        <<"loaded", o, objects'>>} \cup ToSet(end)
  <2>1. Starts(C) /\ UNCHANGED servicevars
    BY <1>3, LoadStarts DEF load_module
  <2>2. ToSet(end) \subseteq {<<"catch">>}
    BY Nothing, Single, Made
  <2>3. \A e \in C : e[1] \notin {"offer", "withdraw", "delete"}
    BY <2>2 DEF Given
  <2> HIDE DEF C
  <2> QED BY <2>1, <2>3, ApartStarts
<1>4. ASSUME NEW o \in Owners, svc_reconfigure_module(o)
      PROVE  BridgeInv'
  <2> DEFINE C == Taken(o) \cup Given(o, objects')
                  \cup {<<"configure", o>>, <<"reconfigured", o, objects'>>, <<"catch">>}
  <2>1. Starts(C) /\ UNCHANGED servicevars
    BY <1>4, ReconfigureStarts DEF svc_reconfigure_module
  <2>2. \A e \in C : e[1] \notin {"offer", "withdraw", "delete"}
    BY DEF Given, Taken
  <2> HIDE DEF C
  <2> QED BY <2>1, <2>2, ApartStarts
<1>5. ASSUME NEW o \in Owners, svc_remove_module(o)
      PROVE  BridgeInv'
  <2>1. Starts({<<"unload", o>>}) /\ UNCHANGED servicevars
    BY <1>5, RemoveModuleStarts DEF svc_remove_module
  <2> QED BY <2>1, ApartStarts
<1>6. CASE ReadConfig
  <2>1. Starts({}) /\ UNCHANGED servicevars
    BY <1>6, ReadConfigStarts DEF ReadConfig
  <2> QED BY <2>1, ApartStarts
<1>7. CASE NextPhase
  <2> DEFINE C == IF phase = "providers" THEN {<<"add_service", <<Kernel, "own">>, 1>>} ELSE {}
  <2>1. Starts(C) /\ UNCHANGED servicevars
    BY <1>7, NextPhaseStarts DEF NextPhase
  <2>2. \A e \in C : e[1] \notin {"offer", "withdraw", "delete"}
    OBVIOUS
  <2> HIDE DEF C
  <2> QED BY <2>1, <2>2, ApartStarts
<1>8. CASE ConfigFails
  <2>1. Throws /\ Pending = {} /\ UNCHANGED servicevars
    BY <1>8, ConfigFailsThrows, Nothing DEF ConfigFails, Pending
  <2> QED BY <2>1, ApartThrows
<1>9. CASE Shutdown
  <2>1. Starts(Exit) /\ UNCHANGED servicevars
    BY <1>9, ShutdownStarts DEF Shutdown
  <2>2. \A e \in Exit : e[1] \notin {"offer", "withdraw", "delete"}
    BY DEF Exit
  <2> QED BY <2>1, <2>2, ApartStarts
<1> QED BY <1>1, <1>2, <1>3, <1>4, <1>5, <1>6, <1>7, <1>8, <1>9,
           CallByOwnerKeepsBridges, AddBridgeKeepsBridges, CalledAssumption
        DEF Call, CallAddListener, AddProvider, CreateModule, svc_add_module, Hearers

LEMMA DeviceStepKeepsBridges ==
  ASSUME TypeOK, Sorted(todo), BridgeInv, DeviceStep
  PROVE  BridgeInv'
<1>1. UNCHANGED servicevars
  BY DEF DeviceStep, AddDevice, RemoveDevice, EraseDevice, RemoveDevices, Notify,
         NotifyProvider, NewHandler, DeleteHandler, EndOfTry, RemoveListener, EraseListener
<1>2. CASE AddDevice
  <2>1. PICK d, g : d = Head(todo)[2] /\ g = Head(todo)[3]
    OBVIOUS
  <2>2. /\ Head(todo) = <<"add_device", d, g>>
        /\ Does(IF device_map[d] # 0 THEN {}
                ELSE TriggerToo("add_device", d, g) \cup ToldTo("notify_add", d, g))
    BY <1>2, <2>1, AddDeviceDoes
  <2>3. \A e \in TriggerToo("add_device", d, g) \cup ToldTo("notify_add", d, g) :
          e[1] \notin ServiceOps
    BY DEF TriggerToo, ToldTo, ServiceOps
  <2>4. Head(todo)[1] \notin ServiceOps
    BY <2>2 DEF ServiceOps
  <2> QED BY <1>1, <2>2, <2>3, <2>4, ApartDoes
<1>3. CASE RemoveDevice
  <2>1. PICK d, g : d = Head(todo)[2] /\ g = Head(todo)[3]
    OBVIOUS
  <2> DEFINE C == TriggerToo("remove_device", d, g) \cup ToldTo("notify_remove", d, g)
                  \cup {<<"erase", d>>}
  <2>2. Head(todo) = <<"remove_device", d, g>> /\ Does(C)
    BY <1>3, <2>1, RemoveDeviceDoes
  <2>3. Head(todo)[1] \notin ServiceOps /\ \A e \in C : e[1] \notin ServiceOps
    BY <2>2 DEF TriggerToo, ToldTo, ServiceOps
  <2> HIDE DEF C
  <2> QED BY <1>1, <2>2, <2>3, ApartDoes
<1>4. CASE EraseDevice
  <2>1. Does({}) /\ Head(todo)[1] = "erase"
    BY <1>4, EraseDeviceDoes
  <2> QED BY <1>1, <2>1, ApartDoes DEF ServiceOps
<1>5. CASE RemoveDevices
  <2>1. Does({}) /\ Head(todo)[1] = "remove_devices"
    BY <1>5, RemoveDevicesDoes
  <2> QED BY <1>1, <2>1, ApartDoes DEF ServiceOps
<1>6. CASE Notify
  <2>1. Does({}) /\ Head(todo)[1] \in {"notify_add", "notify_remove"}
    BY <1>6, NotifyDoes
  <2> QED BY <1>1, <2>1, ApartDoes DEF ServiceOps
<1>7. CASE NotifyProvider
  <2>1. PICK p, d, g : p = Head(todo)[2] /\ d = Head(todo)[3] /\ g = Head(todo)[4]
    OBVIOUS
  <2>2. \/ Head(todo) = <<"notify_add", p, d, g>> /\ Does(IF d[2] # "interface" THEN {} ELSE Handled(p, d[1], g))
        \/ Head(todo) = <<"notify_remove", p, d, g>> /\ Does(IF d[2] # "interface" THEN {} ELSE {<<"delete_handler", p, d[1]>>})
    BY <1>7, <2>1, NotifyProviderDoes
  <2>3. PICK C : Does(C) /\ \A e \in C : e[1] \notin ServiceOps
    <3>1. \A e \in Handled(p, d[1], g) : e[1] \notin ServiceOps
      BY DEF Handled, ServiceOps
    <3>2. <<"delete_handler", p, d[1]>>[1] \notin ServiceOps
      BY DEF ServiceOps
    <3> QED BY <2>2, <3>1, <3>2
  <2>4. Head(todo)[1] \notin ServiceOps
    BY <2>2 DEF ServiceOps
  <2> QED BY <1>1, <2>3, <2>4, ApartDoes
<1>8. CASE NewHandler
  <2>1. Does({}) /\ Head(todo)[1] = "new_handler"
    BY <1>8, NewHandlerDoes
  <2> QED BY <1>1, <2>1, ApartDoes DEF ServiceOps
<1>9. CASE DeleteHandler
  <2>1. PICK p, o : p = Head(todo)[2] /\ o = Head(todo)[3]
    OBVIOUS
  <2> DEFINE C == IF handlers[p][o] = 0 THEN {} ELSE {<<"remove_service", <<o, p>> >>}
  <2>2. Head(todo) = <<"delete_handler", p, o>> /\ Does(C)
    BY <1>9, <2>1, DeleteHandlerDoes
  <2>3. Head(todo)[1] \notin ServiceOps /\ \A e \in C : e[1] \notin ServiceOps
    BY <2>2 DEF ServiceOps
  <2> HIDE DEF C
  <2> QED BY <1>1, <2>2, <2>3, ApartDoes
<1>10. CASE EndOfTry
  <2>1. Does({}) /\ Head(todo)[1] = "catch"
    BY <1>10, EndOfTryDoes
  <2> QED BY <1>1, <2>1, ApartDoes DEF ServiceOps
<1>11. CASE RemoveListener
  <2>1. PICK l : l = Head(todo)[2]
    OBVIOUS
  <2> DEFINE C == {<<"notify_remove", l, d, device_map[d]>> : d \in Registered}
                  \cup {<<"erase_listener", l>>}
  <2>2. Head(todo) = <<"remove_listener", l>> /\ Does(C)
    BY <1>11, <2>1, RemoveListenerDoes
  <2>3. Head(todo)[1] \notin ServiceOps /\ \A e \in C : e[1] \notin ServiceOps
    BY <2>2 DEF ServiceOps
  <2> HIDE DEF C
  <2> QED BY <1>1, <2>2, <2>3, ApartDoes
<1>12. CASE EraseListener
  <2>1. Does({}) /\ Head(todo)[1] = "erase_listener"
    BY <1>12, EraseListenerDoes
  <2> QED BY <1>1, <2>1, ApartDoes DEF ServiceOps
<1> QED BY <1>2, <1>3, <1>4, <1>5, <1>6, <1>7, <1>8, <1>9, <1>10, <1>11, <1>12 DEF DeviceStep

LEMMA ServiceStepKeepsBridges ==
  ASSUME TypeOK, Sorted(todo), BridgeInv, ServiceStep
  PROVE  BridgeInv'
<1>1. CASE RemoveServices
  <2>1. PICK o : o = Head(todo)[2]
    OBVIOUS
  <2> DEFINE C == {<<"delete_handler", p, o>> : p \in dl_map \cap Providers} \cup {<<"remove_own", o>>}
  <2>2. Head(todo) = <<"remove_services", o>> /\ Does(C) /\ UNCHANGED servicevars
    BY <1>1, <2>1, RemoveServicesDoes DEF RemoveServices
  <2>3. Head(todo)[1] \notin ServiceOps /\ \A e \in C : e[1] \notin ServiceOps
    BY <2>2 DEF ServiceOps
  <2> HIDE DEF C
  <2> QED BY <2>2, <2>3, ApartDoes
<1>2. CASE RemoveOwn
  <2>1. PICK o : o = Head(todo)[2]
    OBVIOUS
  <2> DEFINE C == {<<"remove_service", s>> : s \in {x \in Services : x[1] = o}}
  <2>2. Head(todo) = <<"remove_own", o>> /\ Does(C) /\ UNCHANGED servicevars
    BY <1>2, <2>1, RemoveOwnDoes DEF RemoveOwn
  <2>3. Head(todo)[1] \notin ServiceOps /\ \A e \in C : e[1] \notin ServiceOps
    BY <2>2 DEF ServiceOps
  <2> HIDE DEF C
  <2> QED BY <2>2, <2>3, ApartDoes
<1> QED BY <1>1, <1>2, AddServiceKeepsBridges, OfferKeepsBridges, RefuseKeepsBridges,
           RemoveServiceKeepsBridges, WithdrawKeepsBridges, DeleteKeepsBridges,
           RemoveBridgesKeepsBridges DEF ServiceStep

LEMMA ModuleStepKeepsBridges ==
  ASSUME TypeOK, Sorted(todo), BridgeInv, ModuleStep
  PROVE  BridgeInv'
<1>1. UNCHANGED servicevars
  BY DEF ModuleStep, Configured, ConfigureFails, Loaded, Reconfigured, Unload, Unloaded
<1>2. CASE Configured
  <2>1. Does({}) /\ Head(todo)[1] = "configure"
    BY <1>2, ConfiguredDoes
  <2> QED BY <1>1, <2>1, ApartDoes DEF ServiceOps
<1>3. CASE ConfigureFails
  <2>1. Throws /\ todo # <<>> /\ Head(todo)[1] \in {"configure", "add_device"}
    BY <1>3, ConfigureFailsThrows
  <2>2. \A f \in Pending : f[1] \notin {"offer", "withdraw", "delete"}
    BY <2>1, Heads DEF MayPrecede
  <2> QED BY <1>1, <2>1, <2>2, ApartThrows
<1>4. CASE Loaded
  <2>1. Does({}) /\ Head(todo)[1] = "loaded"
    BY <1>4, LoadedDoes
  <2> QED BY <1>1, <2>1, ApartDoes DEF ServiceOps
<1>5. CASE Reconfigured
  <2>1. Does({}) /\ Head(todo)[1] = "reconfigured"
    BY <1>5, ReconfiguredDoes
  <2> QED BY <1>1, <2>1, ApartDoes DEF ServiceOps
<1>6. CASE Unload
  <2>1. PICK o : o = Head(todo)[2]
    OBVIOUS
  <2> DEFINE C == Taken(o) \cup {<<"remove_devices", o>>, <<"remove_services", o>>, <<"unloaded", o>>}
  <2>2. Head(todo) = <<"unload", o>> /\ Does(C)
    BY <1>6, <2>1, UnloadDoes
  <2>3. Head(todo)[1] \notin ServiceOps /\ \A e \in C : e[1] \notin ServiceOps
    BY <2>2 DEF ServiceOps, Taken
  <2> HIDE DEF C
  <2> QED BY <1>1, <2>2, <2>3, ApartDoes
<1>7. CASE Unloaded
  <2>1. Does({}) /\ Head(todo)[1] = "unloaded"
    BY <1>7, UnloadedDoes
  <2> QED BY <1>1, <2>1, ApartDoes DEF ServiceOps
<1> QED BY <1>2, <1>3, <1>4, <1>5, <1>6, <1>7 DEF ModuleStep

LEMMA OrderAndBridges == Spec => [](Ordered /\ BridgeInv)
<1>1. Init => Ordered /\ BridgeInv
  <2> SUFFICES ASSUME Init PROVE BridgeInv
    BY InitOrdered
  <2>1. Pending = {} /\ services = None(Services) /\ offered = [b \in Bridges |-> {}]
        /\ bridge_map = {}
    BY InitOrdered DEF Init
  <2> QED BY <2>1 DEF BridgeInv, OfferInv, AllOffered
<1>2. Ordered /\ BridgeInv /\ [Next]_vars => BridgeInv'
  <2> SUFFICES ASSUME Ordered, BridgeInv, [Next]_vars PROVE BridgeInv'
    OBVIOUS
  <2>1. TypeOK /\ Sorted(todo)
    BY DEF Ordered
  <2>2. CASE Next
    BY <2>1, <2>2, CallKeepsBridges, DeviceStepKeepsBridges, ServiceStepKeepsBridges,
       ModuleStepKeepsBridges DEF Next
  <2>3. CASE UNCHANGED vars
    BY <2>3 DEF BridgeInv, OfferInv, AllOffered, Pending, vars, modulevars, servicevars, devicevars
  <2> QED BY <2>2, <2>3
<1> QED BY <1>1, <1>2, CallsAreOrdered, PTL DEF Spec

(* A bridge never holds on to a service that has been deleted, and between *)
(* calls it offers every service, but those it has refused and those that  *)
(* were called by owner and name (kernel::add_service, remove_service,     *)
(* call_service, add_bridge).                                              *)
THEOREM BridgesMatchServicesAlways == Spec => []BridgesMatchServices
<1>1. Ordered /\ BridgeInv => BridgesMatchServices
  <2> SUFFICES ASSUME BridgeInv PROVE BridgesMatchServices
    OBVIOUS
  <2>1. Idle => Pending = {}
    BY Nothing DEF Idle, Pending
  <2> QED BY <2>1 DEF BridgeInv, OfferInv, AllOffered, BridgesMatchServices
<1> QED BY <1>1, OrderAndBridges, PTL

-----------------------------------------------------------------------------
(* Process data and their triggers. *)

Data(o)  == Device(o, "pd")
OwnClock(o) == Device(o, "trigger")

(* The owners whose process data generate their trigger. *)
Makers == {o \in Owners : ClockOf[o] = o}

(* A process data and the trigger it has generated are of the same object, *)
(* unless one of them is just being added or removed; a trigger is removed *)
(* within the removal of its process data; listeners are told of devices   *)
(* that are there.                                                         *)
ClockInv ==
  /\ \A o \in Makers :
       \/ device_map[Data(o)] = device_map[OwnClock(o)]
       \/ <<"erase", Data(o)>> \in Pending
       \/ <<"add_device", OwnClock(o), device_map[Data(o)]>> \in Pending
  /\ \A o \in Makers : <<"erase", Data(o)>> \in Pending =>
       \/ device_map[OwnClock(o)] = 0 \/ <<"erase", OwnClock(o)>> \in Pending
       \/ \E g \in Objects : <<"remove_device", OwnClock(o), g>> \in Pending
  /\ \A o \in Makers : <<"erase", OwnClock(o)>> \in Pending => <<"erase", Data(o)>> \in Pending
  /\ \A o \in Makers, g \in Objects :
       <<"remove_device", OwnClock(o), g>> \in Pending => <<"erase", Data(o)>> \in Pending
  /\ \A o \in Makers, g \in Objects : <<"add_device", OwnClock(o), g>> \in Pending =>
       device_map[OwnClock(o)] = 0 /\ device_map[Data(o)] = g
  /\ \A l \in Hearers, d \in Devices, g \in Objects :
       <<"notify_add", l, d, g>> \in Pending => device_map[d] = g

(* An entry that adds or removes a trigger, or erases a device. *)
OfClock(e) == e[1] = "erase" \/ (e[1] \in {"add_device", "remove_device"} /\ e[2][2] = "trigger")

LEMMA Clocks ==
  ASSUME NEW o \in Makers
  PROVE  /\ Data(o) \in Devices /\ OwnClock(o) \in Devices /\ Data(o) # OwnClock(o)
         /\ Data(o)[1] = o /\ Data(o)[2] = "pd" /\ OwnClock(o)[1] = o /\ OwnClock(o)[2] = "trigger"
         /\ \A d \in Devices : d[1] = o /\ d[2] = "pd" => d = Data(o)
         /\ \A d \in Devices : d[1] = o /\ d[2] = "trigger" => d = OwnClock(o)
         /\ \A q \in Makers : q # o => Data(q) # Data(o) /\ OwnClock(q) # OwnClock(o)
         /\ \A q \in Makers : Data(q) # OwnClock(o)
         /\ o \in Owners /\ Generates(Data(o)) /\ Clock(o) = OwnClock(o)
  BY DEF Data, OwnClock, Device, Devices, Makers, Generates, Clock

(* Without such entries, process data and trigger agree. *)
LEMMA NoClocks ==
  ASSUME ClockInv, \A f \in Pending : ~OfClock(f)
  PROVE  \A o \in Makers : device_map[Data(o)] = device_map[OwnClock(o)]
<1> TAKE o \in Makers
<1>1. <<"erase", Data(o)>> \notin Pending
  BY DEF OfClock
<1>2. <<"add_device", OwnClock(o), device_map[Data(o)]>> \notin Pending
  BY Clocks DEF OfClock
<1> QED BY <1>1, <1>2 DEF ClockInv

(* The rest of todo holds no entry that adds or removes a trigger. *)
LEMMA RestOfClocks ==
  ASSUME TypeOK, NEW C, Does(C)
  PROVE  \A f \in Rest : f[1] \in {"add_device", "remove_device"} => f[2][2] # "trigger"
  BY DEF Does, MayPrecede

LEMMA StillAgree ==
  ASSUME \A o \in Makers : device_map[Data(o)] = device_map[OwnClock(o)],
         UNCHANGED device_map, Pending' = Rest, \A f \in Rest : ~OfClock(f),
         \A l \in Hearers, d \in Devices, g \in Objects :
           <<"notify_add", l, d, g>> \in Rest => device_map[d] = g
  PROVE  ClockInv'
<1>1. \A o \in Makers : /\ <<"erase", Data(o)>> \notin Rest
                        /\ <<"erase", OwnClock(o)>> \notin Rest
                        /\ \A g \in Objects : <<"add_device", OwnClock(o), g>> \notin Rest
                        /\ \A g \in Objects : <<"remove_device", OwnClock(o), g>> \notin Rest
  BY Clocks DEF OfClock
<1> QED BY <1>1 DEF ClockInv

LEMMA AsideDoes ==
  ASSUME TypeOK, ClockInv, NEW C, Does(C), UNCHANGED device_map,
         Head(todo)[1] \notin {"add_device", "remove_device", "erase"},
         \A e \in C : e[1] # "notify_add" /\ ~OfClock(e)
  PROVE  ClockInv'
<1>1. /\ Pending = {Head(todo)} \cup Rest /\ Pending' = C \cup Rest
      /\ \A f \in Rest : f[1] \in {"add_device", "remove_device"} => f[2][2] # "trigger"
  BY RestOfClocks DEF Does
<1>2. \A d : <<"erase", d>> \in Pending <=> <<"erase", d>> \in Pending'
  BY <1>1 DEF OfClock
<1>3. \A o \in Makers : \A g :
        /\ <<"add_device", OwnClock(o), g>> \notin Pending /\ <<"add_device", OwnClock(o), g>> \notin Pending'
        /\ <<"remove_device", OwnClock(o), g>> \notin Pending
        /\ <<"remove_device", OwnClock(o), g>> \notin Pending'
  BY <1>1, Clocks DEF OfClock
<1>4. \A l, d, g : <<"notify_add", l, d, g>> \in Pending' => <<"notify_add", l, d, g>> \in Pending
  BY <1>1
<1> QED BY <1>2, <1>3, <1>4 DEF ClockInv

LEMMA AsideStarts ==
  ASSUME ClockInv, NEW C, Starts(C), UNCHANGED device_map,
         \A e \in C : ~OfClock(e) /\ (e[1] = "notify_add" => device_map[e[3]] = e[4])
  PROVE  ClockInv'
<1>1. Pending = {} /\ Pending' = C
  BY DEF Starts
<1>2. \A o \in Makers : device_map[Data(o)] = device_map[OwnClock(o)]
  BY <1>1, NoClocks
<1>3. /\ \A o \in Makers : /\ <<"erase", Data(o)>> \notin C /\ <<"erase", OwnClock(o)>> \notin C
                           /\ \A g \in Objects : <<"add_device", OwnClock(o), g>> \notin C
                           /\ \A g \in Objects : <<"remove_device", OwnClock(o), g>> \notin C
      /\ \A l \in Hearers, d \in Devices, g \in Objects :
           <<"notify_add", l, d, g>> \in C => device_map[d] = g
  BY Clocks DEF OfClock
<1> QED BY <1>1, <1>2, <1>3 DEF ClockInv

LEMMA AsideThrows ==
  ASSUME TypeOK, Sorted(todo), ClockInv, Throws, UNCHANGED device_map,
         \A f \in Pending : ~OfClock(f)
  PROVE  ClockInv'
<1>1. Pending' = Exit \/ Pending' \subseteq Pending
  BY AfterThrow
<1>2. \A f \in Exit : ~OfClock(f) /\ f[1] # "notify_add"
  BY DEF Exit, OfClock
<1>3. \A f \in Pending' : ~OfClock(f)
  BY <1>1, <1>2
<1>4. \A o \in Makers : device_map[Data(o)] = device_map[OwnClock(o)]
  BY NoClocks
<1>5. \A l \in Hearers, d \in Devices, g \in Objects :
        <<"notify_add", l, d, g>> \in Pending' => device_map[d] = g
  BY <1>1, <1>2 DEF ClockInv
<1>6. \A o \in Makers : /\ <<"erase", Data(o)>> \notin Pending'
                        /\ <<"erase", OwnClock(o)>> \notin Pending'
                        /\ \A g \in Objects : <<"add_device", OwnClock(o), g>> \notin Pending'
                        /\ \A g \in Objects : <<"remove_device", OwnClock(o), g>> \notin Pending'
  BY <1>3, Clocks DEF OfClock
<1> QED BY <1>4, <1>5, <1>6 DEF ClockInv

LEMMA AddDeviceKeepsClocks ==
  ASSUME TypeOK, Sorted(todo), ClockInv, AddDevice
  PROVE  ClockInv'
<1>1. PICK d, g : d = Head(todo)[2] /\ g = Head(todo)[3]
  OBVIOUS
<1> DEFINE C == IF device_map[d] # 0 THEN {}
                ELSE TriggerToo("add_device", d, g) \cup ToldTo("notify_add", d, g)
<1>2. /\ Head(todo) = <<"add_device", d, g>> /\ d \in Devices /\ g \in Objects /\ Does(C)
      /\ d \in Addable
  BY <1>1, AddDeviceDoes
<1>3. /\ Pending = {Head(todo)} \cup Rest /\ Pending' = C \cup Rest
      /\ \A f \in Rest : MayPrecede(Head(todo), f)
  BY <1>2 DEF Does
<1>4. \A f \in Rest : ~OfClock(f)
  BY <1>2, <1>3 DEF MayPrecede, OfClock, Removals, Dismissals, Releases
<1>5. /\ d[1] \in Owners /\ d = <<d[1], d[2]>> /\ d[2] \in {"pd", "trigger", "interface"}
      /\ d[2] = "trigger" => d[1] \in Makers
  BY <1>2, Named DEF Addable, Makers
<1>6. \A l \in Hearers, e \in Devices, h \in Objects :
        <<"notify_add", l, e, h>> \in Rest => device_map[e] = h
  BY <1>3 DEF ClockInv
<1>7. CASE device_map[d] # 0
  <2>1. d[2] # "trigger"
    <3> SUFFICES ASSUME d[2] = "trigger" PROVE FALSE
      OBVIOUS
    <3>1. d = OwnClock(d[1])
      BY <1>2, <1>5, Clocks
    <3> QED BY <1>2, <1>3, <1>5, <1>7, <3>1 DEF ClockInv
  <2>2. \A f \in Pending : ~OfClock(f)
    BY <1>2, <1>3, <1>4, <2>1 DEF OfClock
  <2>3. Pending' = Rest /\ UNCHANGED device_map
    BY <1>1, <1>3, <1>7 DEF AddDevice
  <2>4. \A o \in Makers : device_map[Data(o)] = device_map[OwnClock(o)]
    BY <2>2, NoClocks
  <2> QED BY <1>4, <1>6, <2>3, <2>4, StillAgree
<1>8. CASE device_map[d] = 0
  <2>1. device_map' = [device_map EXCEPT ![d] = g]
    BY <1>1, <1>8 DEF AddDevice
  <2>2. /\ device_map'[d] = g /\ g # 0
        /\ \A e \in Devices : e # d => device_map'[e] = device_map[e]
    BY <1>2, <2>1 DEF TypeOK, Objects
  <2>3. Pending' = TriggerToo("add_device", d, g) \cup ToldTo("notify_add", d, g) \cup Rest
    BY <1>3, <1>8
  <2>4. \A l \in Hearers, e \in Devices, h \in Objects :
          <<"notify_add", l, e, h>> \in Pending' => device_map'[e] = h
    <3> SUFFICES ASSUME NEW l \in Hearers, NEW e \in Devices, NEW h \in Objects,
                        <<"notify_add", l, e, h>> \in Pending'
                 PROVE  device_map'[e] = h
      OBVIOUS
    <3>1. CASE <<"notify_add", l, e, h>> \in Rest
      <4>1. device_map[e] = h /\ h # 0
        BY <1>6, <3>1 DEF Objects
      <4> QED BY <1>8, <2>2, <4>1
    <3>2. CASE <<"notify_add", l, e, h>> \notin Rest
      <4>1. e = d /\ h = g
        BY <2>3, <3>2 DEF TriggerToo, ToldTo
      <4> QED BY <2>2, <4>1
    <3> QED BY <3>1, <3>2
  <2>5. \A o \in Makers : <<"erase", Data(o)>> \notin Pending /\ <<"erase", Data(o)>> \notin Pending'
                          /\ <<"erase", OwnClock(o)>> \notin Pending'
    BY <1>2, <1>3, <1>4, <2>3 DEF OfClock, TriggerToo, ToldTo
  <2>6. \A o \in Makers, h \in Objects : <<"remove_device", OwnClock(o), h>> \notin Pending'
    BY <1>4, <2>3, Clocks DEF OfClock, TriggerToo, ToldTo
  <2>7. \A o \in Makers, h \in Nat : <<"add_device", OwnClock(o), h>> \in Pending =>
          d = OwnClock(o) /\ g = h
    BY <1>2, <1>3, <1>4, Clocks DEF OfClock
  <2>8. \A o \in Makers, h \in Nat : <<"add_device", OwnClock(o), h>> \in Pending' <=>
          d = Data(o) /\ g = h
    <3> SUFFICES ASSUME NEW o \in Makers, NEW h \in Nat
                 PROVE  <<"add_device", OwnClock(o), h>> \in Pending' <=> d = Data(o) /\ g = h
      OBVIOUS
    <3>1. <<"add_device", OwnClock(o), h>> \notin Rest
      BY <1>4, Clocks DEF OfClock
    <3>2. <<"add_device", OwnClock(o), h>> \notin ToldTo("notify_add", d, g)
      BY DEF ToldTo
    <3>3. <<"add_device", OwnClock(o), h>> \in TriggerToo("add_device", d, g) <=> d = Data(o) /\ g = h
      BY <1>5 DEF TriggerToo, Data, OwnClock, Device, Generates, Makers
    <3> QED BY <2>3, <3>1, <3>2, <3>3
  <2>9. \A o \in Makers : d # OwnClock(o) => device_map[Data(o)] = device_map[OwnClock(o)]
    <3> SUFFICES ASSUME NEW o \in Makers, d # OwnClock(o)
                 PROVE  device_map[Data(o)] = device_map[OwnClock(o)]
      OBVIOUS
    <3>1. device_map[Data(o)] \in Nat
      BY Clocks DEF TypeOK
    <3> QED BY <2>5, <2>7, <3>1 DEF ClockInv
  <2>10. \A o \in Makers : d = OwnClock(o) => device_map[Data(o)] = g
    BY <1>2, <1>3 DEF ClockInv
  <2>11. ASSUME NEW o \in Makers
         PROVE  /\ \/ device_map'[Data(o)] = device_map'[OwnClock(o)]
                   \/ <<"add_device", OwnClock(o), device_map'[Data(o)]>> \in Pending'
                /\ \A h \in Objects : <<"add_device", OwnClock(o), h>> \in Pending' =>
                     device_map'[OwnClock(o)] = 0 /\ device_map'[Data(o)] = h
    <3>1. Data(o) \in Devices /\ OwnClock(o) \in Devices /\ Data(o) # OwnClock(o)
      BY Clocks
    <3>2. g \in Nat /\ Objects \subseteq Nat
      BY <1>2 DEF Objects
    <3>3. CASE d = Data(o)
      BY <1>8, <2>2, <2>8, <2>9, <3>1, <3>2, <3>3
    <3>4. CASE d = OwnClock(o)
      BY <2>2, <2>8, <2>10, <3>1, <3>2, <3>4
    <3>5. CASE d # Data(o) /\ d # OwnClock(o)
      BY <2>2, <2>8, <2>9, <3>1, <3>2, <3>5
    <3> QED BY <3>3, <3>4, <3>5
  <2> QED BY <2>4, <2>5, <2>6, <2>11 DEF ClockInv
<1> QED BY <1>7, <1>8

LEMMA RemoveDeviceKeepsClocks ==
  ASSUME TypeOK, Sorted(todo), ClockInv, RemoveDevice
  PROVE  ClockInv'
<1>1. PICK d, g : d = Head(todo)[2] /\ g = Head(todo)[3]
  OBVIOUS
<1> DEFINE C == TriggerToo("remove_device", d, g) \cup ToldTo("notify_remove", d, g)
                \cup {<<"erase", d>>}
<1>2. /\ Head(todo) = <<"remove_device", d, g>> /\ d \in Devices /\ g \in Objects /\ Does(C)
  BY <1>1, RemoveDeviceDoes
<1>3. /\ Pending = {Head(todo)} \cup Rest /\ Pending' = C \cup Rest
      /\ \A f \in Rest : MayPrecede(Head(todo), f)
  BY <1>2 DEF Does
<1>4. UNCHANGED device_map
  BY DEF RemoveDevice, devicevars
<1>5. \A f \in Rest : f[1] # "notify_add" /\ (f[1] \in {"add_device", "remove_device"} => f[2][2] # "trigger")
  BY <1>2, <1>3 DEF MayPrecede, Additions
<1>6. d[1] \in Owners /\ d = <<d[1], d[2]>>
  BY <1>2, Named
<1>7. \A f \in Pending' : f[1] # "notify_add"
  BY <1>3, <1>5 DEF TriggerToo, ToldTo
<1>8. \A o \in Makers : \A h : <<"add_device", OwnClock(o), h>> \notin Pending /\ <<"add_device", OwnClock(o), h>> \notin Pending'
  BY <1>2, <1>3, <1>5, Clocks DEF TriggerToo, ToldTo
<1>9. \A e \in Devices : <<"erase", e>> \in Pending' <=> e = d \/ <<"erase", e>> \in Pending
  BY <1>2, <1>3 DEF TriggerToo, ToldTo
<1>10. \A o \in Makers, h \in Objects :
         <<"remove_device", OwnClock(o), h>> \in Pending' <=> d = Data(o) /\ h = g
  <2> TAKE o \in Makers, h \in Objects
  <2>1. <<"remove_device", OwnClock(o), h>> \notin Rest
    BY <1>5, Clocks
  <2>2. <<"remove_device", OwnClock(o), h>> \notin ToldTo("notify_remove", d, g) \cup {<<"erase", d>>}
    BY DEF ToldTo
  <2>3. <<"remove_device", OwnClock(o), h>> \in TriggerToo("remove_device", d, g) <=> d = Data(o) /\ h = g
    BY <1>6 DEF TriggerToo, Data, OwnClock, Device, Generates, Makers
  <2> QED BY <1>3, <2>1, <2>2, <2>3
<1>11. \A o \in Makers, h \in Objects :
         <<"remove_device", OwnClock(o), h>> \in Pending => d = OwnClock(o) /\ h = g
  BY <1>2, <1>3, <1>5, Clocks
<1>12. \A o \in Makers : d = OwnClock(o) => <<"erase", Data(o)>> \in Pending
  BY <1>2, <1>3 DEF ClockInv
<1> HIDE DEF C
<1>13. ASSUME NEW o \in Makers
       PROVE  /\ device_map[Data(o)] = device_map[OwnClock(o)] \/ <<"erase", Data(o)>> \in Pending'
              /\ <<"erase", Data(o)>> \in Pending' =>
                   \/ device_map[OwnClock(o)] = 0 \/ <<"erase", OwnClock(o)>> \in Pending'
                   \/ \E h \in Objects : <<"remove_device", OwnClock(o), h>> \in Pending'
              /\ <<"erase", OwnClock(o)>> \in Pending' => <<"erase", Data(o)>> \in Pending'
              /\ \A h \in Objects :
                   <<"remove_device", OwnClock(o), h>> \in Pending' => <<"erase", Data(o)>> \in Pending'
  <2>1. Data(o) \in Devices /\ OwnClock(o) \in Devices /\ Data(o) # OwnClock(o)
    BY Clocks
  <2>2. device_map[Data(o)] = device_map[OwnClock(o)] \/ <<"erase", Data(o)>> \in Pending'
    BY <1>8, <1>9, <2>1 DEF ClockInv
  <2>3. <<"erase", Data(o)>> \in Pending' =>
          \/ device_map[OwnClock(o)] = 0 \/ <<"erase", OwnClock(o)>> \in Pending'
          \/ \E h \in Objects : <<"remove_device", OwnClock(o), h>> \in Pending'
    <3>1. CASE d = Data(o)
      BY <1>2, <1>10, <3>1
    <3>2. CASE d = OwnClock(o)
      BY <1>9, <2>1, <3>2
    <3>3. CASE d # Data(o) /\ d # OwnClock(o)
      BY <1>9, <1>11, <2>1, <3>3 DEF ClockInv
    <3> QED BY <3>1, <3>2, <3>3
  <2>4. <<"erase", OwnClock(o)>> \in Pending' => <<"erase", Data(o)>> \in Pending'
    BY <1>9, <1>12, <2>1 DEF ClockInv
  <2>5. \A h \in Objects :
          <<"remove_device", OwnClock(o), h>> \in Pending' => <<"erase", Data(o)>> \in Pending'
    BY <1>9, <1>10, <2>1
  <2> QED BY <2>2, <2>3, <2>4, <2>5
<1> QED BY <1>4, <1>7, <1>8, <1>13 DEF ClockInv

LEMMA EraseDeviceKeepsClocks ==
  ASSUME TypeOK, Sorted(todo), ClockInv, EraseDevice
  PROVE  ClockInv'
<1>1. PICK d : d = Head(todo)[2]
  OBVIOUS
<1>2. Head(todo) = <<"erase", d>> /\ d \in Devices /\ Does({})
  BY <1>1, EraseDeviceDoes
<1>3. /\ Pending = {Head(todo)} \cup Rest /\ Pending' = Rest
      /\ \A f \in Rest : MayPrecede(Head(todo), f)
  BY <1>2 DEF Does
<1>4. \A f \in Rest :
        /\ f[1] # "notify_add" /\ (f[1] \in {"add_device", "remove_device"} => f[2][2] # "trigger")
        /\ f[1] = "erase" => f[2][2] # "trigger"
  BY <1>2, <1>3 DEF MayPrecede, Additions, Dismissals, Releases
<1>5. device_map' = [device_map EXCEPT ![d] = 0]
  BY <1>1 DEF EraseDevice
<1>6. device_map'[d] = 0 /\ \A e \in Devices : e # d => device_map'[e] = device_map[e]
  BY <1>2, <1>5 DEF TypeOK
<1>7. \A o \in Makers, g \in Objects : /\ <<"add_device", OwnClock(o), g>> \notin Pending
                                       /\ <<"remove_device", OwnClock(o), g>> \notin Pending
  BY <1>2, <1>3, <1>4, Clocks
<1>8. \A o \in Makers : <<"add_device", OwnClock(o), device_map[Data(o)]>> \notin Pending
  BY <1>2, <1>3, <1>4, Clocks
<1>9. \A o \in Makers : <<"erase", OwnClock(o)>> \notin Pending'
  BY <1>3, <1>4, Clocks
<1>10. \A e \in Devices : <<"erase", e>> \in Pending <=> e = d \/ <<"erase", e>> \in Pending'
  BY <1>2, <1>3
<1>11. ASSUME NEW o \in Makers
       PROVE  /\ device_map'[Data(o)] = device_map'[OwnClock(o)] \/ <<"erase", Data(o)>> \in Pending'
              /\ <<"erase", Data(o)>> \in Pending' => device_map'[OwnClock(o)] = 0
  <2>1. Data(o) \in Devices /\ OwnClock(o) \in Devices /\ Data(o) # OwnClock(o)
    BY Clocks
  <2>2. <<"erase", OwnClock(o)>> \in Pending => <<"erase", Data(o)>> \in Pending
    BY DEF ClockInv
  <2>3. <<"erase", Data(o)>> \in Pending =>
          device_map[OwnClock(o)] = 0 \/ <<"erase", OwnClock(o)>> \in Pending
    BY <1>7 DEF ClockInv
  <2>4. device_map[Data(o)] = device_map[OwnClock(o)] \/ <<"erase", Data(o)>> \in Pending
    BY <1>8 DEF ClockInv
  <2>5. CASE d = Data(o)
    BY <1>6, <1>9, <1>10, <2>1, <2>3, <2>5
  <2>6. CASE d = OwnClock(o)
    BY <1>6, <1>10, <2>1, <2>2, <2>6
  <2>7. CASE d # Data(o) /\ d # OwnClock(o)
    BY <1>6, <1>9, <1>10, <2>1, <2>3, <2>4, <2>7
  <2> QED BY <2>5, <2>6, <2>7
<1>12. \A f \in Pending' : f[1] # "notify_add"
  BY <1>3, <1>4
<1>13. \A o \in Makers, g \in Objects : /\ <<"add_device", OwnClock(o), g>> \notin Pending'
                                        /\ <<"remove_device", OwnClock(o), g>> \notin Pending'
  BY <1>3, <1>7
<1> QED BY <1>9, <1>11, <1>12, <1>13 DEF ClockInv

LEMMA RemoveDevicesKeepsClocks ==
  ASSUME TypeOK, Sorted(todo), ClockInv, RemoveDevices
  PROVE  ClockInv'
<1>1. PICK o : o = Head(todo)[2]
  OBVIOUS
<1>2. Head(todo) = <<"remove_devices", o>> /\ o \in Owners /\ Does({})
  BY <1>1, RemoveDevicesDoes
<1>3. /\ Pending = {Head(todo)} \cup Rest /\ Pending' = Rest
      /\ \A f \in Rest : MayPrecede(Head(todo), f)
  BY <1>2 DEF Does
<1>4. \A f \in Pending : ~OfClock(f) /\ f[1] # "notify_add"
  BY <1>2, <1>3 DEF MayPrecede, OfClock, Removals, Dismissals, Releases, Additions
<1>5. \A p \in Makers : device_map[Data(p)] = device_map[OwnClock(p)]
  BY <1>4, NoClocks
<1>6. device_map' = [d \in Devices |-> IF d[1] = o THEN 0 ELSE device_map[d]]
  BY <1>1 DEF RemoveDevices
<1>7. \A p \in Makers : device_map'[Data(p)] = device_map'[OwnClock(p)]
  BY <1>5, <1>6, Clocks
<1>8. \A p \in Makers : /\ <<"erase", Data(p)>> \notin Rest
                        /\ <<"erase", OwnClock(p)>> \notin Rest
                        /\ \A g \in Objects : <<"add_device", OwnClock(p), g>> \notin Rest
                        /\ \A g \in Objects : <<"remove_device", OwnClock(p), g>> \notin Rest
  BY <1>3, <1>4, Clocks DEF OfClock
<1>9. \A l, d, g : <<"notify_add", l, d, g>> \notin Rest
  BY <1>3, <1>4
<1> QED BY <1>3, <1>7, <1>8, <1>9 DEF ClockInv

LEMMA CallKeepsClocks ==
  ASSUME TypeOK, Sorted(todo), ClockInv, Call
  PROVE  ClockInv'
<1>1. ASSUME NEW l \in Hearers, AddListener(l)
      PROVE  ClockInv'
  <2> DEFINE C == {<<"notify_add", l, d, device_map[d]>> : d \in Registered}
  <2>1. Starts(C) /\ UNCHANGED device_map
    BY <1>1, AddListenerStarts DEF AddListener
  <2>2. \A e \in C : ~OfClock(e) /\ (e[1] = "notify_add" => device_map[e[3]] = e[4])
    BY DEF OfClock
  <2> HIDE DEF C
  <2> QED BY <2>1, <2>2, AsideStarts
<1>2. ASSUME NEW l \in Listeners, CallRemoveListener(l)
      PROVE  ClockInv'
  <2>1. Starts({<<"remove_listener", l>>}) /\ UNCHANGED device_map
    BY <1>2, CallRemoveListenerStarts DEF CallRemoveListener, devicevars
  <2> QED BY <2>1, AsideStarts DEF OfClock
<1>3. ASSUME NEW s \in Services, CallByOwner(s)
      PROVE  ClockInv'
  <2> DEFINE C == {<<"withdraw", b, s>> : b \in bridge_map}
  <2>1. Starts(C) /\ UNCHANGED device_map
    BY <1>3, CallByOwnerStarts DEF CallByOwner, devicevars
  <2>2. \A e \in C : ~OfClock(e) /\ e[1] # "notify_add"
    BY DEF OfClock
  <2> HIDE DEF C
  <2> QED BY <2>1, <2>2, AsideStarts
<1>4. ASSUME NEW b \in Bridges, AddBridge(b)
      PROVE  ClockInv'
  <2> DEFINE C == {<<"offer", b, s>> : s \in {x \in Services : services[x] # 0}}
  <2>1. Starts(C) /\ UNCHANGED device_map
    BY <1>4, AddBridgeStarts DEF AddBridge, devicevars
  <2>2. \A e \in C : ~OfClock(e) /\ e[1] # "notify_add"
    BY DEF OfClock
  <2> HIDE DEF C
  <2> QED BY <2>1, <2>2, AsideStarts
<1>5. ASSUME NEW o \in Owners, NEW end \in {<<>>, << <<"catch">> >>}, load_module(o, end)
      PROVE  ClockInv'
  <2> DEFINE C == Given(o, objects')
                  \cup {<<"configure", o>>, <<"add_service", <<o, "own">>, objects'>>,
                        <<"loaded", o, objects'>>} \cup ToSet(end)
  <2>1. Starts(C) /\ UNCHANGED device_map
    BY <1>5, LoadStarts DEF load_module, devicevars
  <2>2. ToSet(end) \subseteq {<<"catch">>}
    BY Nothing, Single, Made
  <2>3. \A e \in Given(o, objects') : ~OfClock(e) /\ e[1] # "notify_add"
    BY KindsOf DEF Given, OfClock, Device
  <2>4. \A e \in C : ~OfClock(e) /\ e[1] # "notify_add"
    BY <2>2, <2>3 DEF OfClock
  <2> HIDE DEF C
  <2> QED BY <2>1, <2>4, AsideStarts
<1>6. ASSUME NEW o \in Owners, svc_reconfigure_module(o)
      PROVE  ClockInv'
  <2> DEFINE C == Taken(o) \cup Given(o, objects')
                  \cup {<<"configure", o>>, <<"reconfigured", o, objects'>>, <<"catch">>}
  <2>1. Starts(C) /\ UNCHANGED device_map
    BY <1>6, ReconfigureStarts DEF svc_reconfigure_module, devicevars
  <2>2. \A e \in Given(o, objects') : ~OfClock(e) /\ e[1] # "notify_add"
    BY KindsOf DEF Given, OfClock, Device
  <2>3. \A e \in Taken(o) : ~OfClock(e) /\ e[1] # "notify_add"
    BY KindsOf DEF Taken, OfClock, Device
  <2>4. \A e \in C : ~OfClock(e) /\ e[1] # "notify_add"
    BY <2>2, <2>3 DEF OfClock
  <2> HIDE DEF C
  <2> QED BY <2>1, <2>4, AsideStarts
<1>7. ASSUME NEW o \in Owners, svc_remove_module(o)
      PROVE  ClockInv'
  <2>1. Starts({<<"unload", o>>}) /\ UNCHANGED device_map
    BY <1>7, RemoveModuleStarts DEF svc_remove_module, devicevars
  <2> QED BY <2>1, AsideStarts DEF OfClock
<1>8. CASE ReadConfig
  <2>1. Starts({}) /\ UNCHANGED device_map
    BY <1>8, ReadConfigStarts DEF ReadConfig, devicevars
  <2> QED BY <2>1, AsideStarts
<1>9. CASE NextPhase
  <2> DEFINE C == IF phase = "providers" THEN {<<"add_service", <<Kernel, "own">>, 1>>} ELSE {}
  <2>1. Starts(C) /\ UNCHANGED device_map
    BY <1>9, NextPhaseStarts DEF NextPhase, devicevars
  <2>2. \A e \in C : ~OfClock(e) /\ e[1] # "notify_add"
    BY DEF OfClock
  <2> HIDE DEF C
  <2> QED BY <2>1, <2>2, AsideStarts
<1>10. CASE ConfigFails
  <2>1. Throws /\ Pending = {} /\ UNCHANGED device_map
    BY <1>10, ConfigFailsThrows, Nothing DEF ConfigFails, Pending, devicevars
  <2> QED BY <2>1, AsideThrows
<1>11. CASE Shutdown
  <2>1. Starts(Exit) /\ UNCHANGED device_map
    BY <1>11, ShutdownStarts DEF Shutdown, devicevars
  <2>2. \A e \in Exit : ~OfClock(e) /\ e[1] # "notify_add"
    BY DEF Exit, OfClock
  <2> QED BY <2>1, <2>2, AsideStarts
<1> QED BY <1>1, <1>2, <1>3, <1>4, <1>5, <1>6, <1>7, <1>8, <1>9, <1>10, <1>11, CalledAssumption
        DEF Call, CallAddListener, AddProvider, CreateModule, svc_add_module, Hearers

LEMMA DeviceStepKeepsClocks ==
  ASSUME TypeOK, Sorted(todo), ClockInv, DeviceStep
  PROVE  ClockInv'
<1>1. CASE Notify
  <2>1. Does({}) /\ Head(todo)[1] \in {"notify_add", "notify_remove"} /\ UNCHANGED device_map
    BY <1>1, NotifyDoes DEF Notify
  <2> QED BY <2>1, AsideDoes
<1>2. CASE NotifyProvider
  <2>1. PICK p, d, g : p = Head(todo)[2] /\ d = Head(todo)[3] /\ g = Head(todo)[4]
    OBVIOUS
  <2>2. \/ Head(todo) = <<"notify_add", p, d, g>> /\ Does(IF d[2] # "interface" THEN {} ELSE Handled(p, d[1], g))
        \/ Head(todo) = <<"notify_remove", p, d, g>> /\ Does(IF d[2] # "interface" THEN {} ELSE {<<"delete_handler", p, d[1]>>})
    BY <1>2, <2>1, NotifyProviderDoes
  <2>3. PICK C : Does(C) /\ \A e \in C : ~OfClock(e) /\ e[1] # "notify_add"
    <3>1. \A e \in Handled(p, d[1], g) : ~OfClock(e) /\ e[1] # "notify_add"
      BY DEF Handled, OfClock
    <3>2. \A e \in {<<"delete_handler", p, d[1]>>} : ~OfClock(e) /\ e[1] # "notify_add"
      BY DEF OfClock
    <3> QED BY <2>2, <3>1, <3>2
  <2>4. Head(todo)[1] \in {"notify_add", "notify_remove"} /\ UNCHANGED device_map
    BY <1>2, <2>2 DEF NotifyProvider, devicevars
  <2> QED BY <2>3, <2>4, AsideDoes
<1>3. CASE NewHandler
  <2>1. Does({}) /\ Head(todo)[1] = "new_handler" /\ UNCHANGED device_map
    BY <1>3, NewHandlerDoes DEF NewHandler
  <2> QED BY <2>1, AsideDoes
<1>4. CASE DeleteHandler
  <2>1. PICK p, o : p = Head(todo)[2] /\ o = Head(todo)[3]
    OBVIOUS
  <2> DEFINE C == IF handlers[p][o] = 0 THEN {} ELSE {<<"remove_service", <<o, p>> >>}
  <2>2. Head(todo) = <<"delete_handler", p, o>> /\ Does(C) /\ UNCHANGED device_map
    BY <1>4, <2>1, DeleteHandlerDoes DEF DeleteHandler
  <2>3. \A e \in C : ~OfClock(e) /\ e[1] # "notify_add"
    BY DEF OfClock
  <2> HIDE DEF C
  <2> QED BY <2>2, <2>3, AsideDoes
<1>5. CASE EndOfTry
  <2>1. Does({}) /\ Head(todo)[1] = "catch" /\ UNCHANGED device_map
    BY <1>5, EndOfTryDoes DEF EndOfTry, devicevars
  <2> QED BY <2>1, AsideDoes
<1>6. CASE RemoveListener
  <2>1. PICK l : l = Head(todo)[2]
    OBVIOUS
  <2> DEFINE C == {<<"notify_remove", l, d, device_map[d]>> : d \in Registered}
                  \cup {<<"erase_listener", l>>}
  <2>2. Head(todo) = <<"remove_listener", l>> /\ Does(C) /\ UNCHANGED device_map
    BY <1>6, <2>1, RemoveListenerDoes DEF RemoveListener, devicevars
  <2>3. \A e \in C : ~OfClock(e) /\ e[1] # "notify_add"
    BY DEF OfClock
  <2> HIDE DEF C
  <2> QED BY <2>2, <2>3, AsideDoes
<1>7. CASE EraseListener
  <2>1. Does({}) /\ Head(todo)[1] = "erase_listener" /\ UNCHANGED device_map
    BY <1>7, EraseListenerDoes DEF EraseListener
  <2> QED BY <2>1, AsideDoes
<1> QED BY <1>1, <1>2, <1>3, <1>4, <1>5, <1>6, <1>7, AddDeviceKeepsClocks,
           RemoveDeviceKeepsClocks, EraseDeviceKeepsClocks, RemoveDevicesKeepsClocks
        DEF DeviceStep

LEMMA ServiceStepKeepsClocks ==
  ASSUME TypeOK, Sorted(todo), ClockInv, ServiceStep
  PROVE  ClockInv'
<1>1. UNCHANGED device_map
  BY DEF ServiceStep, AddService, Offer, Refuse, RemoveService, Withdraw, Delete,
         RemoveServices, RemoveOwn, RemoveBridges, devicevars
<1>2. CASE AddService
  <2>1. PICK s, g : s = Head(todo)[2] /\ g = Head(todo)[3]
    OBVIOUS
  <2> DEFINE C == IF services[s] # 0 THEN {} ELSE {<<"offer", b, s>> : b \in bridge_map}
  <2>2. Head(todo) = <<"add_service", s, g>> /\ Does(C)
    BY <1>2, <2>1, AddServiceDoes
  <2>3. \A e \in C : ~OfClock(e) /\ e[1] # "notify_add"
    BY DEF OfClock
  <2> HIDE DEF C
  <2> QED BY <1>1, <2>2, <2>3, AsideDoes
<1>3. CASE Offer
  <2>1. Does({}) /\ Head(todo)[1] = "offer"
    BY <1>3, OfferDoes
  <2> QED BY <1>1, <2>1, AsideDoes
<1>4. CASE Refuse
  <2>1. Throws /\ todo # <<>> /\ Head(todo)[1] = "offer"
    BY <1>4, RefuseThrows
  <2>2. \A f \in Pending : ~OfClock(f)
    BY <2>1, Heads DEF MayPrecede, OfClock, Removals, Dismissals, Releases
  <2> QED BY <1>1, <2>1, <2>2, AsideThrows
<1>5. CASE RemoveService
  <2>1. PICK s : s = Head(todo)[2]
    OBVIOUS
  <2> DEFINE C == IF services[s] = 0 THEN {}
                  ELSE {<<"withdraw", b, s>> : b \in bridge_map} \cup {<<"delete", s>>}
  <2>2. Head(todo) = <<"remove_service", s>> /\ Does(C)
    BY <1>5, <2>1, RemoveServiceDoes
  <2>3. \A e \in C : ~OfClock(e) /\ e[1] # "notify_add"
    BY DEF OfClock
  <2> HIDE DEF C
  <2> QED BY <1>1, <2>2, <2>3, AsideDoes
<1>6. CASE Withdraw
  <2>1. Does({}) /\ Head(todo)[1] = "withdraw"
    BY <1>6, WithdrawDoes
  <2> QED BY <1>1, <2>1, AsideDoes
<1>7. CASE Delete
  <2>1. Does({}) /\ Head(todo)[1] = "delete"
    BY <1>7, DeleteDoes
  <2> QED BY <1>1, <2>1, AsideDoes
<1>8. CASE RemoveServices
  <2>1. PICK o : o = Head(todo)[2]
    OBVIOUS
  <2> DEFINE C == {<<"delete_handler", p, o>> : p \in dl_map \cap Providers} \cup {<<"remove_own", o>>}
  <2>2. Head(todo) = <<"remove_services", o>> /\ Does(C)
    BY <1>8, <2>1, RemoveServicesDoes
  <2>3. \A e \in C : ~OfClock(e) /\ e[1] # "notify_add"
    BY DEF OfClock
  <2> HIDE DEF C
  <2> QED BY <1>1, <2>2, <2>3, AsideDoes
<1>9. CASE RemoveOwn
  <2>1. PICK o : o = Head(todo)[2]
    OBVIOUS
  <2> DEFINE C == {<<"remove_service", s>> : s \in {x \in Services : x[1] = o}}
  <2>2. Head(todo) = <<"remove_own", o>> /\ Does(C)
    BY <1>9, <2>1, RemoveOwnDoes
  <2>3. \A e \in C : ~OfClock(e) /\ e[1] # "notify_add"
    BY DEF OfClock
  <2> HIDE DEF C
  <2> QED BY <1>1, <2>2, <2>3, AsideDoes
<1>10. CASE RemoveBridges
  <2>1. Does({}) /\ Head(todo)[1] = "remove_bridges"
    BY <1>10, RemoveBridgesDoes
  <2> QED BY <1>1, <2>1, AsideDoes
<1> QED BY <1>2, <1>3, <1>4, <1>5, <1>6, <1>7, <1>8, <1>9, <1>10 DEF ServiceStep

LEMMA ModuleStepKeepsClocks ==
  ASSUME TypeOK, Sorted(todo), ClockInv, ModuleStep
  PROVE  ClockInv'
<1>1. UNCHANGED device_map
  BY DEF ModuleStep, Configured, ConfigureFails, Loaded, Reconfigured, Unload, Unloaded, devicevars
<1>2. CASE Configured
  <2>1. Does({}) /\ Head(todo)[1] = "configure"
    BY <1>2, ConfiguredDoes
  <2> QED BY <1>1, <2>1, AsideDoes
<1>3. CASE ConfigureFails
  <2>1. /\ Throws /\ todo # <<>> /\ Head(todo)[1] \in {"configure", "add_device"}
        /\ Head(todo)[1] = "add_device" => Head(todo)[2][2] # "trigger"
    BY <1>3, ConfigureFailsThrows
  <2>2. \A f \in Pending : ~OfClock(f)
    BY <2>1, Heads DEF MayPrecede, OfClock, Removals, Dismissals, Releases
  <2> QED BY <1>1, <2>1, <2>2, AsideThrows
<1>4. CASE Loaded
  <2>1. Does({}) /\ Head(todo)[1] = "loaded"
    BY <1>4, LoadedDoes
  <2> QED BY <1>1, <2>1, AsideDoes
<1>5. CASE Reconfigured
  <2>1. Does({}) /\ Head(todo)[1] = "reconfigured"
    BY <1>5, ReconfiguredDoes
  <2> QED BY <1>1, <2>1, AsideDoes
<1>6. CASE Unload
  <2>1. PICK o : o = Head(todo)[2]
    OBVIOUS
  <2> DEFINE C == Taken(o) \cup {<<"remove_devices", o>>, <<"remove_services", o>>, <<"unloaded", o>>}
  <2>2. Head(todo) = <<"unload", o>> /\ o \in Owners /\ Does(C)
    BY <1>6, <2>1, UnloadDoes
  <2>3. \A e \in Taken(o) : ~OfClock(e) /\ e[1] # "notify_add"
    BY <2>2, KindsOf DEF Taken, OfClock, Device
  <2>4. \A e \in C : ~OfClock(e) /\ e[1] # "notify_add"
    BY <2>3 DEF OfClock
  <2> HIDE DEF C
  <2> QED BY <1>1, <2>2, <2>4, AsideDoes
<1>7. CASE Unloaded
  <2>1. Does({}) /\ Head(todo)[1] = "unloaded"
    BY <1>7, UnloadedDoes
  <2> QED BY <1>1, <2>1, AsideDoes
<1> QED BY <1>2, <1>3, <1>4, <1>5, <1>6, <1>7 DEF ModuleStep

LEMMA OrderAndClocks == Spec => [](Ordered /\ ClockInv)
<1>1. Init => Ordered /\ ClockInv
  <2> SUFFICES ASSUME Init PROVE ClockInv
    BY InitOrdered
  <2>1. Pending = {} /\ device_map = None(Devices)
    BY InitOrdered DEF Init
  <2>2. \A o \in Makers : device_map[Data(o)] = device_map[OwnClock(o)]
    BY <2>1, Clocks DEF None
  <2> QED BY <2>1, <2>2 DEF ClockInv
<1>2. Ordered /\ ClockInv /\ [Next]_vars => ClockInv'
  <2> SUFFICES ASSUME Ordered, ClockInv, [Next]_vars PROVE ClockInv'
    OBVIOUS
  <2>1. TypeOK /\ Sorted(todo)
    BY DEF Ordered
  <2>2. CASE Next
    BY <2>1, <2>2, CallKeepsClocks, DeviceStepKeepsClocks, ServiceStepKeepsClocks,
       ModuleStepKeepsClocks DEF Next
  <2>3. CASE UNCHANGED vars
    BY <2>3 DEF ClockInv, Pending, vars, modulevars, servicevars, devicevars
  <2> QED BY <2>2, <2>3
<1> QED BY <1>1, <1>2, CallsAreOrdered, PTL DEF Spec

(* When a listener is told of a process data that has generated its       *)
(* trigger, this is registered (kernel::add_device, which adds the trigger *)
(* before it notifies, add_device_listener).                               *)
THEOREM TriggerComesFirstAlways == Spec => TriggerComesFirst
<1> DEFINE A == \A l \in Listeners : \A d \in told'[l] \ told[l] :
                  Generates(d[1]) => device_map[Clock(d[1][1])] = d[2]
<1>1. Ordered /\ ClockInv /\ [Next]_vars => [A]_vars
  <2> SUFFICES ASSUME Ordered, ClockInv, Next PROVE A
    OBVIOUS
  <2>1. TypeOK /\ Sorted(todo)
    BY DEF Ordered
  <2>2. CASE Notify
    <3>1. PICK l, d, g : l = Head(todo)[2] /\ d = Head(todo)[3] /\ g = Head(todo)[4]
      OBVIOUS
    <3>2. /\ l \in Listeners /\ d \in Devices /\ g \in Objects /\ Does({})
          /\ \/ Head(todo) = <<"notify_add", l, d, g>>
             \/ Head(todo) = <<"notify_remove", l, d, g>>
      BY <2>1, <2>2, <3>1, NotifyDoes
    <3>3. told' = [told EXCEPT ![l] = IF Doing("notify_add") THEN @ \cup {<<d, g>>} ELSE @ \ {<<d, g>>}]
      BY <2>2, <3>1 DEF Notify
    <3>4. \A k \in Listeners : \A e \in told'[k] \ told[k] :
            Head(todo) = <<"notify_add", l, d, g>> /\ e = <<d, g>>
      BY <2>1, <3>2, <3>3 DEF TypeOK, Doing
    <3>5. ASSUME Head(todo) = <<"notify_add", l, d, g>>, Generates(d)
          PROVE  device_map[Clock(d[1])] = g
      <4>1. /\ Pending = {Head(todo)} \cup Rest
            /\ \A f \in Rest : MayPrecede(Head(todo), f)
        BY <3>2 DEF Does
      <4>2. \A f \in Pending : ~OfClock(f)
        BY <3>5, <4>1 DEF MayPrecede, OfClock, Removals, Dismissals, Releases
      <4>3. device_map[d] = g
        BY <3>2, <3>5, <4>1 DEF ClockInv, Hearers
      <4>4. d[1] \in Makers /\ d = Data(d[1]) /\ OwnClock(d[1]) = Clock(d[1])
        BY <3>2, <3>5, Named DEF Data, OwnClock, Device, Generates, Makers, Clock
      <4> QED BY <4>2, <4>3, <4>4, NoClocks
    <3> QED BY <3>4, <3>5
  <2>3. CASE EraseListener
    <3>1. told' = [l \in Listeners |-> IF l = Head(todo)[2] THEN {} ELSE told[l]]
      BY <2>3 DEF EraseListener
    <3> QED BY <3>1
  <2>4. CASE ~Notify /\ ~EraseListener
    <3>1. UNCHANGED told
      BY <2>4 DEF Next, Call, DeviceStep, ServiceStep, ModuleStep, CallAddListener,
           CallRemoveListener, AddProvider, AddListener, CallByOwner, AddBridge, CreateModule,
           svc_add_module, load_module, svc_reconfigure_module, svc_remove_module, ReadConfig,
           NextPhase, ConfigFails, Shutdown, AddDevice, RemoveDevice, EraseDevice, RemoveDevices,
           NotifyProvider, NewHandler, DeleteHandler, EndOfTry, RemoveListener, AddService, Offer,
           Refuse, RemoveService, Withdraw, Delete, RemoveServices, RemoveOwn, RemoveBridges,
           Configured, ConfigureFails, Loaded, Reconfigured, Unload, Unloaded, devicevars
    <3> QED BY <3>1
  <2> QED BY <2>2, <2>3, <2>4
<1> QED BY <1>1, OrderAndClocks, PTL DEF Spec, TriggerComesFirst

-----------------------------------------------------------------------------
(* Service providers and their handlers. *)

Face(o) == Device(o, "interface")

LEMMA Faces ==
  ASSUME NEW o \in Owners
  PROVE  /\ Face(o) \in Devices /\ Face(o)[1] = o /\ Face(o)[2] = "interface"
         /\ \A d \in Devices : d[1] = o /\ d[2] = "interface" => d = Face(o)
         /\ \A q \in Owners : q # o => Face(q) # Face(o)
  BY DEF Face, Device, Devices

(* A handler is about to be deleted. *)
Going(p, o) ==
  \/ <<"delete_handler", p, o>> \in Pending
  \/ \E g \in Objects : <<"notify_remove", p, Face(o), g>> \in Pending

(* A handler is one of a provider that listens, for an interface that is   *)
(* there or whose module is on its way out, and neither of them goes       *)
(* before the handler; who is to hear of a new device listens.             *)
HandlerInv ==
  /\ \A p \in Providers, o \in Owners : handlers[p][o] # 0 =>
       /\ p \in dl_map
       /\ \/ device_map[Face(o)] # 0
          \/ <<"remove_services", o>> \in Pending \/ <<"delete_handler", p, o>> \in Pending
       /\ <<"erase", Face(o)>> \in Pending \/ <<"erase_listener", p>> \in Pending => Going(p, o)
  /\ \A l \in Hearers, d \in Devices, g \in Objects :
       <<"notify_add", l, d, g>> \in Pending => l \in dl_map
  /\ \A p \in Providers, o \in Owners, g \in Objects :
       <<"new_handler", p, o, g>> \in Pending => p \in dl_map /\ device_map[Face(o)] = g
  /\ \A o \in Owners :
       <<"remove_devices", o>> \in Pending => <<"remove_services", o>> \in Pending

HandlerOps == {"notify_add", "notify_remove", "new_handler", "delete_handler",
               "remove_services", "remove_devices", "erase", "erase_listener"}

LEMMA SameHandlers ==
  ASSUME HandlerInv, UNCHANGED <<device_map, dl_map, handlers>>,
         \A e : e[1] \in HandlerOps => (e \in Pending <=> e \in Pending')
  PROVE  HandlerInv'
<1>1. /\ \A o : <<"remove_services", o>> \in Pending <=> <<"remove_services", o>> \in Pending'
      /\ \A o : <<"remove_devices", o>> \in Pending <=> <<"remove_devices", o>> \in Pending'
      /\ \A d : <<"erase", d>> \in Pending <=> <<"erase", d>> \in Pending'
      /\ \A l : <<"erase_listener", l>> \in Pending <=> <<"erase_listener", l>> \in Pending'
  BY DEF HandlerOps
<1>2. \A p, o : <<"delete_handler", p, o>> \in Pending <=> <<"delete_handler", p, o>> \in Pending'
  BY DEF HandlerOps
<1>3. /\ \A l, d, g : <<"notify_add", l, d, g>> \in Pending <=> <<"notify_add", l, d, g>> \in Pending'
      /\ \A l, d, g : <<"notify_remove", l, d, g>> \in Pending <=> <<"notify_remove", l, d, g>> \in Pending'
      /\ \A p, o, g : <<"new_handler", p, o, g>> \in Pending <=> <<"new_handler", p, o, g>> \in Pending'
  BY DEF HandlerOps
<1>4. \A p, o : Going(p, o) => Going(p, o)'
  BY <1>2, <1>3 DEF Going
<1> QED BY <1>1, <1>2, <1>3, <1>4 DEF HandlerInv

LEMMA HandlersDoes ==
  ASSUME HandlerInv, NEW C, Does(C), UNCHANGED <<device_map, dl_map, handlers>>,
         Head(todo)[1] \notin HandlerOps, \A e \in C : e[1] \notin HandlerOps
  PROVE  HandlerInv'
<1>1. Pending = {Head(todo)} \cup Rest /\ Pending' = C \cup Rest
  BY DEF Does
<1>2. \A e : e[1] \in HandlerOps => (e \in Pending <=> e \in Pending')
  BY <1>1
<1> QED BY <1>2, SameHandlers

LEMMA HandlersStarts ==
  ASSUME HandlerInv, NEW C, Starts(C), UNCHANGED <<device_map, dl_map, handlers>>,
         \A e \in C : e[1] \notin HandlerOps
  PROVE  HandlerInv'
<1>1. Pending = {} /\ Pending' = C
  BY DEF Starts
<1>2. \A e : e[1] \in HandlerOps => (e \in Pending <=> e \in Pending')
  BY <1>1
<1> QED BY <1>2, SameHandlers

LEMMA HandlersThrows ==
  ASSUME TypeOK, Sorted(todo), HandlerInv, Throws, UNCHANGED <<device_map, dl_map, handlers>>,
         \A e \in Pending : e[1] \notin {"notify_remove", "delete_handler", "remove_services",
                                         "remove_devices", "erase", "erase_listener"}
  PROVE  HandlerInv'
<1>1. Pending' = Exit \/ Pending' \subseteq Pending
  BY AfterThrow
<1>2. \A f \in Exit : f[1] \notin HandlerOps
  BY DEF Exit, HandlerOps
<1>3. \A e \in Pending' : /\ e[1] \in HandlerOps => e \in Pending
                          /\ e[1] \notin {"remove_devices", "erase", "erase_listener"}
  BY <1>1, <1>2 DEF HandlerOps
<1>4. /\ \A o : <<"remove_services", o>> \notin Pending /\ <<"remove_devices", o>> \notin Pending'
      /\ \A d : <<"erase", d>> \notin Pending'
      /\ \A l : <<"erase_listener", l>> \notin Pending'
      /\ \A p, o : <<"delete_handler", p, o>> \notin Pending
  BY <1>3
<1>5. /\ \A l, d, g : <<"notify_add", l, d, g>> \in Pending' => <<"notify_add", l, d, g>> \in Pending
      /\ \A p, o, g : <<"new_handler", p, o, g>> \in Pending' => <<"new_handler", p, o, g>> \in Pending
  BY <1>3 DEF HandlerOps
<1> QED BY <1>4, <1>5 DEF HandlerInv

LEMMA AddDeviceKeepsHandlers ==
  ASSUME TypeOK, Sorted(todo), HandlerInv, AddDevice
  PROVE  HandlerInv'
<1>1. PICK d, g : d = Head(todo)[2] /\ g = Head(todo)[3]
  OBVIOUS
<1> DEFINE C == IF device_map[d] # 0 THEN {}
                ELSE TriggerToo("add_device", d, g) \cup ToldTo("notify_add", d, g)
<1>2. /\ Head(todo) = <<"add_device", d, g>> /\ d \in Devices /\ g \in Objects /\ Does(C)
      /\ UNCHANGED <<dl_map, handlers>>
  BY <1>1, AddDeviceDoes DEF AddDevice
<1>3. CASE device_map[d] # 0
  <2>1. Does({}) /\ UNCHANGED device_map
    BY <1>1, <1>2, <1>3 DEF AddDevice
  <2> QED BY <1>2, <2>1, HandlersDoes DEF HandlerOps
<1>4. CASE device_map[d] = 0
  <2>1. /\ Pending = {Head(todo)} \cup Rest /\ \A f \in Rest : MayPrecede(Head(todo), f)
        /\ Pending' = TriggerToo("add_device", d, g) \cup ToldTo("notify_add", d, g) \cup Rest
    BY <1>2, <1>4 DEF Does
  <2>2. \A f \in Rest : f[1] \notin {"notify_remove", "new_handler", "delete_handler", "erase_listener",
                                     "remove_devices"}
    BY <1>2, <2>1 DEF MayPrecede, Removals, Dismissals, Releases
  <2>3. \A f \in Rest : f[1] = "erase" => FALSE
    BY <1>2, <2>1 DEF MayPrecede, Removals, Dismissals, Releases
  <2>4. \A f \in Pending' : f \in Rest \/ f[1] = "add_device" \/ (f[1] = "notify_add" /\ f[2] \in dl_map)
    BY <2>1 DEF TriggerToo, ToldTo
  <2>5. /\ \A x : <<"erase", x>> \notin Pending'
        /\ \A x : <<"erase_listener", x>> \notin Pending'
        /\ \A x : <<"remove_devices", x>> \notin Pending'
        /\ \A x, y, z : <<"new_handler", x, y, z>> \notin Pending'
        /\ \A x, y : <<"delete_handler", x, y>> \notin Pending
        /\ \A x : <<"remove_services", x>> \in Pending => <<"remove_services", x>> \in Pending'
        /\ \A x, y, z : <<"notify_add", x, y, z>> \in Pending' =>
             <<"notify_add", x, y, z>> \in Pending \/ x \in dl_map
    BY <1>2, <2>1, <2>2, <2>3, <2>4
  <2>6. \A e \in Devices : device_map[e] # 0 => device_map'[e] # 0
    <3>1. device_map' = [device_map EXCEPT ![d] = g] /\ g # 0
      BY <1>1, <1>2, <1>4 DEF AddDevice, Objects
    <3> QED BY <1>2, <3>1 DEF TypeOK
  <2> QED BY <1>2, <2>5, <2>6, Faces DEF HandlerInv
<1> QED BY <1>3, <1>4

LEMMA RemoveDeviceKeepsHandlers ==
  ASSUME TypeOK, Sorted(todo), HandlerInv, RemoveDevice
  PROVE  HandlerInv'
<1>1. PICK d, g : d = Head(todo)[2] /\ g = Head(todo)[3]
  OBVIOUS
<1> DEFINE C == TriggerToo("remove_device", d, g) \cup ToldTo("notify_remove", d, g)
                \cup {<<"erase", d>>}
<1>2. /\ Head(todo) = <<"remove_device", d, g>> /\ d \in Devices /\ g \in Objects /\ Does(C)
      /\ UNCHANGED <<device_map, dl_map, handlers>>
  BY <1>1, RemoveDeviceDoes DEF RemoveDevice, devicevars
<1>3. Pending = {Head(todo)} \cup Rest /\ Pending' = C \cup Rest
  BY <1>2 DEF Does
<1>4. \A f \in C : \/ f[1] = "remove_device" \/ f = <<"erase", d>>
                   \/ \E l \in dl_map : f = <<"notify_remove", l, d, g>>
  BY DEF TriggerToo, ToldTo
<1>5. /\ \A x : <<"remove_services", x>> \in Pending => <<"remove_services", x>> \in Pending'
      /\ \A x : <<"remove_devices", x>> \in Pending' => <<"remove_devices", x>> \in Pending
      /\ \A x : <<"erase", x>> \in Pending' => <<"erase", x>> \in Pending \/ x = d
      /\ \A x : <<"erase_listener", x>> \in Pending' => <<"erase_listener", x>> \in Pending
  BY <1>2, <1>3, <1>4
<1>6. /\ \A x, y : <<"delete_handler", x, y>> \in Pending => <<"delete_handler", x, y>> \in Pending'
      /\ \A x, y, z : <<"new_handler", x, y, z>> \in Pending' => <<"new_handler", x, y, z>> \in Pending
      /\ \A x, y, z : <<"notify_add", x, y, z>> \in Pending' => <<"notify_add", x, y, z>> \in Pending
      /\ \A x, y, z : <<"notify_remove", x, y, z>> \in Pending => <<"notify_remove", x, y, z>> \in Pending'
  BY <1>2, <1>3, <1>4
<1>7. \A l \in dl_map : <<"notify_remove", l, d, g>> \in Pending'
  BY <1>3 DEF ToldTo
<1>8. \A p \in Providers, o \in Owners : Going(p, o) => Going(p, o)'
  BY <1>6 DEF Going
<1>9. \A p \in Providers, o \in Owners : p \in dl_map /\ d = Face(o) => Going(p, o)'
  BY <1>2, <1>7 DEF Going
<1> HIDE DEF C
<1> QED BY <1>2, <1>5, <1>6, <1>8, <1>9 DEF HandlerInv

LEMMA EraseDeviceKeepsHandlers ==
  ASSUME TypeOK, Sorted(todo), HandlerInv, EraseDevice
  PROVE  HandlerInv'
<1>1. PICK d : d = Head(todo)[2]
  OBVIOUS
<1>2. /\ Head(todo) = <<"erase", d>> /\ d \in Devices /\ Does({})
      /\ UNCHANGED <<dl_map, handlers>> /\ device_map' = [device_map EXCEPT ![d] = 0]
  BY <1>1, EraseDeviceDoes DEF EraseDevice
<1>3. /\ Pending = {Head(todo)} \cup Rest /\ \A f \in Rest : MayPrecede(Head(todo), f)
      /\ Pending' = Rest
  BY <1>2 DEF Does
<1>4. \A f \in Rest : f[1] \notin {"new_handler", "delete_handler"}
  BY <1>2, <1>3 DEF MayPrecede, Releases
<1>5. \A f \in Rest : f[1] = "notify_remove" => d[2] = "trigger"
  BY <1>2, <1>3 DEF MayPrecede
<1>6. \A p \in Providers, o \in Owners : d = Face(o) => handlers[p][o] = 0
  <2> SUFFICES ASSUME NEW p \in Providers, NEW o \in Owners, d = Face(o), handlers[p][o] # 0
               PROVE  FALSE
    OBVIOUS
  <2>1. Going(p, o)
    BY <1>2, <1>3 DEF HandlerInv
  <2>2. d[2] # "trigger"
    BY Faces
  <2>3. \A f \in Pending : f[1] \notin {"delete_handler", "notify_remove"}
    BY <1>2, <1>3, <1>4, <1>5, <2>2
  <2> QED BY <2>1, <2>3 DEF Going
<1>7. \A e \in Devices : e # d => device_map'[e] = device_map[e]
  BY <1>2 DEF TypeOK
<1>8. /\ \A x : <<"remove_services", x>> \in Pending <=> <<"remove_services", x>> \in Pending'
      /\ \A x : <<"remove_devices", x>> \in Pending <=> <<"remove_devices", x>> \in Pending'
      /\ \A x : <<"erase", x>> \in Pending' => <<"erase", x>> \in Pending
      /\ \A x : <<"erase_listener", x>> \in Pending <=> <<"erase_listener", x>> \in Pending'
      /\ \A x, y : <<"delete_handler", x, y>> \in Pending <=> <<"delete_handler", x, y>> \in Pending'
      /\ \A x, y, z : <<"new_handler", x, y, z>> \notin Pending'
      /\ \A x, y, z : <<"notify_add", x, y, z>> \in Pending <=> <<"notify_add", x, y, z>> \in Pending'
      /\ \A x, y, z : <<"notify_remove", x, y, z>> \in Pending <=> <<"notify_remove", x, y, z>> \in Pending'
  BY <1>2, <1>3, <1>4
<1>9. \A p \in Providers, o \in Owners : Going(p, o) => Going(p, o)'
  BY <1>8 DEF Going
<1> QED BY <1>2, <1>6, <1>7, <1>8, <1>9, Faces DEF HandlerInv

LEMMA RemoveDevicesKeepsHandlers ==
  ASSUME TypeOK, Sorted(todo), HandlerInv, RemoveDevices
  PROVE  HandlerInv'
<1>1. PICK o : o = Head(todo)[2]
  OBVIOUS
<1>2. /\ Head(todo) = <<"remove_devices", o>> /\ o \in Owners /\ Does({})
      /\ UNCHANGED <<dl_map, handlers>>
      /\ device_map' = [d \in Devices |-> IF d[1] = o THEN 0 ELSE device_map[d]]
  BY <1>1, RemoveDevicesDoes DEF RemoveDevices
<1>3. /\ Pending = {Head(todo)} \cup Rest /\ \A f \in Rest : MayPrecede(Head(todo), f)
      /\ Pending' = Rest
  BY <1>2 DEF Does
<1>4. \A f \in Rest : f[1] # "new_handler"
  BY <1>2, <1>3 DEF MayPrecede
<1>5. \A q \in Owners : q # o => device_map'[Face(q)] = device_map[Face(q)]
  BY <1>2, Faces
<1>6. /\ \A x : <<"remove_services", x>> \in Pending <=> <<"remove_services", x>> \in Pending'
      /\ \A x : <<"remove_devices", x>> \in Pending' => <<"remove_devices", x>> \in Pending
      /\ \A x : <<"erase", x>> \in Pending <=> <<"erase", x>> \in Pending'
      /\ \A x : <<"erase_listener", x>> \in Pending <=> <<"erase_listener", x>> \in Pending'
      /\ \A x, y : <<"delete_handler", x, y>> \in Pending <=> <<"delete_handler", x, y>> \in Pending'
      /\ \A x, y, z : <<"new_handler", x, y, z>> \notin Pending'
      /\ \A x, y, z : <<"notify_add", x, y, z>> \in Pending <=> <<"notify_add", x, y, z>> \in Pending'
      /\ \A x, y, z : <<"notify_remove", x, y, z>> \in Pending <=> <<"notify_remove", x, y, z>> \in Pending'
  BY <1>2, <1>3, <1>4
<1>7. \A p \in Providers, q \in Owners : Going(p, q) => Going(p, q)'
  BY <1>6 DEF Going
<1>8. <<"remove_services", o>> \in Pending'
  BY <1>2, <1>3, <1>6 DEF HandlerInv
<1> QED BY <1>2, <1>5, <1>6, <1>7, <1>8, Faces DEF HandlerInv

LEMMA NotifyKeepsHandlers ==
  ASSUME TypeOK, Sorted(todo), HandlerInv, Notify
  PROVE  HandlerInv'
<1>1. PICK l, d, g : l = Head(todo)[2] /\ d = Head(todo)[3] /\ g = Head(todo)[4]
  OBVIOUS
<1>2. /\ l \in Listeners /\ Does({}) /\ UNCHANGED <<device_map, dl_map, handlers>>
      /\ \/ Head(todo) = <<"notify_add", l, d, g>>
         \/ Head(todo) = <<"notify_remove", l, d, g>>
  BY <1>1, NotifyDoes DEF Notify
<1>3. Pending = {Head(todo)} \cup Rest /\ Pending' = Rest /\ l \notin Providers
  BY <1>2, RegistryAssumption DEF Does
<1>4. /\ \A x : <<"remove_services", x>> \in Pending <=> <<"remove_services", x>> \in Pending'
      /\ \A x : <<"remove_devices", x>> \in Pending <=> <<"remove_devices", x>> \in Pending'
      /\ \A x : <<"erase", x>> \in Pending <=> <<"erase", x>> \in Pending'
      /\ \A x : <<"erase_listener", x>> \in Pending <=> <<"erase_listener", x>> \in Pending'
      /\ \A x, y : <<"delete_handler", x, y>> \in Pending <=> <<"delete_handler", x, y>> \in Pending'
  BY <1>2, <1>3
<1>5. /\ \A x, y, z : <<"new_handler", x, y, z>> \in Pending' => <<"new_handler", x, y, z>> \in Pending
      /\ \A x, y, z : <<"notify_add", x, y, z>> \in Pending' => <<"notify_add", x, y, z>> \in Pending
      /\ \A x \in Providers : \A y, z :
           <<"notify_remove", x, y, z>> \in Pending => <<"notify_remove", x, y, z>> \in Pending'
  BY <1>2, <1>3
<1>6. \A p \in Providers, o \in Owners : Going(p, o) => Going(p, o)'
  BY <1>4, <1>5 DEF Going
<1> QED BY <1>2, <1>4, <1>5, <1>6 DEF HandlerInv

LEMMA NotifyProviderKeepsHandlers ==
  ASSUME TypeOK, Sorted(todo), ClockInv, HandlerInv, NotifyProvider
  PROVE  HandlerInv'
<1>1. PICK p, d, g : p = Head(todo)[2] /\ d = Head(todo)[3] /\ g = Head(todo)[4]
  OBVIOUS
<1>2. /\ p \in Providers /\ d \in Devices /\ g \in Objects
      /\ UNCHANGED <<device_map, dl_map, handlers>>
      /\ \/ /\ Head(todo) = <<"notify_add", p, d, g>>
            /\ Does(IF d[2] # "interface" THEN {} ELSE Handled(p, d[1], g))
         \/ /\ Head(todo) = <<"notify_remove", p, d, g>>
            /\ Does(IF d[2] # "interface" THEN {} ELSE {<<"delete_handler", p, d[1]>>})
  BY <1>1, NotifyProviderDoes DEF NotifyProvider, devicevars
<1>3. CASE Head(todo) = <<"notify_add", p, d, g>>
  <2> DEFINE C == IF d[2] # "interface" THEN {} ELSE Handled(p, d[1], g)
  <2>1. Pending = {Head(todo)} \cup Rest /\ Pending' = C \cup Rest
    BY <1>2, <1>3 DEF Does
  <2>2. \A f \in C : \/ f[1] \in {"add_service", "catch"}
                     \/ f = <<"new_handler", p, d[1], g>> /\ d[2] = "interface"
    BY DEF Handled
  <2> HIDE DEF C
  <2>3. /\ \A x : <<"remove_services", x>> \in Pending <=> <<"remove_services", x>> \in Pending'
        /\ \A x : <<"remove_devices", x>> \in Pending <=> <<"remove_devices", x>> \in Pending'
        /\ \A x : <<"erase", x>> \in Pending <=> <<"erase", x>> \in Pending'
        /\ \A x : <<"erase_listener", x>> \in Pending <=> <<"erase_listener", x>> \in Pending'
        /\ \A x, y : <<"delete_handler", x, y>> \in Pending <=> <<"delete_handler", x, y>> \in Pending'
    BY <1>3, <2>1, <2>2
  <2>4. /\ \A x, y, z : <<"notify_add", x, y, z>> \in Pending' => <<"notify_add", x, y, z>> \in Pending
        /\ \A x, y, z : <<"notify_remove", x, y, z>> \in Pending => <<"notify_remove", x, y, z>> \in Pending'
        /\ \A x, y, z : <<"new_handler", x, y, z>> \in Pending' =>
             \/ <<"new_handler", x, y, z>> \in Pending
             \/ x = p /\ y = d[1] /\ z = g /\ d[2] = "interface"
    BY <1>3, <2>1, <2>2
  <2>5. p \in dl_map /\ device_map[d] = g
    <3>1. <<"notify_add", p, d, g>> \in Pending /\ p \in Hearers
      BY <1>2, <1>3, <2>1 DEF Hearers
    <3>2. p \in dl_map
      BY <1>2, <3>1 DEF HandlerInv
    <3>3. device_map[d] = g
      BY <1>2, <3>1 DEF ClockInv
    <3> QED BY <3>2, <3>3
  <2>6. d[2] = "interface" => d = Face(d[1])
    BY <1>2, Named, Faces
  <2>7. \A q \in Providers, o \in Owners : Going(q, o) => Going(q, o)'
    BY <2>3, <2>4 DEF Going
  <2> QED BY <1>2, <2>3, <2>4, <2>5, <2>6, <2>7 DEF HandlerInv
<1>4. CASE Head(todo) = <<"notify_remove", p, d, g>>
  <2> DEFINE C == IF d[2] # "interface" THEN {} ELSE {<<"delete_handler", p, d[1]>>}
  <2>1. Pending = {Head(todo)} \cup Rest /\ Pending' = C \cup Rest
    BY <1>2, <1>4 DEF Does
  <2>2. \A f \in C : f = <<"delete_handler", p, d[1]>>
    OBVIOUS
  <2>3. \A o \in Owners : d = Face(o) => <<"delete_handler", p, o>> \in Pending'
    BY <2>1, Faces
  <2> HIDE DEF C
  <2>4. /\ \A x : <<"remove_services", x>> \in Pending <=> <<"remove_services", x>> \in Pending'
        /\ \A x : <<"remove_devices", x>> \in Pending <=> <<"remove_devices", x>> \in Pending'
        /\ \A x : <<"erase", x>> \in Pending <=> <<"erase", x>> \in Pending'
        /\ \A x : <<"erase_listener", x>> \in Pending <=> <<"erase_listener", x>> \in Pending'
        /\ \A x, y : <<"delete_handler", x, y>> \in Pending => <<"delete_handler", x, y>> \in Pending'
    BY <1>4, <2>1, <2>2
  <2>5. /\ \A x, y, z : <<"notify_add", x, y, z>> \in Pending' => <<"notify_add", x, y, z>> \in Pending
        /\ \A x, y, z : <<"new_handler", x, y, z>> \in Pending' => <<"new_handler", x, y, z>> \in Pending
        /\ \A x, y, z : <<"notify_remove", x, y, z>> \in Pending =>
             <<"notify_remove", x, y, z>> \in Pending' \/ (x = p /\ y = d)
    BY <1>4, <2>1, <2>2
  <2>6. \A q \in Providers, o \in Owners : Going(q, o) => Going(q, o)'
    BY <2>3, <2>4, <2>5 DEF Going
  <2> QED BY <1>2, <2>4, <2>5, <2>6 DEF HandlerInv
<1> QED BY <1>2, <1>3, <1>4

LEMMA NewHandlerKeepsHandlers ==
  ASSUME TypeOK, Sorted(todo), HandlerInv, NewHandler
  PROVE  HandlerInv'
<1>1. PICK p, o, g : p = Head(todo)[2] /\ o = Head(todo)[3] /\ g = Head(todo)[4]
  OBVIOUS
<1>2. /\ Head(todo) = <<"new_handler", p, o, g>> /\ Does({})
      /\ p \in Providers /\ o \in Owners /\ g \in Objects
      /\ UNCHANGED <<device_map, dl_map>>
      /\ handlers' = [handlers EXCEPT ![p][o] = g]
  BY <1>1, NewHandlerDoes DEF NewHandler
<1>3. /\ Pending = {Head(todo)} \cup Rest /\ \A f \in Rest : MayPrecede(Head(todo), f)
      /\ Pending' = Rest
  BY <1>2 DEF Does
<1>4. \A f \in Rest : f[1] \notin {"erase", "erase_listener"}
  BY <1>2, <1>3 DEF MayPrecede, Removals, Dismissals, Releases
<1>5. /\ \A x : <<"remove_services", x>> \in Pending <=> <<"remove_services", x>> \in Pending'
      /\ \A x : <<"remove_devices", x>> \in Pending <=> <<"remove_devices", x>> \in Pending'
      /\ \A x : <<"erase", x>> \notin Pending'
      /\ \A x : <<"erase_listener", x>> \notin Pending'
      /\ \A x, y : <<"delete_handler", x, y>> \in Pending <=> <<"delete_handler", x, y>> \in Pending'
      /\ \A x, y, z : <<"notify_add", x, y, z>> \in Pending' => <<"notify_add", x, y, z>> \in Pending
      /\ \A x, y, z : <<"new_handler", x, y, z>> \in Pending' => <<"new_handler", x, y, z>> \in Pending
  BY <1>2, <1>3, <1>4
<1>6. p \in dl_map /\ device_map[Face(o)] # 0
  BY <1>2, <1>3 DEF HandlerInv, Objects
<1>7. \A q \in Providers, r \in Owners : (q = p /\ r = o) \/ handlers'[q][r] = handlers[q][r]
  BY <1>2 DEF TypeOK
<1> QED BY <1>2, <1>5, <1>6, <1>7 DEF HandlerInv

LEMMA DeleteHandlerKeepsHandlers ==
  ASSUME TypeOK, Sorted(todo), HandlerInv, DeleteHandler
  PROVE  HandlerInv'
<1>1. PICK p, o : p = Head(todo)[2] /\ o = Head(todo)[3]
  OBVIOUS
<1> DEFINE C == IF handlers[p][o] = 0 THEN {} ELSE {<<"remove_service", <<o, p>> >>}
<1>2. /\ Head(todo) = <<"delete_handler", p, o>> /\ Does(C)
      /\ p \in Providers /\ o \in Owners
      /\ UNCHANGED <<device_map, dl_map>>
      /\ handlers' = [handlers EXCEPT ![p][o] = 0]
  BY <1>1, DeleteHandlerDoes DEF DeleteHandler
<1>3. Pending = {Head(todo)} \cup Rest /\ Pending' = C \cup Rest
  BY <1>2 DEF Does
<1>4. \A f \in C : f[1] = "remove_service"
  OBVIOUS
<1> HIDE DEF C
<1>5. /\ \A x : <<"remove_services", x>> \in Pending <=> <<"remove_services", x>> \in Pending'
      /\ \A x : <<"remove_devices", x>> \in Pending <=> <<"remove_devices", x>> \in Pending'
      /\ \A x : <<"erase", x>> \in Pending <=> <<"erase", x>> \in Pending'
      /\ \A x : <<"erase_listener", x>> \in Pending <=> <<"erase_listener", x>> \in Pending'
      /\ \A x, y : <<"delete_handler", x, y>> \in Pending =>
           <<"delete_handler", x, y>> \in Pending' \/ (x = p /\ y = o)
  BY <1>2, <1>3, <1>4
<1>6. /\ \A x, y, z : <<"notify_add", x, y, z>> \in Pending' => <<"notify_add", x, y, z>> \in Pending
      /\ \A x, y, z : <<"new_handler", x, y, z>> \in Pending' => <<"new_handler", x, y, z>> \in Pending
      /\ \A x, y, z : <<"notify_remove", x, y, z>> \in Pending => <<"notify_remove", x, y, z>> \in Pending'
  BY <1>2, <1>3, <1>4
<1>7. \A q \in Providers, r \in Owners :
        handlers'[q][r] = IF q = p /\ r = o THEN 0 ELSE handlers[q][r]
  BY <1>2 DEF TypeOK
<1>8. \A q \in Providers, r \in Owners : (q = p /\ r = o) \/ (Going(q, r) => Going(q, r)')
  <2> SUFFICES ASSUME NEW q \in Providers, NEW r \in Owners, ~(q = p /\ r = o), Going(q, r)
               PROVE  Going(q, r)'
    OBVIOUS
  <2>1. CASE <<"delete_handler", q, r>> \in Pending
    BY <1>5, <2>1 DEF Going
  <2>2. CASE \E g \in Objects : <<"notify_remove", q, Face(r), g>> \in Pending
    BY <1>6, <2>2 DEF Going
  <2> QED BY <2>1, <2>2 DEF Going
<1> QED BY <1>2, <1>5, <1>6, <1>7, <1>8 DEF HandlerInv

LEMMA RemoveListenerKeepsHandlers ==
  ASSUME TypeOK, Sorted(todo), HandlerInv, RemoveListener
  PROVE  HandlerInv'
<1>1. PICK l : l = Head(todo)[2]
  OBVIOUS
<1> DEFINE C == {<<"notify_remove", l, d, device_map[d]>> : d \in Registered}
                \cup {<<"erase_listener", l>>}
<1>2. /\ Head(todo) = <<"remove_listener", l>> /\ Does(C)
      /\ UNCHANGED <<device_map, dl_map, handlers>>
  BY <1>1, RemoveListenerDoes DEF RemoveListener, devicevars
<1>3. /\ Pending = {Head(todo)} \cup Rest /\ \A f \in Rest : MayPrecede(Head(todo), f)
      /\ Pending' = C \cup Rest
  BY <1>2 DEF Does
<1>4. \A f \in Rest : f[1] \notin {"remove_services", "remove_devices", "delete_handler"}
  BY <1>2, <1>3 DEF MayPrecede, Removals, Dismissals, Releases
<1>5. \A f \in C : f[1] = "notify_remove" \/ f = <<"erase_listener", l>>
  OBVIOUS
<1>6. \A d \in Registered : <<"notify_remove", l, d, device_map[d]>> \in Pending'
  BY <1>3
<1> HIDE DEF C
<1>7. /\ \A x : <<"remove_services", x>> \notin Pending
      /\ \A x : <<"remove_devices", x>> \notin Pending'
      /\ \A x : <<"erase", x>> \in Pending <=> <<"erase", x>> \in Pending'
      /\ \A x : <<"erase_listener", x>> \in Pending' => <<"erase_listener", x>> \in Pending \/ x = l
      /\ \A x, y : <<"delete_handler", x, y>> \notin Pending
  BY <1>2, <1>3, <1>4, <1>5
<1>8. /\ \A x, y, z : <<"notify_add", x, y, z>> \in Pending' => <<"notify_add", x, y, z>> \in Pending
      /\ \A x, y, z : <<"new_handler", x, y, z>> \in Pending' => <<"new_handler", x, y, z>> \in Pending
      /\ \A x, y, z : <<"notify_remove", x, y, z>> \in Pending => <<"notify_remove", x, y, z>> \in Pending'
  BY <1>2, <1>3, <1>5
<1>9. \A p \in Providers, o \in Owners : Going(p, o) => Going(p, o)'
  BY <1>7, <1>8 DEF Going
<1>10. \A o \in Owners : device_map[Face(o)] # 0 => Going(l, o)'
  <2> SUFFICES ASSUME NEW o \in Owners, device_map[Face(o)] # 0 PROVE Going(l, o)'
    OBVIOUS
  <2>1. Face(o) \in Registered /\ device_map[Face(o)] \in Objects
    BY Faces DEF Registered, TypeOK, Objects
  <2> QED BY <1>6, <2>1 DEF Going
<1> QED BY <1>2, <1>7, <1>8, <1>9, <1>10 DEF HandlerInv

LEMMA EraseListenerKeepsHandlers ==
  ASSUME TypeOK, Sorted(todo), HandlerInv, EraseListener
  PROVE  HandlerInv'
<1>1. PICK l : l = Head(todo)[2]
  OBVIOUS
<1>2. /\ Head(todo) = <<"erase_listener", l>> /\ Does({})
      /\ UNCHANGED <<device_map, handlers>> /\ dl_map' = dl_map \ {l}
  BY <1>1, EraseListenerDoes DEF EraseListener
<1>3. /\ Pending = {Head(todo)} \cup Rest /\ \A f \in Rest : MayPrecede(Head(todo), f)
      /\ Pending' = Rest
  BY <1>2 DEF Does
<1>4. \A f \in Rest : f[1] \notin {"new_handler", "notify_add", "delete_handler", "notify_remove"}
  BY <1>2, <1>3 DEF MayPrecede, Additions, Removals, Dismissals, Releases
<1>5. \A f \in Pending : f[1] \notin {"delete_handler", "notify_remove"}
  BY <1>2, <1>3, <1>4
<1>6. \A p \in Providers, o \in Owners : ~Going(p, o)
  BY <1>5 DEF Going
<1>7. \A p \in Providers, o \in Owners : p = l => handlers[p][o] = 0
  BY <1>2, <1>3, <1>6 DEF HandlerInv
<1>8. /\ \A x : <<"remove_services", x>> \in Pending <=> <<"remove_services", x>> \in Pending'
      /\ \A x : <<"remove_devices", x>> \in Pending <=> <<"remove_devices", x>> \in Pending'
      /\ \A x : <<"erase", x>> \in Pending <=> <<"erase", x>> \in Pending'
      /\ \A x : <<"erase_listener", x>> \in Pending' => <<"erase_listener", x>> \in Pending
      /\ \A x, y : <<"delete_handler", x, y>> \notin Pending
      /\ \A x, y, z : <<"new_handler", x, y, z>> \notin Pending'
      /\ \A x, y, z : <<"notify_add", x, y, z>> \notin Pending'
  BY <1>2, <1>3, <1>4
<1> QED BY <1>2, <1>6, <1>7, <1>8 DEF HandlerInv

LEMMA AddListenerKeepsHandlers ==
  ASSUME TypeOK, HandlerInv, NEW l \in Hearers, AddListener(l)
  PROVE  HandlerInv'
<1> DEFINE C == {<<"notify_add", l, d, device_map[d]>> : d \in Registered}
<1>1. /\ Starts(C) /\ UNCHANGED <<device_map, handlers>> /\ dl_map' = dl_map \cup {l}
  BY AddListenerStarts DEF AddListener
<1>2. Pending = {} /\ Pending' = C /\ \A f \in C : f[1] = "notify_add" /\ f[2] = l
  BY <1>1 DEF Starts
<1> HIDE DEF C
<1>3. /\ \A x : <<"remove_devices", x>> \notin Pending'
      /\ \A x : <<"erase", x>> \notin Pending'
      /\ \A x : <<"erase_listener", x>> \notin Pending'
      /\ \A x, y, z : <<"new_handler", x, y, z>> \notin Pending'
      /\ \A x, y, z : <<"notify_add", x, y, z>> \in Pending' => x = l
  BY <1>2
<1> QED BY <1>1, <1>2, <1>3 DEF HandlerInv

LEMMA RemoveServicesEndsHandlers ==
  ASSUME TypeOK, Sorted(todo), HandlerInv, RemoveServices
  PROVE  HandlerInv'
<1>1. PICK o : o = Head(todo)[2]
  OBVIOUS
<1> DEFINE C == {<<"delete_handler", p, o>> : p \in dl_map \cap Providers} \cup {<<"remove_own", o>>}
<1>2. /\ Head(todo) = <<"remove_services", o>> /\ Does(C)
      /\ UNCHANGED <<device_map, dl_map, handlers>>
  BY <1>1, RemoveServicesDoes DEF RemoveServices, devicevars
<1>3. /\ Pending = {Head(todo)} \cup Rest /\ \A f \in Rest : MayPrecede(Head(todo), f)
      /\ Pending' = C \cup Rest
  BY <1>2 DEF Does
<1>4. \A f \in Rest : f[1] # "remove_devices"
  BY <1>2, <1>3 DEF MayPrecede, Removals, Dismissals, Releases
<1>5. \A f \in C : f[1] \in {"delete_handler", "remove_own"}
  OBVIOUS
<1>6. \A p \in dl_map \cap Providers : <<"delete_handler", p, o>> \in Pending'
  BY <1>3
<1> HIDE DEF C
<1>7. /\ \A x : <<"remove_services", x>> \in Pending => <<"remove_services", x>> \in Pending' \/ x = o
      /\ \A x : <<"remove_devices", x>> \notin Pending'
      /\ \A x : <<"erase", x>> \in Pending <=> <<"erase", x>> \in Pending'
      /\ \A x : <<"erase_listener", x>> \in Pending <=> <<"erase_listener", x>> \in Pending'
      /\ \A x, y : <<"delete_handler", x, y>> \in Pending => <<"delete_handler", x, y>> \in Pending'
  BY <1>2, <1>3, <1>4, <1>5
<1>8. /\ \A x, y, z : <<"notify_add", x, y, z>> \in Pending' => <<"notify_add", x, y, z>> \in Pending
      /\ \A x, y, z : <<"new_handler", x, y, z>> \in Pending' => <<"new_handler", x, y, z>> \in Pending
      /\ \A x, y, z : <<"notify_remove", x, y, z>> \in Pending => <<"notify_remove", x, y, z>> \in Pending'
  BY <1>2, <1>3, <1>5
<1>9. \A p \in Providers, q \in Owners : Going(p, q) => Going(p, q)'
  BY <1>7, <1>8 DEF Going
<1> QED BY <1>2, <1>6, <1>7, <1>8, <1>9 DEF HandlerInv

LEMMA UnloadKeepsHandlers ==
  ASSUME TypeOK, Sorted(todo), HandlerInv, Unload
  PROVE  HandlerInv'
<1>1. PICK o : o = Head(todo)[2]
  OBVIOUS
<1> DEFINE C == Taken(o) \cup {<<"remove_devices", o>>, <<"remove_services", o>>, <<"unloaded", o>>}
<1>2. /\ Head(todo) = <<"unload", o>> /\ Does(C)
      /\ UNCHANGED <<device_map, dl_map, handlers>>
  BY <1>1, UnloadDoes DEF Unload, devicevars
<1>3. Pending = {Head(todo)} \cup Rest /\ Pending' = C \cup Rest
  BY <1>2 DEF Does
<1>4. \A f \in C : \/ f[1] \in {"remove_device", "unloaded"}
                   \/ f \in {<<"remove_devices", o>>, <<"remove_services", o>>}
  BY DEF Taken
<1>5. <<"remove_services", o>> \in Pending'
  BY <1>3
<1> HIDE DEF C
<1>6. /\ \A x : <<"remove_services", x>> \in Pending => <<"remove_services", x>> \in Pending'
      /\ \A x : <<"remove_devices", x>> \in Pending' => <<"remove_devices", x>> \in Pending \/ x = o
      /\ \A x : <<"erase", x>> \in Pending <=> <<"erase", x>> \in Pending'
      /\ \A x : <<"erase_listener", x>> \in Pending <=> <<"erase_listener", x>> \in Pending'
      /\ \A x, y : <<"delete_handler", x, y>> \in Pending <=> <<"delete_handler", x, y>> \in Pending'
  BY <1>2, <1>3, <1>4
<1>7. /\ \A x, y, z : <<"notify_add", x, y, z>> \in Pending' => <<"notify_add", x, y, z>> \in Pending
      /\ \A x, y, z : <<"new_handler", x, y, z>> \in Pending' => <<"new_handler", x, y, z>> \in Pending
      /\ \A x, y, z : <<"notify_remove", x, y, z>> \in Pending => <<"notify_remove", x, y, z>> \in Pending'
  BY <1>2, <1>3, <1>4
<1>8. \A p \in Providers, q \in Owners : Going(p, q) => Going(p, q)'
  BY <1>6, <1>7 DEF Going
<1> QED BY <1>2, <1>5, <1>6, <1>7, <1>8 DEF HandlerInv

LEMMA CallKeepsHandlers ==
  ASSUME TypeOK, Sorted(todo), HandlerInv, Call
  PROVE  HandlerInv'
<1>1. ASSUME NEW l \in Hearers, AddListener(l)
      PROVE  HandlerInv'
  BY <1>1, AddListenerKeepsHandlers
<1>2. ASSUME NEW l \in Listeners, CallRemoveListener(l)
      PROVE  HandlerInv'
  <2>1. Starts({<<"remove_listener", l>>}) /\ UNCHANGED <<device_map, dl_map, handlers>>
    BY <1>2, CallRemoveListenerStarts DEF CallRemoveListener, devicevars
  <2> QED BY <2>1, HandlersStarts DEF HandlerOps
<1>3. ASSUME NEW s \in Services, CallByOwner(s)
      PROVE  HandlerInv'
  <2> DEFINE C == {<<"withdraw", b, s>> : b \in bridge_map}
  <2>1. Starts(C) /\ UNCHANGED <<device_map, dl_map, handlers>>
    BY <1>3, CallByOwnerStarts DEF CallByOwner, devicevars
  <2>2. \A e \in C : e[1] \notin HandlerOps
    BY DEF HandlerOps
  <2> HIDE DEF C
  <2> QED BY <2>1, <2>2, HandlersStarts
<1>4. ASSUME NEW b \in Bridges, AddBridge(b)
      PROVE  HandlerInv'
  <2> DEFINE C == {<<"offer", b, s>> : s \in {x \in Services : services[x] # 0}}
  <2>1. Starts(C) /\ UNCHANGED <<device_map, dl_map, handlers>>
    BY <1>4, AddBridgeStarts DEF AddBridge, devicevars
  <2>2. \A e \in C : e[1] \notin HandlerOps
    BY DEF HandlerOps
  <2> HIDE DEF C
  <2> QED BY <2>1, <2>2, HandlersStarts
<1>5. ASSUME NEW o \in Owners, NEW end \in {<<>>, << <<"catch">> >>}, load_module(o, end)
      PROVE  HandlerInv'
  <2> DEFINE C == Given(o, objects')
                  \cup {<<"configure", o>>, <<"add_service", <<o, "own">>, objects'>>,
                        <<"loaded", o, objects'>>} \cup ToSet(end)
  <2>1. Starts(C) /\ UNCHANGED <<device_map, dl_map, handlers>>
    BY <1>5, LoadStarts DEF load_module, devicevars
  <2>2. ToSet(end) \subseteq {<<"catch">>}
    BY Nothing, Single, Made
  <2>3. \A e \in C : e[1] \notin HandlerOps
    BY <2>2 DEF Given, HandlerOps
  <2> HIDE DEF C
  <2> QED BY <2>1, <2>3, HandlersStarts
<1>6. ASSUME NEW o \in Owners, svc_reconfigure_module(o)
      PROVE  HandlerInv'
  <2> DEFINE C == Taken(o) \cup Given(o, objects')
                  \cup {<<"configure", o>>, <<"reconfigured", o, objects'>>, <<"catch">>}
  <2>1. Starts(C) /\ UNCHANGED <<device_map, dl_map, handlers>>
    BY <1>6, ReconfigureStarts DEF svc_reconfigure_module, devicevars
  <2>2. \A e \in C : e[1] \notin HandlerOps
    BY DEF Given, Taken, HandlerOps
  <2> HIDE DEF C
  <2> QED BY <2>1, <2>2, HandlersStarts
<1>7. ASSUME NEW o \in Owners, svc_remove_module(o)
      PROVE  HandlerInv'
  <2>1. Starts({<<"unload", o>>}) /\ UNCHANGED <<device_map, dl_map, handlers>>
    BY <1>7, RemoveModuleStarts DEF svc_remove_module, devicevars
  <2> QED BY <2>1, HandlersStarts DEF HandlerOps
<1>8. CASE ReadConfig
  <2>1. Starts({}) /\ UNCHANGED <<device_map, dl_map, handlers>>
    BY <1>8, ReadConfigStarts DEF ReadConfig, devicevars
  <2> QED BY <2>1, HandlersStarts
<1>9. CASE NextPhase
  <2> DEFINE C == IF phase = "providers" THEN {<<"add_service", <<Kernel, "own">>, 1>>} ELSE {}
  <2>1. Starts(C) /\ UNCHANGED <<device_map, dl_map, handlers>>
    BY <1>9, NextPhaseStarts DEF NextPhase, devicevars
  <2>2. \A e \in C : e[1] \notin HandlerOps
    BY DEF HandlerOps
  <2> HIDE DEF C
  <2> QED BY <2>1, <2>2, HandlersStarts
<1>10. CASE ConfigFails
  <2>1. Throws /\ Pending = {} /\ UNCHANGED <<device_map, dl_map, handlers>>
    BY <1>10, ConfigFailsThrows, Nothing DEF ConfigFails, Pending, devicevars
  <2> QED BY <2>1, HandlersThrows
<1>11. CASE Shutdown
  <2>1. Starts(Exit) /\ UNCHANGED <<device_map, dl_map, handlers>>
    BY <1>11, ShutdownStarts DEF Shutdown, devicevars
  <2>2. \A e \in Exit : e[1] \notin HandlerOps
    BY DEF Exit, HandlerOps
  <2> QED BY <2>1, <2>2, HandlersStarts
<1> QED BY <1>1, <1>2, <1>3, <1>4, <1>5, <1>6, <1>7, <1>8, <1>9, <1>10, <1>11, CalledAssumption
        DEF Call, CallAddListener, AddProvider, CreateModule, svc_add_module, Hearers

LEMMA ServiceStepKeepsHandlers ==
  ASSUME TypeOK, Sorted(todo), HandlerInv, ServiceStep
  PROVE  HandlerInv'
<1>1. UNCHANGED <<device_map, dl_map, handlers>>
  BY DEF ServiceStep, AddService, Offer, Refuse, RemoveService, Withdraw, Delete,
         RemoveServices, RemoveOwn, RemoveBridges, devicevars
<1>2. CASE AddService
  <2>1. PICK s, g : s = Head(todo)[2] /\ g = Head(todo)[3]
    OBVIOUS
  <2> DEFINE C == IF services[s] # 0 THEN {} ELSE {<<"offer", b, s>> : b \in bridge_map}
  <2>2. Head(todo) = <<"add_service", s, g>> /\ Does(C)
    BY <1>2, <2>1, AddServiceDoes
  <2>3. Head(todo)[1] \notin HandlerOps /\ \A e \in C : e[1] \notin HandlerOps
    BY <2>2 DEF HandlerOps
  <2> HIDE DEF C
  <2> QED BY <1>1, <2>2, <2>3, HandlersDoes
<1>3. CASE Offer
  <2>1. Does({}) /\ Head(todo)[1] = "offer"
    BY <1>3, OfferDoes
  <2> QED BY <1>1, <2>1, HandlersDoes DEF HandlerOps
<1>4. CASE Refuse
  <2>1. Throws /\ todo # <<>> /\ Head(todo)[1] = "offer"
    BY <1>4, RefuseThrows
  <2>2. \A f \in Pending : f[1] \notin {"notify_remove", "delete_handler", "remove_services",
                                        "remove_devices", "erase", "erase_listener"}
    BY <2>1, Heads DEF MayPrecede, Removals, Dismissals, Releases
  <2> QED BY <1>1, <2>1, <2>2, HandlersThrows
<1>5. CASE RemoveService
  <2>1. PICK s : s = Head(todo)[2]
    OBVIOUS
  <2> DEFINE C == IF services[s] = 0 THEN {}
                  ELSE {<<"withdraw", b, s>> : b \in bridge_map} \cup {<<"delete", s>>}
  <2>2. Head(todo) = <<"remove_service", s>> /\ Does(C)
    BY <1>5, <2>1, RemoveServiceDoes
  <2>3. Head(todo)[1] \notin HandlerOps /\ \A e \in C : e[1] \notin HandlerOps
    BY <2>2 DEF HandlerOps
  <2> HIDE DEF C
  <2> QED BY <1>1, <2>2, <2>3, HandlersDoes
<1>6. CASE Withdraw
  <2>1. Does({}) /\ Head(todo)[1] = "withdraw"
    BY <1>6, WithdrawDoes
  <2> QED BY <1>1, <2>1, HandlersDoes DEF HandlerOps
<1>7. CASE Delete
  <2>1. Does({}) /\ Head(todo)[1] = "delete"
    BY <1>7, DeleteDoes
  <2> QED BY <1>1, <2>1, HandlersDoes DEF HandlerOps
<1>8. CASE RemoveOwn
  <2>1. PICK o : o = Head(todo)[2]
    OBVIOUS
  <2> DEFINE C == {<<"remove_service", s>> : s \in {x \in Services : x[1] = o}}
  <2>2. Head(todo) = <<"remove_own", o>> /\ Does(C)
    BY <1>8, <2>1, RemoveOwnDoes
  <2>3. Head(todo)[1] \notin HandlerOps /\ \A e \in C : e[1] \notin HandlerOps
    BY <2>2 DEF HandlerOps
  <2> HIDE DEF C
  <2> QED BY <1>1, <2>2, <2>3, HandlersDoes
<1>9. CASE RemoveBridges
  <2>1. Does({}) /\ Head(todo)[1] = "remove_bridges"
    BY <1>9, RemoveBridgesDoes
  <2> QED BY <1>1, <2>1, HandlersDoes DEF HandlerOps
<1> QED BY <1>2, <1>3, <1>4, <1>5, <1>6, <1>7, <1>8, <1>9, RemoveServicesEndsHandlers
        DEF ServiceStep

LEMMA ModuleStepKeepsHandlers ==
  ASSUME TypeOK, Sorted(todo), HandlerInv, ModuleStep
  PROVE  HandlerInv'
<1>1. UNCHANGED <<device_map, dl_map, handlers>>
  BY DEF ModuleStep, Configured, ConfigureFails, Loaded, Reconfigured, Unload, Unloaded, devicevars
<1>2. CASE Configured
  <2>1. Does({}) /\ Head(todo)[1] = "configure"
    BY <1>2, ConfiguredDoes
  <2> QED BY <1>1, <2>1, HandlersDoes DEF HandlerOps
<1>3. CASE ConfigureFails
  <2>1. Throws /\ todo # <<>> /\ Head(todo)[1] \in {"configure", "add_device"}
    BY <1>3, ConfigureFailsThrows
  <2>2. \A f \in Pending : f[1] \notin {"notify_remove", "delete_handler", "remove_services",
                                        "remove_devices", "erase", "erase_listener"}
    BY <2>1, Heads DEF MayPrecede, Removals, Dismissals, Releases
  <2> QED BY <1>1, <2>1, <2>2, HandlersThrows
<1>4. CASE Loaded
  <2>1. Does({}) /\ Head(todo)[1] = "loaded"
    BY <1>4, LoadedDoes
  <2> QED BY <1>1, <2>1, HandlersDoes DEF HandlerOps
<1>5. CASE Reconfigured
  <2>1. Does({}) /\ Head(todo)[1] = "reconfigured"
    BY <1>5, ReconfiguredDoes
  <2> QED BY <1>1, <2>1, HandlersDoes DEF HandlerOps
<1>6. CASE Unloaded
  <2>1. Does({}) /\ Head(todo)[1] = "unloaded"
    BY <1>6, UnloadedDoes
  <2> QED BY <1>1, <2>1, HandlersDoes DEF HandlerOps
<1> QED BY <1>2, <1>3, <1>4, <1>5, <1>6, UnloadKeepsHandlers DEF ModuleStep

LEMMA DeviceStepKeepsHandlers ==
  ASSUME TypeOK, Sorted(todo), ClockInv, HandlerInv, DeviceStep
  PROVE  HandlerInv'
<1>1. CASE EndOfTry
  <2>1. Does({}) /\ Head(todo)[1] = "catch" /\ UNCHANGED <<device_map, dl_map, handlers>>
    BY <1>1, EndOfTryDoes DEF EndOfTry, devicevars
  <2> QED BY <2>1, HandlersDoes DEF HandlerOps
<1> QED BY <1>1, AddDeviceKeepsHandlers, RemoveDeviceKeepsHandlers, EraseDeviceKeepsHandlers,
           RemoveDevicesKeepsHandlers, NotifyKeepsHandlers, NotifyProviderKeepsHandlers,
           NewHandlerKeepsHandlers, DeleteHandlerKeepsHandlers, RemoveListenerKeepsHandlers,
           EraseListenerKeepsHandlers DEF DeviceStep

LEMMA OrderAndHandlers == Spec => [](Ordered /\ ClockInv /\ HandlerInv)
<1>1. Init => HandlerInv
  <2> SUFFICES ASSUME Init PROVE HandlerInv
    OBVIOUS
  <2>1. Pending = {} /\ \A p \in Providers, o \in Owners : handlers[p][o] = 0
    BY InitOrdered DEF Init, None
  <2> QED BY <2>1 DEF HandlerInv
<1>2. Ordered /\ ClockInv /\ HandlerInv /\ [Next]_vars => HandlerInv'
  <2> SUFFICES ASSUME Ordered, ClockInv, HandlerInv, [Next]_vars PROVE HandlerInv'
    OBVIOUS
  <2>1. TypeOK /\ Sorted(todo)
    BY DEF Ordered
  <2>2. CASE Next
    BY <2>1, <2>2, CallKeepsHandlers, DeviceStepKeepsHandlers, ServiceStepKeepsHandlers,
       ModuleStepKeepsHandlers DEF Next
  <2>3. CASE UNCHANGED vars
    BY <2>3, SameHandlers DEF Pending, vars, modulevars, servicevars, devicevars
  <2> QED BY <2>2, <2>3
<1> QED BY <1>1, <1>2, OrderAndClocks, PTL DEF Spec
=============================================================================
