---------------------------- MODULE BatcherProofs ----------------------------
(***************************************************************************)
(* Proofs about the Batcher, for any number of tasks, counters and shards: *)
(* the permits of its limiter and the entries of its map stay in step, and *)
(* a priority flush is never left for the interval.                        *)
(***************************************************************************)
EXTENDS Batcher, FiniteSetTheorems, TLAPS

Places == {"entry", "permit", "priority", "notify"}

\* A task is idle, or at a place in add with its counter.
AdderOK ==
  /\ DOMAIN adder = Adders
  /\ \A a \in Adders : adder[a] = <<"idle">> \/ adder[a] \in Places \X Counters \X BOOLEAN

\* PermitPerEntry alone is not inductive: an insertion has to add an entry, so
\* what waits for a permit is not in the map, and two tasks do not wait for the
\* same one; and what the flush task removes has to be there.
IInv ==
  /\ TypeOK /\ AdderOK
  /\ PermitPerEntry
  /\ \A a \in Adders : Waiting(a) => adder[a][2] \notin updates
  /\ \A a, b \in Adders :
       Waiting(a) /\ Waiting(b) /\ a # b => Shard[adder[a][2]] # Shard[adder[b][2]]
  /\ batch \subseteq updates

\* Nobody has begun.
LEMMA InitIInv == Init => IInv
<1> SUFFICES ASSUME Init PROVE IInv
  OBVIOUS
<1>a. notified \in BOOLEAN /\ priority \in BOOLEAN
  BY Zenon DEF Init
<1>b. /\ \A a \in Adders : adder[a] = <<"idle">> /\ adder[a][1] = "idle"
      /\ DOMAIN adder = Adders
  BY DEF Init
<1>c. permits \in 0 .. Permits /\ adds \in 0 .. MaxAdds /\ faults \in 0 .. MaxFaults
  BY BatcherAssumption, BoundsAssumption DEF Init
<1>1. TypeOK /\ AdderOK
  BY <1>a, <1>b, <1>c DEF Init, TypeOK, AdderOK
<1>2. PermitPerEntry
  BY FS_EmptySet, BatcherAssumption DEF Init, PermitPerEntry
<1> QED
  BY <1>b, <1>1, <1>2 DEF Init, IInv, Waiting

\* The map is finite.
LEMMA Finite ==
  ASSUME IInv
  PROVE  IsFiniteSet(updates) /\ Cardinality(updates) \in Nat /\ permits \in Nat
  BY BatcherAssumption, FS_Subset, FS_CardinalityType DEF IInv, TypeOK

\* A task that goes on to a place other than waiting changes its place only.
LEMMA Places1 ==
  ASSUME IInv, NEW a \in Adders, NEW x \in Places,
         adder[a] # <<"idle">>, adder' = [adder EXCEPT ![a][1] = x]
  PROVE  /\ AdderOK'
         /\ adder'[a][1] = x /\ adder'[a][2] = adder[a][2]
         /\ \A b \in Adders \ {a} : adder'[b] = adder[b]
<1>1. adder[a] \in Places \X Counters \X BOOLEAN
  BY DEF IInv, AdderOK
<1>2. PICK y \in Places, c \in Counters, f \in BOOLEAN : adder[a] = <<y, c, f>>
  BY <1>1
<1>3. adder'[a] = <<x, c, f>>
  BY <1>2 DEF IInv, AdderOK
<1> QED
  BY <1>2, <1>3 DEF IInv, AdderOK

-----------------------------------------------------------------------------
\* One lemma per step of a task.

\* A step that changes neither the map nor who waits for a permit.
LEMMA Elsewhere ==
  ASSUME IInv, UNCHANGED <<updates, permits>>, TypeOK', AdderOK',
         \A a \in Adders : Waiting(a)' => Waiting(a) /\ adder'[a] = adder[a],
         batch' \subseteq updates
  PROVE  IInv'
<1>1. PermitPerEntry'
  BY DEF IInv, PermitPerEntry
<1> QED
  BY <1>1 DEF IInv

\* increase_by only adds writes and takes the entry.
LEMMA IncrementKeeps ==
  ASSUME IInv, NEW a \in Adders, NEW c \in Counters, NEW fast \in BOOLEAN, Increment(a, c, fast)
  PROVE  IInv'
<1>1. AdderOK' /\ \A b \in Adders : adder'[b] = IF b = a THEN <<"entry", c, fast>> ELSE adder[b]
  BY DEF IInv, AdderOK, Places, Increment
<1>2. \A b \in Adders : adder'[b][1] \in {"idle", "entry", "permit", "priority", "notify"}
  BY <1>1 DEF IInv, TypeOK
<1>3. /\ updates' \subseteq Counters /\ pending' \subseteq Counters /\ urgent' \subseteq Counters
      /\ permits' \in 0 .. Permits /\ adds' \in 0 .. MaxAdds /\ faults' \in 0 .. MaxFaults
      /\ batch' \subseteq Counters
  BY BatcherAssumption, BoundsAssumption DEF IInv, TypeOK, Increment
<1>4. TypeOK'
  BY <1>2, <1>3 DEF IInv, TypeOK, Increment
<1>5. \A b \in Adders : Waiting(b)' => Waiting(b) /\ adder'[b] = adder[b]
  BY <1>1 DEF Waiting
<1> QED
  BY <1>1, <1>4, <1>5, Elsewhere DEF IInv, Increment

\* Occupied, SetPriority and NotifyOne leave a task where it holds no shard.
LEMMA GoesOnKeeps ==
  ASSUME IInv, NEW a \in Adders, Occupied(a) \/ SetPriority(a) \/ NotifyOne(a)
  PROVE  IInv'
<1>1. /\ AdderOK'
      /\ adder'[a][1] \in {"idle", "priority", "notify"}
      /\ \A b \in Adders \ {a} : adder'[b] = adder[b]
  <2>1. CASE Occupied(a)
    <3> DEFINE x == IF adder[a][3] THEN "priority" ELSE "notify"
    <3>1. adder[a] # <<"idle">> /\ x \in Places /\ adder' = [adder EXCEPT ![a][1] = x]
      BY <2>1 DEF Occupied, Places
    <3>2. x \in {"priority", "notify"}
      OBVIOUS
    <3> HIDE DEF x
    <3> QED
      BY Zenon, <3>1, <3>2, Places1
  <2>2. CASE SetPriority(a)
    <3>1. adder[a] # <<"idle">> /\ "notify" \in Places /\ adder' = [adder EXCEPT ![a][1] = "notify"]
      BY <2>2 DEF SetPriority, Places
    <3> QED
      BY Zenon, <3>1, Places1
  <2>3. CASE NotifyOne(a)
    BY <2>3 DEF NotifyOne, IInv, AdderOK
  <2> QED
    BY <2>1, <2>2, <2>3
<1>2. UNCHANGED <<updates, pending, urgent, permits, flusher, batch, adds, faults>>
  BY DEF Occupied, SetPriority, NotifyOne
<1>3. notified' \in BOOLEAN /\ priority' \in BOOLEAN
  BY Zenon DEF IInv, TypeOK, Occupied, SetPriority, NotifyOne
<1>4. TypeOK'
  BY <1>1, <1>2, <1>3 DEF IInv, TypeOK
<1>5. \A b \in Adders : Waiting(b)' => Waiting(b) /\ adder'[b] = adder[b]
  BY <1>1 DEF Waiting
<1> QED
  BY <1>1, <1>2, <1>4, <1>5, Elsewhere DEF IInv

\* What a task begins to wait for is in no shard that is locked.
LEMMA VacantKeeps ==
  ASSUME IInv, NEW a \in Adders, Vacant(a)
  PROVE  IInv'
<1>1. /\ AdderOK'
      /\ adder'[a][1] = "permit" /\ adder'[a][2] = adder[a][2]
      /\ \A b \in Adders \ {a} : adder'[b] = adder[b]
  <2>1. adder[a] # <<"idle">> /\ "permit" \in Places /\ adder' = [adder EXCEPT ![a][1] = "permit"]
    BY DEF Vacant, Places
  <2> QED
    BY Zenon, <2>1, Places1
<1>2. UNCHANGED <<updates, pending, urgent, permits, notified, priority, flusher, batch, adds, faults>>
  BY DEF Vacant
<1>3. TypeOK'
  BY <1>1, <1>2 DEF IInv, TypeOK
<1>4. PermitPerEntry'
  BY <1>2 DEF IInv, PermitPerEntry
<1>5. adder[a][2] \notin updates /\ \A b \in Adders : Waiting(b) => Shard[adder[b][2]] # Shard[adder[a][2]]
  BY DEF Vacant, Locked
<1>6. \A b \in Adders : Waiting(b)' => b = a \/ Waiting(b)
  BY <1>1 DEF Waiting
<1>7. /\ \A b \in Adders : Waiting(b)' => adder'[b][2] \notin updates'
      /\ \A b, d \in Adders :
           Waiting(b)' /\ Waiting(d)' /\ b # d => Shard[adder'[b][2]] # Shard[adder'[d][2]]
  BY <1>1, <1>2, <1>5, <1>6 DEF IInv
<1> QED
  BY <1>1, <1>2, <1>3, <1>4, <1>7 DEF IInv

\* A permit is taken for an entry that is new.
LEMMA InsertKeeps ==
  ASSUME IInv, NEW a \in Adders, Insert(a)
  PROVE  IInv'
<1> DEFINE c == adder[a][2]
<1>0. Waiting(a) /\ permits > 0 /\ adder[a] # <<"idle">> /\ c \in Counters
  BY DEF Insert, Waiting, IInv, AdderOK
<1>1. /\ AdderOK'
      /\ adder'[a][1] \in {"priority", "notify"}
      /\ \A b \in Adders \ {a} : adder'[b] = adder[b]
  <2> DEFINE x == IF adder[a][3] THEN "priority" ELSE "notify"
  <2>1. x \in Places /\ adder' = [adder EXCEPT ![a][1] = x] /\ x \in {"priority", "notify"}
    BY DEF Insert, Places
  <2> HIDE DEF x
  <2> QED
    BY Zenon, <1>0, <2>1, Places1
<1>2. /\ UNCHANGED <<pending, urgent, notified, priority, flusher, batch, adds, faults>>
      /\ updates' = updates \cup {c} /\ permits' = permits - 1
  BY DEF Insert
<1> HIDE DEF c
<1>3. c \notin updates
  BY <1>0 DEF IInv, c
<1>4. PermitPerEntry' /\ permits' \in 0 .. Permits
  <2>1. Cardinality(updates') = Cardinality(updates) + 1
    BY <1>2, <1>3, Finite, FS_AddElement
  <2> QED
    BY <1>0, <1>2, <2>1, Finite, BatcherAssumption DEF IInv, PermitPerEntry
<1>5. TypeOK'
  BY <1>0, <1>1, <1>2, <1>4 DEF IInv, TypeOK
<1>6. \A b \in Adders : Waiting(b)' => b # a /\ Waiting(b) /\ adder'[b] = adder[b]
  BY <1>1 DEF Waiting
<1>7. \A b \in Adders : Waiting(b)' => adder'[b][2] \notin updates'
  <2> SUFFICES ASSUME NEW b \in Adders, Waiting(b)' PROVE adder'[b][2] \notin updates'
    OBVIOUS
  <2>1. b # a /\ Waiting(b) /\ adder'[b] = adder[b]
    BY <1>6
  <2>2. adder[b][2] \notin updates /\ Shard[adder[b][2]] # Shard[c]
    BY <1>0, <2>1 DEF IInv, c
  <2> QED
    BY <1>2, <2>1, <2>2
<1>8. \A b, d \in Adders :
        Waiting(b)' /\ Waiting(d)' /\ b # d => Shard[adder'[b][2]] # Shard[adder'[d][2]]
  BY <1>6 DEF IInv
<1> QED
  BY <1>1, <1>2, <1>4, <1>5, <1>7, <1>8 DEF IInv

-----------------------------------------------------------------------------
\* The flush task.

\* The flush task decides, waits, collects, or hears from Redis.
LEMMA FlusherKeeps ==
  ASSUME IInv,
         Check \/ Notified \/ Elapsed \/ Collect \/ Flushed \/ Transient \/ Unrecoverable \/ Applied
  PROVE  IInv'
<1>1. UNCHANGED <<updates, permits, adder, adds>>
  BY DEF Check, Notified, Elapsed, Collect, Flushed, Transient, Unrecoverable, Applied
<1>2. batch' \subseteq updates
  <2>1. CASE Collect
    BY <2>1 DEF Collect, Batches
  <2> QED
    BY <2>1 DEF Check, Notified, Elapsed, Flushed, Transient, Unrecoverable, Applied, IInv
<1>3. notified' \in BOOLEAN /\ priority' \in BOOLEAN
  <2>1. CASE Check \/ Notified
    BY <2>1, Zenon DEF Check, Notified, BatchReady, IInv, TypeOK
  <2>2. CASE UNCHANGED <<notified, priority>>
    BY <2>2 DEF IInv, TypeOK
  <2> QED
    BY <2>1, <2>2 DEF Elapsed, Collect, Flushed, Transient, Unrecoverable, Applied
<1>4. flusher' \in {"check", "wait", "collect", "redis", "remove", "dead"}
  BY DEF Check, Notified, BatchReady, Elapsed, Collect, Flushed, Transient, Unrecoverable, Applied
<1>5. pending' \subseteq Counters /\ urgent' \subseteq Counters
  BY DEF IInv, TypeOK, Check, Notified, Elapsed, Collect, Flushed, Transient, Unrecoverable, Applied
<1>6. faults' \in 0 .. MaxFaults
  BY BoundsAssumption
  DEF IInv, TypeOK, Check, Notified, Elapsed, Collect, Flushed, Transient, Unrecoverable, Applied
<1>7. TypeOK'
  BY <1>1, <1>2, <1>3, <1>4, <1>5, <1>6 DEF IInv, TypeOK
<1>8. AdderOK' /\ \A a \in Adders : Waiting(a)' => Waiting(a) /\ adder'[a] = adder[a]
  BY <1>1 DEF IInv, AdderOK, Waiting
<1> QED
  BY <1>1, <1>2, <1>7, <1>8, Elsewhere

\* An entry that is removed gives its permit back.
LEMMA RemoveKeeps ==
  ASSUME IInv, NEW c \in Counters, Remove(c)
  PROVE  IInv'
<1>1. /\ UNCHANGED <<pending, urgent, notified, priority, adder, flusher, adds, faults>>
      /\ c \in batch /\ c \in updates /\ batch' = batch \ {c}
  BY DEF Remove, IInv
<1>2. /\ updates' \subseteq updates /\ batch' \subseteq updates'
      /\ PermitPerEntry' /\ permits' \in 0 .. Permits
  <2>1. CASE c \in pending
    BY <1>1, <2>1 DEF Remove, IInv, TypeOK, PermitPerEntry
  <2>2. CASE c \notin pending
    <3>1. updates' = updates \ {c} /\ permits' = permits + 1
      BY <2>2 DEF Remove
    <3>2. /\ Cardinality(updates') = Cardinality(updates) - 1
          /\ Cardinality(updates') \in Nat
      BY <1>1, <3>1, Finite, FS_RemoveElement, FS_CardinalityType
    <3>3. PermitPerEntry' /\ permits' \in 0 .. Permits
      BY <3>1, <3>2, Finite, BatcherAssumption DEF IInv, PermitPerEntry
    <3> QED
      BY <1>1, <3>1, <3>3 DEF IInv
  <2> QED
    BY <2>1, <2>2
<1>3. TypeOK' /\ AdderOK'
  BY <1>1, <1>2 DEF IInv, TypeOK, AdderOK
<1> QED
  BY <1>1, <1>2, <1>3 DEF IInv, Waiting

\* Every step keeps the invariant.
LEMMA NextKeeps == IInv /\ [Next]_vars => IInv'
<1> SUFFICES ASSUME IInv, [Next]_vars PROVE IInv'
  OBVIOUS
<1>1. ASSUME NEW a \in Adders, Add(a) PROVE IInv'
  BY <1>1, GoesOnKeeps, VacantKeeps, InsertKeeps DEF Add
<1>2. CASE Consume \/ Transient \/ Unrecoverable
  BY <1>2, FlusherKeeps, RemoveKeeps DEF Consume
<1>3. CASE UNCHANGED vars
  BY <1>3 DEF vars, IInv, TypeOK, AdderOK, PermitPerEntry, Waiting
<1> QED
  BY <1>1, <1>2, <1>3, IncrementKeeps DEF Next

-----------------------------------------------------------------------------
(***************************************************************************)
(* However tasks and flushes interleave, the map of pending updates and    *)
(* the limiter agree: max_cached_counters is never exceeded, and a permit  *)
(* is never lost or given back twice.                                      *)
(***************************************************************************)
THEOREM PermitsInStep == Spec => [](TypeOK /\ PermitPerEntry)
<1>1. IInv => TypeOK /\ PermitPerEntry
  BY DEF IInv
<1> QED
  BY <1>1, InitIInv, NextKeeps, PTL DEF Spec

(***************************************************************************)
(* A flush task that waits although a priority flush was asked for has     *)
(* been notified, or is about to be: the flag is set before the notifier   *)
(* is used, and looked at after it.                                        *)
(***************************************************************************)
THEOREM PriorityIsNeverLeft == Spec => []PriorityWakes
<1>1. Init => PriorityWakes
  BY DEF Init, PriorityWakes
<1>2. PriorityWakes /\ IInv /\ [Next]_vars => PriorityWakes'
  <2> SUFFICES ASSUME PriorityWakes, IInv, [Next]_vars PROVE PriorityWakes'
    OBVIOUS
  <2>1. ASSUME NEW a \in Adders, NEW c \in Counters, NEW fast \in BOOLEAN, Increment(a, c, fast)
        PROVE  PriorityWakes'
    BY <2>1 DEF Increment, PriorityWakes, IInv, AdderOK
  <2>2. ASSUME NEW a \in Adders, Occupied(a) \/ Vacant(a) \/ Insert(a)
        PROVE  PriorityWakes'
    <3>1. /\ UNCHANGED <<flusher, priority, notified>> /\ adder[a][1] # "notify"
          /\ \A b \in Adders \ {a} : adder'[b] = adder[b]
      BY <2>2 DEF Occupied, Vacant, Insert, Waiting, IInv, AdderOK
    <3> QED
      BY <3>1 DEF PriorityWakes
  <2>3. ASSUME NEW a \in Adders, SetPriority(a) PROVE PriorityWakes'
    <3>1. adder[a] # <<"idle">> /\ "notify" \in Places /\ adder' = [adder EXCEPT ![a][1] = "notify"]
      BY <2>3 DEF SetPriority, Places
    <3>2. adder'[a][1] = "notify"
      BY Zenon, <3>1, Places1
    <3> QED
      BY <3>2 DEF PriorityWakes
  <2>4. ASSUME NEW a \in Adders, NotifyOne(a) PROVE PriorityWakes'
    BY <2>4 DEF NotifyOne, PriorityWakes
  <2>5. CASE Check \/ Notified
    <3>1. flusher' = "wait" => ~priority'
      BY Zenon, <2>5 DEF Check, Notified, BatchReady
    <3> QED
      BY <3>1 DEF PriorityWakes
  <2>6. CASE Elapsed \/ Collect \/ Flushed \/ Transient \/ Unrecoverable \/ Applied
    BY <2>6 DEF Elapsed, Collect, Flushed, Transient, Unrecoverable, Applied, PriorityWakes
  <2>7. ASSUME NEW c \in Counters, Remove(c) PROVE PriorityWakes'
    BY <2>7 DEF Remove, PriorityWakes
  <2>8. CASE UNCHANGED vars
    BY <2>8 DEF vars, PriorityWakes
  <2> QED
    BY <2>1, <2>2, <2>3, <2>4, <2>5, <2>6, <2>7, <2>8 DEF Next, Add, Consume
<1> QED
  BY <1>1, <1>2, InitIInv, NextKeeps, PTL DEF Spec
=============================================================================
