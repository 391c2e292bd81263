------------------------- MODULE RedisStorageProofs -------------------------
(***************************************************************************)
(* Proofs about the Redis storages, for any number of instances and        *)
(* counters: they implement the fixed-window store of FixedWindow, a hold  *)
(* never outlives the window of its counter, a listing finds every counter *)
(* that existed all the time, and a request that is answered Ok was        *)
(* counted once on each of its counters.                                   *)
(***************************************************************************)
EXTENDS RedisStorage, WellFoundedInduction, TLAPS

\* A leaf that names no prover is given to the SMT solver, twice if it fails, and
\* then to Zenon.
USE SMTT(20), Z3T(20), ZenonT(20)

\* The smallest of some natural numbers is one of them.
LEMMA MinIsNat ==
  ASSUME NEW S \in SUBSET Nat, S # {}
  PROVE  Min(S) \in S /\ \A x \in S : Min(S) <= x
<1> DEFINE R == OpToRel(<, Nat)
<1>1. \E x \in S : \A y \in S : ~(<<y, x>> \in R)
  BY Zenon, NatLessThanWellFounded, WFMin
<1>2. \A x, y \in Nat : x < y => <<x, y>> \in R
  BY Zenon DEF OpToRel
<1> HIDE DEF R
<1>3. PICK x \in S : \A y \in S : ~(<<y, x>> \in R)
  BY <1>1
<1>4. \A y \in S : ~(y < x)
  BY Zenon, <1>2, <1>3
<1>5. \A y \in S : x <= y
  BY <1>4
<1> QED
  BY Zenon, <1>5 DEF Min

\* Amounts are natural numbers.
LEMMA AmountsAreNat == \A a \in Amounts : a \in Nat
  BY AmountsAssumption

\* The parts of the inductive invariant: what the instances are doing, what is
\* in Redis, and the rest.
LocalsOK ==
  /\ pc \in [Instances -> {"idle", "update", "report", "reserve", "held", "commit",
                           "release", "list", "del", "delset"}]
  /\ call \in [Instances -> Calls]
  /\ todo \in [Instances -> SUBSET Counters]
  /\ AddsAmounts
  /\ \A p \in Instances : pc[p] = "reserve" => call[p].when <= now

StoreOK ==
  /\ now \in Nat
  /\ value \in [Counters -> Nat] /\ expiry \in [Counters -> Nat]
  /\ \A c \in Counters : expiry[c] > now \/ (expiry[c] = 0 /\ value[c] = 0)
  /\ members \subseteq Counters
  /\ holds \in [Counters -> SUBSET [id : Nat, amount : Nat, expires : Nat]]
  /\ holdsEnd \in [Counters -> Nat]
  /\ \A c \in Counters :
       /\ expiry[c] <= now + Window[c]
       /\ \A h \in holds[c] : h.expires <= now + Window[c]
  /\ HoldsWithinWindow

RestOK ==
  /\ loaded \in BOOLEAN
  /\ calls \in Nat /\ faults \in Nat
  /\ forced \in [Counters -> Nat]
  /\ orphans \subseteq Counters
  /\ settled \subseteq Nat \X Counters
  /\ marks \subseteq {"unreserved", "miscounted", "noscript", "unlisted"}

\* The parts make up the invariant.
LEMMA Parts == IInv <=> LocalsOK /\ StoreOK /\ RestOK
  BY DEF IInv, TypeOK, Exists, EndsInTime, LocalsOK, StoreOK, RestOK

\* Nothing is in Redis, and nothing is going on.
LEMMA InitOK == Init => LocalsOK /\ StoreOK /\ RestOK
<1> SUFFICES ASSUME Init PROVE LocalsOK /\ StoreOK /\ RestOK
  OBVIOUS
<1>1. NoCall \in Calls
  BY DEF NoCall, Calls
<1>2. LocalsOK
  BY <1>1 DEF Init, LocalsOK, AddsAmounts
<1>3. StoreOK
  BY CountersAssumption DEF Init, StoreOK, HoldsWithinWindow
<1>4. RestOK
  BY DEF Init, RestOK
<1> QED
  BY <1>2, <1>3, <1>4

-----------------------------------------------------------------------------
\* The steps of an instance on its own locals.

\* p goes on at l with the locals k.
LEMMA Locals ==
  ASSUME LocalsOK, now' = now, NEW p \in Instances, NEW k \in Calls, NEW l,
         NEW ts \in SUBSET Counters,
         l \in {"idle", "update", "report", "reserve", "held", "commit", "release", "list",
                "del", "delset"},
         l \in {"update", "report", "commit"} => k.amount \in Amounts,
         l = "reserve" => k.when <= now,
         pc' = [pc EXCEPT ![p] = l], call' = [call EXCEPT ![p] = k],
         todo' = [todo EXCEPT ![p] = ts]
  PROVE  LocalsOK'
<1>1. AddsAmounts'
  BY DEF LocalsOK, AddsAmounts
<1> QED
  BY <1>1 DEF LocalsOK

\* An operation that returns leaves no locals.
LEMMA Returns ==
  ASSUME LocalsOK, now' = now, NEW p \in Instances, Return(p)
  PROVE  LocalsOK'
<1>1. NoCall \in Calls /\ {} \in SUBSET Counters
  BY DEF NoCall, Calls
<1> QED
  BY Zenon, <1>1, Locals DEF Return, Goto

\* Keys that are gone are struck from all listings; p may go on to delete a set.
LEMMA Forgets ==
  ASSUME LocalsOK, now \in Nat, now' \in Nat, now <= now', NEW cs, call' = Forgotten(cs),
         \/ UNCHANGED <<pc, todo>>
         \/ \E p \in Instances : /\ pc' = [pc EXCEPT ![p] = "delset"]
                                 /\ todo' = [todo EXCEPT ![p] = {}]
  PROVE  LocalsOK'
<1>1. \A p \in Instances : /\ call'[p] \in Calls
                           /\ call'[p].amount = call[p].amount /\ call'[p].when = call[p].when
  <2> SUFFICES ASSUME NEW p \in Instances
               PROVE  /\ call'[p] \in Calls
                      /\ call'[p].amount = call[p].amount /\ call'[p].when = call[p].when
    OBVIOUS
  <2>1. call[p] \in Calls
    BY DEF LocalsOK
  <2>2. call'[p] = [call[p] EXCEPT !.since = call[p].since \ cs]
    BY DEF Forgotten
  <2>3. call[p].since \ cs \in SUBSET Counters
    BY <2>1 DEF Calls
  <2> QED
    BY <2>1, <2>2, <2>3 DEF Calls
<1>2. call' \in [Instances -> Calls]
  BY <1>1 DEF Forgotten
<1>3. /\ pc' \in [Instances -> {"idle", "update", "report", "reserve", "held", "commit",
                                "release", "list", "del", "delset"}]
      /\ todo' \in [Instances -> SUBSET Counters]
      /\ \A p \in Instances : pc'[p] # "delset" => pc'[p] = pc[p]
  BY DEF LocalsOK
<1>4. AddsAmounts'
  BY <1>1, <1>3 DEF LocalsOK, AddsAmounts
<1>5. \A p \in Instances : pc'[p] = "reserve" => call'[p].when <= now'
  <2> SUFFICES ASSUME NEW p \in Instances, pc'[p] = "reserve" PROVE call'[p].when <= now'
    OBVIOUS
  <2>1. call'[p].when = call[p].when /\ call[p].when \in Nat /\ call[p].when <= now
    BY <1>1, <1>3 DEF LocalsOK, Calls
  <2> QED
    BY <2>1
<1> QED
  BY <1>2, <1>3, <1>4, <1>5 DEF LocalsOK

\* What does not touch Redis.
LEMMA Untouched ==
  ASSUME StoreOK, now' = now, UNCHANGED store
  PROVE  StoreOK'
  BY DEF StoreOK, HoldsWithinWindow, store

-----------------------------------------------------------------------------
\* The steps of Redis.

\* The script that counts adds to the running window, or starts one.
LEMMA Increments ==
  ASSUME StoreOK, now' = now, NEW c \in Counters, NEW d \in Amounts, Increment(c, d)
  PROVE  StoreOK' /\ FW!Hit(c, d)
<1>1. /\ d \in Nat \ {0} /\ now \in Nat /\ Window[c] \in Nat \ {0}
      /\ value \in [Counters -> Nat] /\ expiry \in [Counters -> Nat]
  BY CountersAssumption, AmountsAssumption DEF StoreOK
<1>2. /\ value' = [value EXCEPT ![c] = value[c] + d]
      /\ expiry' = [expiry EXCEPT ![c] = IF expiry[c] = 0 THEN now + Window[c] ELSE expiry[c]]
  <2>1. expiry[c] = 0 => value[c] + d = d
    BY <1>1 DEF StoreOK
  <2>2. Expire(c, value[c] + d, d) = IF expiry[c] = 0 THEN now + Window[c] ELSE expiry[c]
    BY <2>1 DEF Expire, Exists
  <2> QED
    BY Zenon, <2>2 DEF Increment
<1>3. /\ value' \in [Counters -> Nat] /\ expiry' \in [Counters -> Nat]
      /\ \A e \in Counters : expiry'[e] > now' \/ (expiry'[e] = 0 /\ value'[e] = 0)
      /\ \A e \in Counters : expiry'[e] <= now' + Window[e]
  BY <1>1, <1>2, CountersAssumption DEF StoreOK
<1>4. UNCHANGED <<holds, holdsEnd>> /\ members' \subseteq Counters
  BY DEF Increment, StoreOK
<1>5. HoldsWithinWindow'
  <2> SUFFICES ASSUME NEW e \in Counters, NEW h \in holds[e], h.expires > now
               PROVE  expiry'[e] = 0 \/ h.expires <= expiry'[e]
    BY <1>4 DEF HoldsWithinWindow
  <2>1. h.expires <= now + Window[e] /\ (expiry[e] = 0 \/ h.expires <= expiry[e])
    BY DEF StoreOK, HoldsWithinWindow
  <2> QED
    BY <1>1, <1>2, <2>1
<1>6. StoreOK'
  BY <1>3, <1>4, <1>5 DEF StoreOK
<1> QED
  BY <1>2, <1>6 DEF FW!Hit

\* Deleting keys, with or without the holds.
LEMMA Drops ==
  ASSUME StoreOK, now' = now, NEW cs \in SUBSET Counters, Drop(cs),
         members' \subseteq Counters,
         \/ UNCHANGED <<holds, holdsEnd>>
         \/ /\ holds' = [c \in Counters |-> {}]
            /\ holdsEnd' = [c \in Counters |-> 0]
  PROVE  StoreOK' /\ FW!Forget(cs)
<1>1. /\ value' \in [Counters -> Nat] /\ expiry' \in [Counters -> Nat]
      /\ \A c \in Counters : expiry'[c] > now' \/ (expiry'[c] = 0 /\ value'[c] = 0)
      /\ \A c \in Counters : expiry'[c] = 0 \/ expiry'[c] = expiry[c]
  BY DEF StoreOK, Drop
<1>2. /\ holds' \in [Counters -> SUBSET [id : Nat, amount : Nat, expires : Nat]]
      /\ holdsEnd' \in [Counters -> Nat]
      /\ \A c \in Counters : holds'[c] \subseteq holds[c]
  BY DEF StoreOK
<1>3. \A c \in Counters : /\ expiry'[c] <= now' + Window[c]
                          /\ \A h \in holds'[c] : h.expires <= now' + Window[c]
  BY <1>1, <1>2, CountersAssumption DEF StoreOK
<1>4. HoldsWithinWindow'
  BY <1>1, <1>2 DEF StoreOK, HoldsWithinWindow
<1> QED
  BY <1>1, <1>2, <1>3, <1>4 DEF StoreOK, FW!Forget, Drop

\* Time passes: exactly the windows that end now are gone.
LEMMA Ticks ==
  ASSUME StoreOK, Tick
  PROVE  StoreOK' /\ FW!Tick
<1>1. /\ now \in Nat /\ now' = now + 1
      /\ value \in [Counters -> Nat] /\ expiry \in [Counters -> Nat]
  BY DEF StoreOK, Tick
<1>2. /\ value' = [c \in Counters |-> IF expiry[c] = now + 1 THEN 0 ELSE value[c]]
      /\ expiry' = [c \in Counters |-> IF expiry[c] = now + 1 THEN 0 ELSE expiry[c]]
  BY DEF Tick, Drop
<1>3. \A c \in Counters : expiry[c] > now \/ (expiry[c] = 0 /\ value[c] = 0)
  BY DEF StoreOK
<1>4. /\ holds' \in [Counters -> SUBSET [id : Nat, amount : Nat, expires : Nat]]
      /\ holdsEnd' \in [Counters -> Nat] /\ members' \subseteq Counters
      /\ \A c \in Counters : holds'[c] \subseteq holds[c]
  BY DEF StoreOK, Tick
<1>5. /\ value' \in [Counters -> Nat] /\ expiry' \in [Counters -> Nat]
      /\ \A c \in Counters : expiry'[c] > now' \/ (expiry'[c] = 0 /\ value'[c] = 0)
  BY <1>1, <1>2, <1>3
<1>6. \A c \in Counters : \A h \in holds'[c] :
        /\ h \in holds[c] /\ h.expires \in Nat
        /\ h.expires <= now + Window[c]
  BY <1>4 DEF StoreOK
<1>7. \A c \in Counters : /\ expiry'[c] <= now' + Window[c]
                          /\ \A h \in holds'[c] : h.expires <= now' + Window[c]
  <2> SUFFICES ASSUME NEW c \in Counters
               PROVE  /\ expiry'[c] <= now' + Window[c]
                      /\ \A h \in holds'[c] : h.expires <= now' + Window[c]
    OBVIOUS
  <2>1. Window[c] \in Nat /\ expiry[c] <= now + Window[c]
    BY CountersAssumption DEF StoreOK
  <2> QED
    BY <1>1, <1>2, <1>6, <2>1
<1>8. HoldsWithinWindow'
  <2> SUFFICES ASSUME NEW c \in Counters, NEW h \in holds'[c], h.expires > now'
               PROVE  expiry'[c] = 0 \/ h.expires <= expiry'[c]
    BY DEF HoldsWithinWindow
  <2>1. h \in holds[c] /\ h.expires > now
    BY <1>1, <1>6
  <2>2. expiry[c] = 0 \/ h.expires <= expiry[c]
    BY <2>1 DEF StoreOK, HoldsWithinWindow
  <2> QED
    BY <1>1, <1>2, <2>2
<1>9. FW!Tick
  <2>1. \A c \in Counters : (expiry[c] <= now') => \/ expiry[c] = now + 1
                                                   \/ expiry[c] = 0 /\ value[c] = 0
    BY <1>1, <1>3
  <2>2. \A c \in Counters : expiry[c] = now + 1 => expiry[c] <= now'
    BY <1>1
  <2>3. /\ value' = [c \in Counters |-> IF expiry[c] <= now' THEN 0 ELSE value[c]]
        /\ expiry' = [c \in Counters |-> IF expiry[c] <= now' THEN 0 ELSE expiry[c]]
    BY <1>2, <2>1, <2>2
  <2> QED
    BY <1>1, <2>3 DEF FW!Tick
<1> QED
  BY <1>1, <1>4, <1>5, <1>7, <1>8, <1>9 DEF StoreOK

\* The script that reserves: it starts the windows that are missing, and what it
\* holds ends within them although the caller's clock may be behind.
LEMMA Reserves ==
  ASSUME LocalsOK, StoreOK, NEW p \in Instances, ScriptReserve(p)
  PROVE  StoreOK' /\ FW!Open(call[p].cs)
<1> DEFINE k == call[p]
           holding == Admitted(p) /\ k.hold > 0
           held(c) == Outstanding(p, c) \cup IF holding THEN {Hold(p, c)} ELSE {}
<1>1. /\ k \in Calls /\ k.cs \in SUBSET Counters
      /\ k.id \in Nat /\ k.hold \in Nat /\ k.ttl \in Nat /\ k.when \in Nat
  BY DEF LocalsOK, Calls
<1>2. now \in Nat /\ now' = now /\ k.when <= now /\ UNCHANGED value
  BY DEF StoreOK, LocalsOK, ScriptReserve
<1>3. ASSUME NEW c \in Counters
      PROVE  /\ Ends(c) \in Nat /\ Ends(c) > now /\ Ends(c) <= now + Window[c]
             /\ expiry[c] # 0 => Ends(c) = expiry[c]
             /\ expiry[c] = 0 => Ends(c) = now + Window[c]
  <2>1. Window[c] \in Nat \ {0} /\ expiry[c] \in Nat /\ expiry[c] <= now + Window[c]
    BY CountersAssumption DEF StoreOK
  <2>2. expiry[c] # 0 => expiry[c] > now
    BY DEF StoreOK
  <2> QED
    BY <1>2, <2>1, <2>2 DEF Ends, Exists
<1>4. ASSUME NEW c \in Counters
      PROVE  /\ Hold(p, c) \in [id : Nat, amount : Nat, expires : Nat]
             /\ Hold(p, c).expires <= Ends(c)
  <2> DEFINE S == {k.ttl, Ends(c) - now}
  <2>1. S \in SUBSET Nat /\ S # {}
    BY <1>1, <1>2, <1>3
  <2>2. Min(S) \in Nat /\ Min(S) <= Ends(c) - now
    BY <2>1, MinIsNat
  <2>3. Hold(p, c) = [id |-> k.id, amount |-> k.hold, expires |-> k.when + Min(S)]
    BY DEF Hold
  <2> HIDE DEF S
  <2>4. k.when + Min(S) \in Nat /\ k.when + Min(S) <= Ends(c)
    BY <1>1, <1>2, <1>3, <2>2
  <2> QED
    BY <1>1, <2>3, <2>4
<1>5. ASSUME NEW c \in Counters
      PROVE  /\ Outstanding(p, c) \subseteq holds[c]
             /\ held(c) \in SUBSET [id : Nat, amount : Nat, expires : Nat]
             /\ \A h \in held(c) : h \in holds[c] \/ h.expires <= Ends(c)
  <2>1. Outstanding(p, c) \subseteq holds[c]
    BY DEF Outstanding, LiveAt
  <2>2. holds[c] \in SUBSET [id : Nat, amount : Nat, expires : Nat]
    BY DEF StoreOK
  <2> QED
    BY <1>4, <2>1, <2>2
<1>6. /\ expiry' = [c \in Counters |-> IF c \in k.cs THEN Ends(c) ELSE expiry[c]]
      /\ holds' = [c \in Counters |-> IF c \in k.cs THEN held(c) ELSE holds[c]]
      /\ holdsEnd' = [c \in Counters |-> IF c \notin k.cs THEN holdsEnd[c]
                                         ELSE IF holding THEN Ends(c)
                                         ELSE HashEnd(c, held(c))]
      /\ members' = members \cup {c \in k.cs : ~Exists(c)}
  BY DEF ScriptReserve
<1> HIDE DEF held, holding
<1>7. /\ expiry' \in [Counters -> Nat]
      /\ \A c \in Counters : expiry'[c] > now' \/ (expiry'[c] = 0 /\ value'[c] = 0)
      /\ \A c \in Counters : expiry'[c] <= now' + Window[c]
  BY <1>2, <1>3, <1>6 DEF StoreOK
<1>8. /\ holds' \in [Counters -> SUBSET [id : Nat, amount : Nat, expires : Nat]]
      /\ members' \subseteq Counters
  BY <1>1, <1>5, <1>6 DEF StoreOK
<1>9. holdsEnd' \in [Counters -> Nat]
  BY <1>3, <1>6 DEF StoreOK, HashEnd
<1>10. ASSUME NEW c \in Counters, NEW h \in holds'[c]
       PROVE  /\ h.expires <= now' + Window[c]
              /\ h.expires > now' => expiry'[c] = 0 \/ h.expires <= expiry'[c]
  <2>0. h.expires \in Nat /\ Window[c] \in Nat
    BY <1>8, CountersAssumption
  <2>1. CASE h \in holds[c]
    <3>1. /\ h.expires <= now + Window[c]
          /\ h.expires > now => expiry[c] = 0 \/ h.expires <= expiry[c]
      BY <2>1 DEF StoreOK, HoldsWithinWindow
    <3> QED
      BY ZenonT(60), <1>2, <1>3, <1>6, <3>1
  <2>2. CASE h \notin holds[c]
    <3>1. c \in k.cs /\ h.expires <= Ends(c) /\ expiry'[c] = Ends(c)
      BY <1>5, <1>6, <2>2
    <3> QED
      BY <1>2, <1>3, <2>0, <3>1
  <2> QED
    BY <2>1, <2>2
<1>11. StoreOK'
  BY <1>2, <1>7, <1>8, <1>9, <1>10 DEF StoreOK, HoldsWithinWindow
<1>12. FW!Open(k.cs)
  BY <1>2, <1>3, <1>6 DEF FW!Open
<1> QED
  BY <1>11, <1>12

\* A hold is released.
LEMMA Releases ==
  ASSUME StoreOK, NEW p \in Instances, NEW c \in Counters, Release(p, c)
  PROVE  StoreOK' /\ UNCHANGED <<now, value, expiry>>
<1>1. UNCHANGED <<now, value, expiry, members>>
  BY DEF Release
<1>2. /\ holds' \in [Counters -> SUBSET [id : Nat, amount : Nat, expires : Nat]]
      /\ \A e \in Counters : holds'[e] \subseteq holds[e]
  BY DEF StoreOK, Release
<1>3. holdsEnd' \in [Counters -> Nat]
  BY DEF StoreOK, Release, HashEnd
<1>4. HoldsWithinWindow'
  BY <1>1, <1>2 DEF StoreOK, HoldsWithinWindow
<1> QED
  BY <1>1, <1>2, <1>3, <1>4 DEF StoreOK

-----------------------------------------------------------------------------
\* One lemma per operation: the invariant is kept, and Redis takes a step of the
\* fixed-window store or none.

\* The operations that start with arguments of their own.
LEMMA StartsKeep ==
  ASSUME LocalsOK, StoreOK, RestOK, NEW p \in Instances, NEW c, NEW cs, NEW a, NEW l,
         \/ cs \in Requests /\ a \in Amounts /\ (Evaluate(p, cs, a) \/ Report(p, cs, a))
         \/ cs \in Requests /\ a \in Amounts /\ l \in Ttls /\ Reserve(p, cs, a, l)
         \/ cs \in Requests /\ GetCounters(p, cs)
         \/ c \in Counters /\ DeleteCounters(p, c)
  PROVE  LocalsOK' /\ StoreOK' /\ RestOK' /\ UNCHANGED <<now, value, expiry>>
<1>0. /\ cs \in Requests => cs \in SUBSET Counters
      /\ a \in Amounts => a \in Nat
      /\ l \in Ttls => l \in Nat
      /\ calls \in Nat /\ now \in Nat /\ members \subseteq Counters
  <2>1. cs \in Requests => cs \in SUBSET Counters
    BY CountersAssumption
  <2>2. l \in Ttls => l \in Nat
    BY AmountsAssumption
  <2> QED
    BY <2>1, <2>2, AmountsAreNat DEF StoreOK, RestOK
<1>a. /\ calls' = calls + 1 /\ UNCHANGED <<now, store, loaded, faults, history>>
  BY DEF Evaluate, Report, Reserve, GetCounters, DeleteCounters, Begin
<1>b. StoreOK' /\ RestOK' /\ UNCHANGED <<now, value, expiry>>
  BY <1>a, Untouched DEF RestOK, store, history
<1>1. CASE cs \in Requests /\ a \in Amounts /\ (Evaluate(p, cs, a) \/ Report(p, cs, a))
  <2> DEFINE k == [NoCall EXCEPT !.cs = cs, !.amount = a]
  <2>1. k \in Calls /\ k.amount = a
    BY Zenon, <1>0, <1>1 DEF NoCall, Calls
  <2>2. call' = [call EXCEPT ![p] = k] /\ todo' = [todo EXCEPT ![p] = cs]
    BY <1>1 DEF Evaluate, Report
  <2> HIDE DEF k
  <2>3. CASE pc' = [pc EXCEPT ![p] = "update"]
    BY Zenon, <1>0, <1>1, <1>a, <1>b, <2>1, <2>2, <2>3, Locals
  <2>4. CASE pc' = [pc EXCEPT ![p] = "report"]
    BY Zenon, <1>0, <1>1, <1>a, <1>b, <2>1, <2>2, <2>4, Locals
  <2> QED
    BY <1>1, <2>3, <2>4 DEF Evaluate, Report, Goto
<1>2. CASE cs \in Requests /\ a \in Amounts /\ l \in Ttls /\ Reserve(p, cs, a, l)
  <2> DEFINE h == Min({a} \cup {Cap[d] : d \in cs})
             k == [NoCall EXCEPT !.cs = cs, !.amount = a, !.id = calls + 1,
                                 !.hold = h, !.ttl = l, !.when = now]
  <2>1. h \in Nat
    <3>1. {a} \cup {Cap[d] : d \in cs} \in SUBSET Nat
      BY <1>0, <1>2, CountersAssumption
    <3> QED
      BY <3>1, MinIsNat
  <2>2. call' = [call EXCEPT ![p] = k]
    BY <1>2, Zenon DEF Reserve
  <2> HIDE DEF h
  <2>3. k \in Calls /\ k.when = now
    <3>1. calls + 1 \in Nat
      BY <1>0
    <3>2. NoCall \in Calls
      BY DEF NoCall, Calls
    <3> QED
      BY Zenon, <1>0, <1>2, <2>1, <3>1, <3>2 DEF Calls
  <2> HIDE DEF k
  <2>4. k.when <= now
    BY <1>0, <2>3
  <2>5. pc' = [pc EXCEPT ![p] = "reserve"] /\ todo' = [todo EXCEPT ![p] = {}]
    BY <1>2 DEF Reserve, Goto
  <2> QED
    BY Zenon, <1>a, <1>b, <2>2, <2>3, <2>4, <2>5, Locals
<1>3. CASE cs \in Requests /\ GetCounters(p, cs)
  <2> DEFINE k == [NoCall EXCEPT !.cs = cs, !.since = {d \in cs : Exists(d)}]
  <2>1. k \in Calls
    BY Zenon, <1>0, <1>3 DEF NoCall, Calls
  <2>2. /\ call' = [call EXCEPT ![p] = k] /\ pc' = [pc EXCEPT ![p] = "list"]
        /\ todo' = [todo EXCEPT ![p] = members \cap cs]
    BY <1>3 DEF GetCounters, Goto
  <2> HIDE DEF k
  <2>3. members \cap cs \in SUBSET Counters
    BY <1>0, <1>3
  <2> QED
    BY Zenon, <1>a, <1>b, <2>1, <2>2, <2>3, Locals
<1>4. CASE c \in Counters /\ DeleteCounters(p, c)
  <2> DEFINE k == [NoCall EXCEPT !.cs = {c}]
             to == IF c \in members THEN "del" ELSE "delset"
  <2>1. k \in Calls
    BY Zenon, <1>4 DEF NoCall, Calls
  <2>2. /\ call' = [call EXCEPT ![p] = k] /\ pc' = [pc EXCEPT ![p] = to]
        /\ todo' = [todo EXCEPT ![p] = members \cap {c}]
    BY <1>4 DEF DeleteCounters, Goto
  <2>3. members \cap {c} \in SUBSET Counters /\ to \in {"del", "delset"}
    BY <1>4
  <2> HIDE DEF k, to
  <2> QED
    BY Zenon, <1>a, <1>b, <2>1, <2>2, <2>3, Locals
<1> QED
  BY <1>1, <1>2, <1>3, <1>4

\* The operations that end, by an answer or by an error.
LEMMA EndsKeep ==
  ASSUME LocalsOK, StoreOK, RestOK, NEW p \in Instances,
         Fail(p) \/ Updated(p) \/ Abandon(p) \/ DelSet(p)
  PROVE  LocalsOK' /\ StoreOK' /\ RestOK' /\ UNCHANGED <<now, value, expiry>>
<1>1. Return(p) /\ UNCHANGED <<now, value, expiry, holds, holdsEnd>> /\ members' \subseteq members
  BY DEF Fail, Updated, Abandon, DelSet, store
<1>2. /\ UNCHANGED <<loaded, calls, forced, orphans, settled>>
      /\ marks' \subseteq marks \cup {"miscounted"}
  BY DEF Fail, Updated, Abandon, DelSet, history
<1>3. faults' = faults \/ faults' = faults + 1
  BY DEF Fail, Updated, Abandon, DelSet
<1>4. RestOK'
  BY <1>2, <1>3 DEF RestOK
<1>5. StoreOK'
  BY <1>1 DEF StoreOK, HoldsWithinWindow
<1> QED
  BY <1>1, <1>4, <1>5, Returns

\* A request that is denied leaves no trace; ScriptFlush and Quiesce are no steps
\* of an instance.
LEMMA IdleKeeps ==
  ASSUME LocalsOK, StoreOK, RestOK,
         \/ \E p \in Instances, cs \in Requests, a \in Amounts : Deny(p, cs, a)
         \/ ScriptFlush \/ Quiesce
  PROVE  LocalsOK' /\ StoreOK' /\ RestOK' /\ UNCHANGED <<now, value, expiry>>
<1>1. UNCHANGED <<now, store, pc, call, todo>>
  BY DEF Deny, ScriptFlush, Quiesce, vars
<1>2. RestOK'
  <2>1. CASE \E p \in Instances, cs \in Requests, a \in Amounts : Deny(p, cs, a)
    BY <2>1 DEF RestOK, Deny, Begin, history
  <2>2. CASE ScriptFlush
    <3>1. loaded' \in BOOLEAN /\ UNCHANGED <<calls, forced, orphans, settled>>
      BY <2>2, Zenon DEF ScriptFlush
    <3>2. faults' \in Nat
      BY <2>2 DEF RestOK, ScriptFlush
    <3>3. marks' \subseteq marks \cup {"noscript"}
      BY <2>2 DEF ScriptFlush, Midway
    <3> QED
      BY <3>1, <3>2, <3>3 DEF RestOK
  <2>3. CASE Quiesce
    BY <2>3 DEF RestOK, Quiesce, vars, history
  <2> QED
    BY <2>1, <2>2, <2>3
<1> QED
  BY <1>1, <1>2, Untouched DEF store, LocalsOK, AddsAmounts

\* A pipeline that met a missing script, and commits, go on with other locals.
LEMMA GoesOnKeeps ==
  ASSUME LocalsOK, StoreOK, RestOK, NEW p \in Instances, NEW c, NEW a,
         PipelineMisses(p, c) \/ Reload(p) \/ (a \in Amounts /\ Commit(p, a))
  PROVE  LocalsOK' /\ StoreOK' /\ RestOK' /\ UNCHANGED <<now, value, expiry>>
<1>0. /\ call[p] \in Calls /\ call[p].cs \in SUBSET Counters /\ todo[p] \in SUBSET Counters
      /\ pc[p] = "update" => call[p].amount \in Amounts
      /\ a \in Amounts => a \in Nat
  BY AmountsAreNat DEF LocalsOK, AddsAmounts, Calls
<1>1. UNCHANGED <<now, store>>
  BY DEF PipelineMisses, Reload, Commit
<1>2. RestOK'
  BY Zenon DEF PipelineMisses, Reload, Commit, RestOK, Loading, Midway, history
<1>3. LocalsOK'
  <2>1. CASE PipelineMisses(p, c)
    <3> DEFINE k == [call[p] EXCEPT !.failed = TRUE]
    <3>1. k \in Calls /\ k.amount = call[p].amount
      BY Zenon, <1>0 DEF Calls
    <3>2. /\ call' = [call EXCEPT ![p] = k] /\ pc' = [pc EXCEPT ![p] = "update"]
          /\ todo' = [todo EXCEPT ![p] = todo[p] \ {c}]
      BY <2>1 DEF PipelineMisses, LocalsOK
    <3> HIDE DEF k
    <3>3. k.amount \in Amounts /\ todo[p] \ {c} \in SUBSET Counters
      BY <1>0, <2>1, <3>1 DEF PipelineMisses
    <3> QED
      BY Zenon, <1>1, <3>1, <3>2, <3>3, Locals
  <2>2. CASE Reload(p)
    <3> DEFINE k == [call[p] EXCEPT !.failed = FALSE, !.again = TRUE]
    <3>1. k \in Calls /\ k.amount = call[p].amount
      BY Zenon, <1>0 DEF Calls
    <3>2. /\ call' = [call EXCEPT ![p] = k] /\ pc' = [pc EXCEPT ![p] = "update"]
          /\ todo' = [todo EXCEPT ![p] = call[p].cs]
      BY Zenon, <2>2 DEF Reload, LocalsOK
    <3> HIDE DEF k
    <3>3. k.amount \in Amounts
      BY <1>0, <2>2, <3>1 DEF Reload
    <3> QED
      BY Zenon, <1>0, <1>1, <3>1, <3>2, <3>3, Locals
  <2>3. CASE a \in Amounts /\ Commit(p, a)
    <3> DEFINE k == [call[p] EXCEPT !.amount = a]
    <3>1. k \in Calls /\ k.amount = a
      BY <1>0, <2>3 DEF Calls
    <3>2. /\ call' = [call EXCEPT ![p] = k] /\ pc' = [pc EXCEPT ![p] = "commit"]
          /\ todo' = [todo EXCEPT ![p] = call[p].cs]
      BY <2>3 DEF Commit, Goto
    <3> HIDE DEF k
    <3> QED
      BY Zenon, <1>0, <1>1, <2>3, <3>1, <3>2, Locals
  <2> QED
    BY <2>1, <2>2, <2>3
<1> QED
  BY <1>1, <1>2, <1>3, Untouched DEF store

\* get_counters reads one more counter.
LEMMA GetKeeps ==
  ASSUME LocalsOK, StoreOK, RestOK, NEW p \in Instances, NEW c \in Counters, Get(p, c)
  PROVE  LocalsOK' /\ StoreOK' /\ RestOK' /\ UNCHANGED <<now, value, expiry>>
<1>1. UNCHANGED <<now, store>> /\ RestOK'
  BY DEF Get, RestOK
<1>2. CASE todo[p] = {c}
  BY <1>1, <1>2, Untouched, Returns DEF Get, store
<1>3. CASE todo[p] # {c}
  <2> DEFINE found == IF Exists(c) THEN call[p].listed \cup {c} ELSE call[p].listed
             k == [call[p] EXCEPT !.listed = found]
  <2>1. call[p] \in Calls /\ found \in SUBSET Counters /\ todo[p] \ {c} \in SUBSET Counters
    BY DEF LocalsOK, Calls
  <2>2. k \in Calls
    BY <2>1 DEF Calls
  <2>3. /\ call' = [call EXCEPT ![p] = k] /\ pc' = [pc EXCEPT ![p] = "list"]
        /\ todo' = [todo EXCEPT ![p] = todo[p] \ {c}]
    BY <1>3 DEF Get, LocalsOK
  <2> HIDE DEF k
  <2> QED
    BY Zenon, <1>1, <2>1, <2>2, <2>3, Untouched, Locals DEF store
<1> QED
  BY <1>2, <1>3

\* check_and_update adds its amount to one more counter.
LEMMA UpdateKeeps ==
  ASSUME LocalsOK, StoreOK, RestOK, NEW p \in Instances, NEW c \in Counters,
         SyncUpdate(p, c) \/ PipelineRuns(p, c)
  PROVE  LocalsOK' /\ StoreOK' /\ RestOK' /\ FW!Hit(c, call[p].amount) /\ call[p].amount \in Amounts
<1>1. pc[p] = "update" /\ Incremented(p, c) /\ UNCHANGED <<pc, calls, faults>> /\ loaded' \in BOOLEAN
  BY Zenon DEF SyncUpdate, PipelineRuns, RestOK
<1>2. call[p] \in Calls /\ call[p].amount \in Amounts /\ todo[p] \ {c} \in SUBSET Counters
  BY <1>1 DEF LocalsOK, AddsAmounts
<1>3. StoreOK' /\ FW!Hit(c, call[p].amount)
  BY <1>1, <1>2, Increments DEF Incremented
<1>4. RestOK'
  BY <1>1 DEF RestOK, Incremented, Increment, Loading, Midway
<1>5. LocalsOK'
  <2> DEFINE k == [call[p] EXCEPT !.times = [call[p].times EXCEPT ![c] = call[p].times[c] + 1]]
  <2>1. k \in Calls /\ k.amount = call[p].amount
    <3>1. [call[p].times EXCEPT ![c] = call[p].times[c] + 1] \in [Counters -> Nat]
      BY <1>2 DEF Calls
    <3> QED
      BY <1>2, <3>1 DEF Calls
  <2>2. /\ call' = [call EXCEPT ![p] = k] /\ pc' = [pc EXCEPT ![p] = "update"]
        /\ todo' = [todo EXCEPT ![p] = todo[p] \ {c}]
    BY <1>1 DEF Incremented, LocalsOK
  <2> HIDE DEF k
  <2> QED
    BY Zenon, <1>1, <1>2, <2>1, <2>2, Locals DEF Incremented
<1> QED
  BY <1>2, <1>3, <1>4, <1>5

\* update_counter adds its amount, for a report or a commit.
LEMMA UpdateCounterKeeps ==
  ASSUME LocalsOK, StoreOK, RestOK, NEW p \in Instances, NEW c \in Counters, UpdateCounter(p, c)
  PROVE  LocalsOK' /\ StoreOK' /\ RestOK' /\ FW!Hit(c, call[p].amount) /\ call[p].amount \in Amounts
<1>1. pc[p] \in {"report", "commit"} /\ now' = now /\ Increment(c, call[p].amount)
  BY ZenonT(60) DEF UpdateCounter
<1>2. /\ call[p] \in Calls /\ call[p].amount \in Amounts /\ call[p].amount \in Nat
      /\ todo[p] \ {c} \in SUBSET Counters /\ call[p].cs \in SUBSET Counters
      /\ call[p].id \in Nat
  BY <1>1 DEF LocalsOK, AddsAmounts, Calls
<1>3. StoreOK' /\ FW!Hit(c, call[p].amount)
  BY ZenonT(60), <1>1, <1>2, Increments
<1>4. RestOK'
  <2>1. loaded' \in BOOLEAN /\ UNCHANGED <<calls, faults>>
    BY Zenon DEF UpdateCounter
  <2>2. forced' \in [Counters -> Nat]
    BY <1>2 DEF UpdateCounter, RestOK
  <2>3. orphans' \subseteq Counters
    BY ZenonT(60) DEF UpdateCounter, Increment, RestOK
  <2>4. settled' \subseteq Nat \X Counters
    BY <1>2 DEF UpdateCounter, RestOK
  <2>5. marks' \subseteq marks \cup {"unreserved", "noscript"}
    BY ZenonT(60) DEF UpdateCounter, Uncovered, Loading, Midway
  <2> QED
    BY <2>1, <2>2, <2>3, <2>4, <2>5 DEF RestOK
<1>5. LocalsOK'
  <2>1. AfterUpdate(p, c)
    BY DEF UpdateCounter
  <2>2. CASE todo[p] # {c}
    <3>1. /\ call' = [call EXCEPT ![p] = call[p]] /\ pc' = [pc EXCEPT ![p] = pc[p]]
          /\ todo' = [todo EXCEPT ![p] = todo[p] \ {c}]
      BY ZenonT(60), <2>1, <2>2 DEF AfterUpdate, LocalsOK
    <3> QED
      BY Zenon, <1>1, <1>2, <3>1, Locals
  <2>3. CASE todo[p] = {c} /\ pc[p] = "commit" /\ call[p].hold > 0
    <3>1. /\ call' = [call EXCEPT ![p] = call[p]] /\ pc' = [pc EXCEPT ![p] = "release"]
          /\ todo' = [todo EXCEPT ![p] = call[p].cs]
      BY ZenonT(60), <2>1, <2>3 DEF AfterUpdate, Goto, LocalsOK
    <3> QED
      BY Zenon, <1>1, <1>2, <3>1, Locals
  <2>4. CASE todo[p] = {c} /\ ~(pc[p] = "commit" /\ call[p].hold > 0)
    BY ZenonT(60), <1>1, <2>1, <2>4, Returns DEF AfterUpdate
  <2> QED
    BY <2>2, <2>3, <2>4
<1> QED
  BY <1>2, <1>3, <1>4, <1>5

\* Reserving and releasing.
LEMMA ReserveKeeps ==
  ASSUME LocalsOK, StoreOK, RestOK, NEW p \in Instances, ScriptReserve(p)
  PROVE  /\ LocalsOK' /\ StoreOK' /\ RestOK'
         /\ FW!Open(call[p].cs) /\ call[p].cs \in SUBSET Counters
<1>1. call[p] \in Calls /\ call[p].cs \in SUBSET Counters /\ todo[p] \in SUBSET Counters
  BY DEF LocalsOK, Calls
<1>2. RestOK'
  BY ZenonT(60), <1>1 DEF RestOK, ScriptReserve
<1>3. LocalsOK'
  <2>1. now' = now
    BY ZenonT(60) DEF ScriptReserve
  <2>2. CASE Admitted(p)
    <3>1. /\ call' = [call EXCEPT ![p] = call[p]] /\ pc' = [pc EXCEPT ![p] = "held"]
          /\ todo' = [todo EXCEPT ![p] = todo[p]]
      BY ZenonT(60), <2>2 DEF ScriptReserve, Goto, LocalsOK
    <3> QED
      BY ZenonT(60), <1>1, <2>1, <3>1, Locals
  <2>3. CASE ~Admitted(p)
    BY Zenon, <2>1, <2>3, Returns DEF ScriptReserve
  <2> QED
    BY <2>2, <2>3
<1> QED
  BY ZenonT(60), <1>1, <1>2, <1>3, Reserves

\* Releasing a hold leaves the counters alone.
LEMMA ReleaseKeeps ==
  ASSUME LocalsOK, StoreOK, RestOK, NEW p \in Instances, NEW c \in Counters, Release(p, c)
  PROVE  LocalsOK' /\ StoreOK' /\ RestOK' /\ UNCHANGED <<now, value, expiry>>
<1>1. StoreOK' /\ UNCHANGED <<now, value, expiry>>
  BY Releases
<1>2. RestOK'
  BY DEF RestOK, Release
<1>3. CASE todo[p] = {c}
  BY <1>1, <1>2, <1>3, Returns DEF Release
<1>4. CASE todo[p] # {c}
  <2>1. call[p] \in Calls /\ todo[p] \ {c} \in SUBSET Counters
    BY DEF LocalsOK
  <2>2. /\ call' = [call EXCEPT ![p] = call[p]] /\ pc' = [pc EXCEPT ![p] = "release"]
        /\ todo' = [todo EXCEPT ![p] = todo[p] \ {c}]
    BY ZenonT(60), <1>4 DEF Release, LocalsOK
  <2> QED
    BY Zenon, <1>1, <1>2, <2>1, <2>2, Locals
<1> QED
  BY <1>3, <1>4

\* Deleting one key, or all of them.
LEMMA DropKeeps ==
  ASSUME LocalsOK, StoreOK, RestOK, NEW p \in Instances, NEW c,
         (c \in Counters /\ Del(p, c)) \/ Clear(p)
  PROVE  /\ LocalsOK' /\ StoreOK' /\ RestOK'
         /\ \E cs \in SUBSET Counters : FW!Forget(cs)
<1>1. CASE c \in Counters /\ Del(p, c)
  <2>1. StoreOK' /\ FW!Forget({c})
    BY ZenonT(60), <1>1, Drops DEF Del, StoreOK
  <2>2. RestOK'
    BY <1>1 DEF Del, RestOK, Drop
  <2>3. LocalsOK'
    <3>1. /\ pc' = [pc EXCEPT ![p] = "delset"] /\ todo' = [todo EXCEPT ![p] = {}]
          /\ call' = Forgotten({c}) /\ now' = now
      BY <1>1 DEF Del, Goto
    <3>2. now \in Nat /\ now' \in Nat /\ now <= now'
      BY <3>1 DEF StoreOK
    <3> QED
      <4>1. \E q \in Instances : /\ pc' = [pc EXCEPT ![q] = "delset"]
                                  /\ todo' = [todo EXCEPT ![q] = {}]
        BY Zenon, <3>1
      <4> QED
        BY Zenon, <3>1, <3>2, <4>1, Forgets
  <2> QED
    BY <1>1, <2>1, <2>2, <2>3
<1>2. CASE Clear(p)
  <2>1. StoreOK' /\ FW!Forget(Counters)
    BY <1>2, Drops DEF Clear
  <2>2. RestOK'
    BY <1>2 DEF Clear, Begin, RestOK, Drop
  <2>3. LocalsOK'
    BY <1>2, <2>1, Forgets DEF Clear, StoreOK
  <2> QED
    BY <2>1, <2>2, <2>3
<1> QED
  BY <1>1, <1>2

\* Time passes.
LEMMA TickKeeps ==
  ASSUME LocalsOK, StoreOK, RestOK, Tick
  PROVE  LocalsOK' /\ StoreOK' /\ RestOK' /\ FW!Tick
<1>1. StoreOK' /\ FW!Tick
  BY Ticks
<1>2. RestOK'
  BY ZenonT(60) DEF RestOK, Tick, Drop
<1>3. now \in Nat /\ now' \in Nat /\ now <= now'
  BY DEF Tick, StoreOK
<1>4. LocalsOK'
  BY <1>3, Forgets DEF Tick
<1> QED
  BY <1>1, <1>2, <1>4

-----------------------------------------------------------------------------
\* Every step keeps the invariant and is, for the counters, one of FixedWindow.
LEMMA NextKeeps ==
  ASSUME LocalsOK, StoreOK, RestOK, [Next]_vars
  PROVE  LocalsOK' /\ StoreOK' /\ RestOK' /\ [FW!Next]_(FW!vars)
<1> DEFINE Kept == LocalsOK' /\ StoreOK' /\ RestOK'
<1>0. (Kept /\ UNCHANGED <<now, value, expiry>>) => Kept /\ [FW!Next]_(FW!vars)
  BY DEF FW!vars
<1>h. ASSUME NEW c \in Counters, NEW d \in Amounts, Kept, FW!Hit(c, d)
      PROVE  Kept /\ [FW!Next]_(FW!vars)
  BY <1>h DEF FW!Next
<1>1. ASSUME NEW p \in Instances, Start(p)
      PROVE  Kept /\ [FW!Next]_(FW!vars)
  <2>1. CASE \E cs \in Requests, a \in Amounts : Deny(p, cs, a)
    BY <1>0, <2>1, IdleKeeps
  <2>2. CASE \/ \E cs \in Requests, a \in Amounts : Evaluate(p, cs, a) \/ Report(p, cs, a)
             \/ \E cs \in Requests, a \in Amounts, l \in Ttls : Reserve(p, cs, a, l)
             \/ \E cs \in Requests : GetCounters(p, cs)
             \/ \E c \in Counters : DeleteCounters(p, c)
    <3>1. Kept /\ UNCHANGED <<now, value, expiry>>
      <4> HIDE DEF Kept
      <4>1. \A c, cs, a, l :
              \/ cs \in Requests /\ a \in Amounts /\ (Evaluate(p, cs, a) \/ Report(p, cs, a))
              \/ cs \in Requests /\ a \in Amounts /\ l \in Ttls /\ Reserve(p, cs, a, l)
              \/ cs \in Requests /\ GetCounters(p, cs)
              \/ c \in Counters /\ DeleteCounters(p, c)
              => Kept /\ UNCHANGED <<now, value, expiry>>
        BY StartsKeep DEF Kept
      <4> QED
        BY <2>2, <4>1
    <3> QED
      BY <1>0, <3>1
  <2>3. CASE Clear(p)
    BY <2>3, DropKeeps DEF FW!Next
  <2>4. CASE Abandon(p)
    BY <1>0, <2>4, EndsKeep
  <2>5. CASE \E a \in Amounts : Commit(p, a)
    BY <1>0, <2>5, GoesOnKeeps
  <2> QED
    BY <1>1, <2>1, <2>2, <2>3, <2>4, <2>5 DEF Start
<1>2. ASSUME NEW p \in Instances, NEW c \in Counters,
             \/ SyncUpdate(p, c) \/ PipelineRuns(p, c) \/ PipelineMisses(p, c)
             \/ UpdateCounter(p, c) \/ Release(p, c) \/ Get(p, c) \/ Del(p, c)
      PROVE  Kept /\ [FW!Next]_(FW!vars)
  <2>1. CASE SyncUpdate(p, c) \/ PipelineRuns(p, c)
    BY <1>h, <2>1, UpdateKeeps
  <2>2. CASE PipelineMisses(p, c)
    BY <1>0, <2>2, GoesOnKeeps
  <2>3. CASE UpdateCounter(p, c)
    BY <1>h, <2>3, UpdateCounterKeeps
  <2>4. CASE Release(p, c)
    BY <1>0, <2>4, ReleaseKeeps
  <2>5. CASE Get(p, c)
    BY <1>0, <2>5, GetKeeps
  <2>6. CASE Del(p, c)
    BY <2>6, DropKeeps DEF FW!Next
  <2> QED
    BY <1>2, <2>1, <2>2, <2>3, <2>4, <2>5, <2>6
<1>3. ASSUME NEW p \in Instances, Step(p)
      PROVE  Kept /\ [FW!Next]_(FW!vars)
  <2>1. CASE \E c \in Counters :
               \/ SyncUpdate(p, c) \/ PipelineRuns(p, c) \/ PipelineMisses(p, c)
               \/ UpdateCounter(p, c) \/ Release(p, c) \/ Get(p, c) \/ Del(p, c)
    BY <1>2, <2>1
  <2>2. CASE Reload(p)
    BY <1>0, <2>2, GoesOnKeeps
  <2>3. CASE Updated(p) \/ DelSet(p)
    BY <1>0, <2>3, EndsKeep
  <2>4. CASE ScriptReserve(p)
    BY <2>4, ReserveKeeps DEF FW!Next
  <2> QED
    BY <1>3, <2>1, <2>2, <2>3, <2>4
    DEF Step, SyncUpdateCounter, AsyncUpdateCounter, SyncRelease, AsyncRelease, SyncGet,
        AsyncGet, SyncDel, AsyncDel, SyncReserve, AsyncReserve
<1>4. ASSUME NEW p \in Instances, Fail(p)
      PROVE  Kept /\ [FW!Next]_(FW!vars)
  BY <1>0, <1>4, EndsKeep
<1>5. CASE ScriptFlush \/ Quiesce
  BY <1>0, <1>5, IdleKeeps
<1>6. CASE Tick
  BY <1>6, TickKeeps DEF FW!Next
<1>7. CASE UNCHANGED vars
  <2>1. UNCHANGED <<now, store, pc, call, todo, loaded, calls, faults, history>>
    BY <1>7 DEF vars
  <2>2. RestOK' /\ LocalsOK'
    BY <2>1 DEF history, RestOK, LocalsOK, AddsAmounts
  <2> QED
    BY <1>0, <2>1, <2>2, Untouched DEF store
<1> QED
  BY <1>1, <1>3, <1>4, <1>5, <1>6, <1>7 DEF Next

(***************************************************************************)
(* For any instances, counters and amounts the Redis storages keep their   *)
(* types, and what has expired is gone.                                    *)
(***************************************************************************)
THEOREM TypeCorrect == Spec => []TypeOK
<1>1. LocalsOK /\ StoreOK /\ RestOK => TypeOK
  BY Parts DEF IInv
<1> QED
  BY <1>1, InitOK, NextKeeps, PTL DEF Spec

(***************************************************************************)
(* A hold never outlives the window it was taken in, however far the clock *)
(* of the instance that reserved is behind when its script runs.           *)
(***************************************************************************)
THEOREM HoldsEndWithWindow == Spec => []HoldsWithinWindow
<1>1. LocalsOK /\ StoreOK /\ RestOK => HoldsWithinWindow
  BY DEF StoreOK
<1> QED
  BY <1>1, InitOK, NextKeeps, PTL DEF Spec

(***************************************************************************)
(* The Redis storages implement the fixed-window store: no hit is lost, no *)
(* hit is added to a window that has ended, and no window is prolonged,    *)
(* whatever the instances interleave, fail or delete.                      *)
(***************************************************************************)
THEOREM Implements == Spec => IsFixedWindow
<1>1. Init => FW!Init
  BY DEF Init, FW!Init
<1> QED
  BY <1>1, InitOK, NextKeeps, PTL DEF Spec, IsFixedWindow, FW!Spec
-----------------------------------------------------------------------------
\* The steps one by one, and what they do to the instances that do not take them.

\* The steps, one by one.
LEMMA Steps ==
  ASSUME [Next]_vars
  PROVE  \/ \E p \in Instances, c \in Counters :
              \/ SyncUpdate(p, c) \/ PipelineRuns(p, c) \/ PipelineMisses(p, c)
              \/ UpdateCounter(p, c) \/ Release(p, c) \/ Get(p, c) \/ Del(p, c)
              \/ DeleteCounters(p, c)
         \/ \E p \in Instances, cs \in Requests, a \in Amounts :
              Evaluate(p, cs, a) \/ Report(p, cs, a)
         \/ \E p \in Instances, cs \in Requests, a \in Amounts, l \in Ttls : Reserve(p, cs, a, l)
         \/ \E p \in Instances, cs \in Requests : GetCounters(p, cs)
         \/ \E p \in Instances, a \in Amounts : Commit(p, a)
         \/ \E p \in Instances :
              \/ Reload(p) \/ Updated(p) \/ ScriptReserve(p) \/ DelSet(p)
              \/ Clear(p) \/ Abandon(p) \/ Fail(p)
         \/ Tick
         \/ ScriptFlush
         \/ \E p \in Instances, cs \in Requests, a \in Amounts : Deny(p, cs, a)
         \/ UNCHANGED vars
  BY Zenon DEF Next, Start, Step, SyncUpdateCounter, AsyncUpdateCounter, SyncRelease, AsyncRelease,
     SyncGet, AsyncGet, SyncDel, AsyncDel, SyncReserve, AsyncReserve, Quiesce

\* An instance that is not the one that takes the step: at most keys that are gone
\* are struck from its listing.
Same(q) ==
  /\ pc'[q] = pc[q] /\ todo'[q] = todo[q]
  /\ \E s \in SUBSET call[q].since : call'[q] = [call[q] EXCEPT !.since = s]

\* All of its other locals stay.
LEMMA SameLocals ==
  ASSUME LocalsOK, NEW q \in Instances, Same(q)
  PROVE  /\ pc'[q] = pc[q] /\ todo'[q] = todo[q]
         /\ call'[q].cs = call[q].cs /\ call'[q].amount = call[q].amount
         /\ call'[q].id = call[q].id /\ call'[q].hold = call[q].hold
         /\ call'[q].failed = call[q].failed /\ call'[q].times = call[q].times
         /\ call'[q].listed = call[q].listed /\ call'[q].since \subseteq call[q].since
  BY DEF LocalsOK, Calls, Same

\* Locals that do not change stay.
LEMMA SameIfUnchanged ==
  ASSUME LocalsOK, NEW q \in Instances, pc'[q] = pc[q], todo'[q] = todo[q], call'[q] = call[q]
  PROVE  Same(q)
<1>1. call[q] = [call[q] EXCEPT !.since = call[q].since]
  BY DEF LocalsOK, Calls
<1> QED
  BY Zenon, <1>1 DEF Same

\* A step of p does nothing to the locals of the others.
LEMMA OthersSame ==
  ASSUME LocalsOK, NEW p \in Instances, NEW l, NEW k, NEW ts,
         pc' = [pc EXCEPT ![p] = l] \/ pc' = pc,
         call' = [call EXCEPT ![p] = k] \/ call' = call,
         todo' = [todo EXCEPT ![p] = ts] \/ todo' = todo,
         NEW q \in Instances \ {p}
  PROVE  Same(q)
<1>1. pc'[q] = pc[q] /\ todo'[q] = todo[q] /\ call'[q] = call[q]
  BY DEF LocalsOK
<1> QED
  BY <1>1, SameIfUnchanged

\* Keys that are gone are struck from a listing.
LEMMA ForgottenSame ==
  ASSUME LocalsOK, NEW cs, call' = Forgotten(cs), NEW q \in Instances, pc'[q] = pc[q], todo'[q] = todo[q]
  PROVE  Same(q) /\ call'[q].since = call[q].since \ cs
<1>1. call'[q] = [call[q] EXCEPT !.since = call[q].since \ cs] /\ call[q].since \ cs \in SUBSET call[q].since
  BY DEF Forgotten
<1>2. Same(q)
  BY Zenon, <1>1 DEF Same
<1> QED
  BY <1>1, <1>2 DEF LocalsOK, Calls

-----------------------------------------------------------------------------
\* Listing.

\* What a listing or a deletion in progress relies on.
ListedAt(p) ==
  /\ pc[p] = "list" =>
       /\ \A c \in call[p].since : Exists(c)
       /\ call[p].since \subseteq call[p].listed \cup todo[p] \cup orphans
  /\ pc[p] = "del" => todo[p] = call[p].cs /\ \E c \in Counters : call[p].cs = {c}
  /\ pc[p] = "delset" => \A c \in call[p].cs : Exists(c) => c \in orphans

\* Listed, instance by instance.
LEMMA ListedParts ==
  Listed <=> /\ \A c \in Counters : Exists(c) => c \in members \cup orphans
             /\ \A p \in Instances : ListedAt(p)
  BY Zenon DEF Listed, ListedAt

\* An operation that neither lists nor deletes has nothing to rely on.
Elsewhere(q) == pc'[q] \notin {"list", "del", "delset"}

\* A step that leaves the keys and sets alone.
LEMMA QuietLists ==
  ASSUME LocalsOK, Listed, UNCHANGED <<expiry, members, orphans>>,
         \A q \in Instances : Same(q) \/ Elsewhere(q)
  PROVE  Listed'
<1>1. ASSUME NEW q \in Instances PROVE ListedAt(q)'
  <2>1. CASE Elsewhere(q)
    BY ZenonT(60), <2>1 DEF Elsewhere, ListedAt
  <2>2. CASE Same(q)
    <3>1. ListedAt(q)
      BY ZenonT(60), ListedParts
    <3> QED
      BY ZenonT(60), <2>2, <3>1, SameLocals DEF ListedAt, Exists
  <2> QED
    BY <1>1, <2>1, <2>2
<1> QED
  BY ZenonT(60), <1>1 DEF Listed, ListedAt, Exists

\* The counters of U are used: keys appear, each in the set of its limit, and a
\* counter used while that is deleted is an orphan.
LEMMA UsesList ==
  ASSUME LocalsOK, Listed, NEW U,
         \A c \in Counters : Exists(c) => Exists(c)',
         \A c \in Counters : Exists(c)' /\ ~Exists(c) => c \in U /\ c \in members',
         members \subseteq members', orphans \subseteq orphans',
         \A c \in U : Deleting(c) => c \in orphans',
         \A q \in Instances : Same(q) \/ Elsewhere(q)
  PROVE  Listed'
<1>1. ASSUME NEW q \in Instances PROVE ListedAt(q)'
  <2>1. CASE Elsewhere(q)
    BY ZenonT(60), <2>1 DEF Elsewhere, ListedAt
  <2>2. CASE Same(q)
    <3>1. ListedAt(q)
      BY Zenon, ListedParts
    <3>2. call[q].since \subseteq Counters /\ call[q].cs \subseteq Counters
      BY DEF LocalsOK, Calls
    <3>3. CASE pc[q] = "delset"
      <4>1. \A c \in call[q].cs : Exists(c)' => c \in orphans'
        BY ZenonT(60), <3>1, <3>2, <3>3 DEF ListedAt, Deleting
      <4> QED
        BY ZenonT(60), <2>2, <3>3, <4>1, SameLocals DEF ListedAt
    <3>4. CASE pc[q] # "delset"
      BY ZenonT(60), <2>2, <3>1, <3>2, <3>4, SameLocals DEF ListedAt
    <3> QED
      BY <3>3, <3>4
  <2> QED
    BY <1>1, <2>1, <2>2
<1>2. \A c \in Counters : Exists(c)' => c \in members' \cup orphans'
  BY ZenonT(60) DEF Listed
<1> QED
  BY ZenonT(60), <1>1, <1>2 DEF Listed, ListedAt

\* The keys of cs are gone, and struck from all listings; p may go on to delete
\* the set of one of them.
LEMMA DropsList ==
  ASSUME LocalsOK, StoreOK, Listed, NEW cs \in SUBSET Counters, Drop(cs), call' = Forgotten(cs),
         members \subseteq members' \cup cs, orphans \subseteq orphans' \cup cs,
         \A q \in Instances :
           \/ pc'[q] = pc[q] /\ todo'[q] = todo[q]
           \/ pc'[q] = "delset" /\ call[q].cs \subseteq cs
  PROVE  Listed'
<1>1. \A c \in Counters : Exists(c)' <=> Exists(c) /\ c \notin cs
  BY ZenonT(60) DEF Drop, Exists, StoreOK
<1>2. ASSUME NEW q \in Instances, pc'[q] = pc[q], todo'[q] = todo[q] PROVE ListedAt(q)'
  <2>1. ListedAt(q)
    BY ZenonT(60), ListedParts
  <2>2. call[q].since \subseteq Counters /\ call[q].cs \subseteq Counters
    BY ZenonT(60) DEF LocalsOK, Calls
  <2>3. Same(q) /\ call'[q].since = call[q].since \ cs
    BY ZenonT(60), <1>2, ForgottenSame
  <2> QED
    BY Zenon, <1>1, <1>2, <2>1, <2>2, <2>3, SameLocals DEF ListedAt
<1>3. ASSUME NEW q \in Instances, pc'[q] = "delset", call[q].cs \subseteq cs PROVE ListedAt(q)'
  <2>1. call'[q].cs = call[q].cs /\ call[q].cs \subseteq Counters
    BY DEF Forgotten, LocalsOK, Calls
  <2> QED
    BY ZenonT(60), <1>1, <1>3, <2>1 DEF ListedAt
<1>4. \A c \in Counters : Exists(c)' => c \in members' \cup orphans'
  BY ZenonT(60), <1>1 DEF Listed
<1> QED
  BY ZenonT(60), <1>2, <1>3, <1>4, ListedParts DEF Listed, ListedAt

\* p goes on elsewhere.
LEMMA GoesElsewhere ==
  ASSUME LocalsOK, NEW p \in Instances, NEW l, l \notin {"list", "del", "delset"}, NEW k, NEW ts,
         pc' = [pc EXCEPT ![p] = l],
         call' = [call EXCEPT ![p] = k] \/ call' = call,
         todo' = [todo EXCEPT ![p] = ts] \/ todo' = todo,
         NEW q \in Instances
  PROVE  Same(q) \/ Elsewhere(q)
<1>1. CASE q = p
  BY <1>1 DEF LocalsOK, Elsewhere
<1>2. CASE q # p
  BY Zenon, <1>2, OthersSame
<1> QED
  BY <1>1, <1>2

\* The script that counts.
LEMMA IncrementLists ==
  ASSUME LocalsOK, StoreOK, RestOK, Listed, NEW c \in Counters, NEW d \in Amounts, Increment(c, d),
         \A q \in Instances : Same(q) \/ Elsewhere(q)
  PROVE  Listed'
<1>1. d \in Nat \ {0} /\ now \in Nat /\ Window[c] \in Nat \ {0} /\ value[c] \in Nat
  BY CountersAssumption, AmountsAssumption DEF StoreOK
<1>2. /\ expiry' = [expiry EXCEPT ![c] = Expire(c, value[c] + d, d)]
      /\ members' = IF value[c] + d = d THEN members \cup {c} ELSE members
      /\ orphans' = IF Deleting(c) THEN orphans \cup {c} ELSE orphans
  BY Zenon DEF Increment
<1>3. ~Exists(c) => value[c] + d = d
  BY <1>1 DEF StoreOK, Exists
<1>4. \A e \in Counters : Exists(e) => Exists(e)'
  BY <1>1, <1>2 DEF Exists, Expire, StoreOK
<1>5. \A e \in Counters : Exists(e)' /\ ~Exists(e) => e \in {c} /\ e \in members'
  BY <1>1, <1>2, <1>3 DEF Exists, StoreOK
<1>6. members \subseteq members' /\ orphans \subseteq orphans' /\ \A e \in {c} : Deleting(e) => e \in orphans'
  BY <1>2
<1> QED
  BY Zenon, <1>4, <1>5, <1>6, UsesList

\* The script that reserves.
LEMMA ReserveLists ==
  ASSUME LocalsOK, StoreOK, Listed, NEW p \in Instances, ScriptReserve(p)
  PROVE  Listed'
<1>1. call[p].cs \in SUBSET Counters /\ now \in Nat /\ expiry \in [Counters -> Nat]
  BY DEF LocalsOK, Calls, StoreOK
<1>2. /\ expiry' = [c \in Counters |-> IF c \in call[p].cs THEN Ends(c) ELSE expiry[c]]
      /\ members' = members \cup {c \in call[p].cs : ~Exists(c)}
      /\ orphans' = orphans \cup {c \in call[p].cs : Deleting(c)}
  BY ZenonT(60) DEF ScriptReserve
<1>3. \A e \in Counters : Exists(e) => Exists(e)'
  BY <1>1, <1>2 DEF Exists, Ends
<1>4. \A e \in Counters : Exists(e)' /\ ~Exists(e) => e \in call[p].cs /\ e \in members'
  BY <1>1, <1>2 DEF Exists
<1>5. members \subseteq members' /\ orphans \subseteq orphans'
      /\ \A e \in call[p].cs : Deleting(e) => e \in orphans'
  BY ZenonT(60), <1>2
<1>6. ASSUME NEW q \in Instances PROVE Same(q) \/ Elsewhere(q)
  <2>1. CASE Admitted(p)
    <3>1. pc' = [pc EXCEPT ![p] = "held"] /\ call' = call /\ todo' = todo
      BY ZenonT(60), <2>1 DEF ScriptReserve, Goto
    <3> QED
      BY ZenonT(60), <3>1, GoesElsewhere
  <2>2. CASE ~Admitted(p)
    BY Zenon, <2>2, GoesElsewhere DEF ScriptReserve, Return, Goto
  <2> QED
    BY <2>1, <2>2
<1> QED
  BY Zenon, <1>3, <1>4, <1>5, <1>6, UsesList

\* Time passes.
LEMMA TickLists ==
  ASSUME LocalsOK, StoreOK, Listed, Tick
  PROVE  Listed'
<1> DEFINE gone == {c \in Counters : expiry[c] = now + 1}
<1>1. /\ gone \in SUBSET Counters /\ Drop(gone) /\ call' = Forgotten(gone)
      /\ members \subseteq members' \cup gone /\ orphans \subseteq orphans' \cup gone
      /\ UNCHANGED <<pc, todo>>
  BY ZenonT(60) DEF Tick
<1> HIDE DEF gone
<1>2. \A q \in Instances : \/ pc'[q] = pc[q] /\ todo'[q] = todo[q]
                           \/ pc'[q] = "delset" /\ call[q].cs \subseteq gone
  BY <1>1
<1> QED
  BY Zenon, <1>1, <1>2, DropsList

\* Every step keeps what listings rely on, and so no listing misses a counter.
LEMMA NextLists ==
  ASSUME LocalsOK, StoreOK, RestOK, Listed, ListsAll, [Next]_vars
  PROVE  Listed' /\ ListsAll'
<1>0. \A q \in Instances : pc[q] \in {"idle", "update", "report", "reserve", "held", "commit",
                                      "release", "list", "del", "delset"}
  BY DEF LocalsOK
<1>1. ASSUME NEW p \in Instances, NEW c \in Counters, SyncUpdate(p, c) \/ PipelineRuns(p, c)
      PROVE  Listed' /\ ListsAll'
  <2>1. /\ pc[p] = "update" /\ Increment(c, call[p].amount) /\ pc' = pc
        /\ call' = [call EXCEPT ![p].times[c] = call[p].times[c] + 1]
        /\ todo' = [todo EXCEPT ![p] = todo[p] \ {c}]
    BY <1>1 DEF SyncUpdate, PipelineRuns, Incremented
  <2>2. pc' = [pc EXCEPT ![p] = "update"]
    BY <2>1 DEF LocalsOK
  <2>3. \A q \in Instances : Same(q) \/ Elsewhere(q)
    BY Zenon, <2>1, <2>2, GoesElsewhere
  <2>4. call[p].amount \in Amounts
    BY <2>1 DEF LocalsOK, AddsAmounts
  <2>5. ListsAll'
    BY <1>1 DEF SyncUpdate, PipelineRuns, Incremented, Loading, Midway, ListsAll
  <2> QED
    BY Zenon, <2>1, <2>3, <2>4, <2>5, IncrementLists
<1>2. ASSUME NEW p \in Instances, NEW c \in Counters, UpdateCounter(p, c)
      PROVE  Listed' /\ ListsAll'
  <2>1. /\ pc[p] \in {"report", "commit"} /\ Increment(c, call[p].amount) /\ AfterUpdate(p, c)
    BY ZenonT(60), <1>2 DEF UpdateCounter
  <2>2. \A q \in Instances : Same(q) \/ Elsewhere(q)
    <3>1. CASE todo[p] # {c}
      <4>1. pc' = [pc EXCEPT ![p] = pc[p]] /\ call' = call /\ todo' = [todo EXCEPT ![p] = todo[p] \ {c}]
        BY ZenonT(60), <2>1, <3>1 DEF AfterUpdate, LocalsOK
      <4> QED
        BY ZenonT(60), <2>1, <4>1, GoesElsewhere
    <3>2. CASE todo[p] = {c} /\ pc[p] = "commit" /\ call[p].hold > 0
      BY ZenonT(60), <2>1, <3>2, GoesElsewhere DEF AfterUpdate, Goto
    <3>3. CASE todo[p] = {c} /\ ~(pc[p] = "commit" /\ call[p].hold > 0)
      BY Zenon, <2>1, <3>3, GoesElsewhere DEF AfterUpdate, Goto, Return
    <3> QED
      BY ZenonT(60), <3>1, <3>2, <3>3
  <2>4. call[p].amount \in Amounts
    BY <2>1 DEF LocalsOK, AddsAmounts
  <2>5. ListsAll'
    BY ZenonT(60), <1>2 DEF UpdateCounter, Uncovered, Loading, Midway, ListsAll
  <2> QED
    BY ZenonT(60), <2>1, <2>2, <2>4, <2>5, IncrementLists
<1>3. ASSUME NEW p \in Instances, NEW c \in Counters, PipelineMisses(p, c) \/ Release(p, c)
      PROVE  Listed' /\ ListsAll'
  <2>1. UNCHANGED <<expiry, members, orphans, marks>>
    BY <1>3 DEF PipelineMisses, Release, store, history
  <2>2. \A q \in Instances : Same(q) \/ Elsewhere(q)
    <3>1. CASE PipelineMisses(p, c)
      <4>1. /\ pc' = [pc EXCEPT ![p] = "update"] /\ call' = [call EXCEPT ![p].failed = TRUE]
            /\ todo' = [todo EXCEPT ![p] = todo[p] \ {c}]
        BY <3>1 DEF PipelineMisses, LocalsOK
      <4> QED
        BY Zenon, <4>1, GoesElsewhere
    <3>2. CASE Release(p, c) /\ todo[p] = {c}
      BY ZenonT(60), <3>2, GoesElsewhere DEF Release, Return, Goto
    <3>3. CASE Release(p, c) /\ todo[p] # {c}
      <4>1. /\ pc' = [pc EXCEPT ![p] = "release"] /\ call' = call
            /\ todo' = [todo EXCEPT ![p] = todo[p] \ {c}]
        BY ZenonT(60), <3>3 DEF Release, LocalsOK
      <4> QED
        BY Zenon, <4>1, GoesElsewhere
    <3> QED
      BY ZenonT(60), <1>3, <3>1, <3>2, <3>3
  <2> QED
    BY <2>1, <2>2, QuietLists DEF ListsAll
<1>4. ASSUME NEW p \in Instances, NEW c \in Counters, Get(p, c)
      PROVE  Listed' /\ ListsAll'
  <2> DEFINE found == IF Exists(c) THEN call[p].listed \cup {c} ELSE call[p].listed
  <2>1. UNCHANGED <<expiry, members, orphans>> /\ pc[p] = "list"
    BY <1>4 DEF Get, store
  <2>2. ListedAt(p)
    BY ZenonT(60), ListedParts
  <2>3. call[p].since \subseteq found \cup (todo[p] \ {c}) \cup orphans
    BY ZenonT(60), <2>1, <2>2 DEF ListedAt
  <2>4. CASE todo[p] = {c}
    <3>1. Return(p) /\ marks' = marks
      <4>1. call[p].since \ orphans \subseteq found
        BY ZenonT(60), <2>3, <2>4
      <4> QED
        BY Zenon, <1>4, <2>4, <4>1 DEF Get
    <3>2. \A q \in Instances : Same(q) \/ Elsewhere(q)
      BY Zenon, <3>1, GoesElsewhere DEF Return, Goto
    <3> QED
      BY <2>1, <3>1, <3>2, QuietLists DEF ListsAll
  <2>5. CASE todo[p] # {c}
    <3>1. /\ pc' = pc /\ marks' = marks /\ todo' = [todo EXCEPT ![p] = todo[p] \ {c}]
          /\ call' = [call EXCEPT ![p] = [call[p] EXCEPT !.listed = found]]
      BY <1>4, <2>5 DEF Get
    <3>2. ASSUME NEW q \in Instances PROVE ListedAt(q)'
      <4>1. CASE q = p
        <5>1. /\ pc'[p] = "list" /\ todo'[p] = todo[p] \ {c}
              /\ call'[p].since = call[p].since /\ call'[p].listed = found
          BY <2>1, <3>1 DEF LocalsOK, Calls
        <5> HIDE DEF found
        <5> QED
          BY ZenonT(60), <2>1, <2>2, <2>3, <4>1, <5>1 DEF ListedAt, Exists
      <4>2. CASE q # p
        <5>1. Same(q)
          BY Zenon, <3>1, <4>2, OthersSame
        <5>2. ListedAt(q)
          BY Zenon, ListedParts
        <5> QED
          BY ZenonT(60), <2>1, <5>1, <5>2, SameLocals DEF ListedAt, Exists
      <4> QED
        BY <4>1, <4>2
    <3>3. Listed'
      BY ZenonT(60), <2>1, <3>2 DEF Listed, ListedAt, Exists
    <3> QED
      BY <3>1, <3>3 DEF ListsAll
  <2> QED
    BY ZenonT(60), <2>4, <2>5
<1>5. ASSUME NEW p \in Instances, NEW c \in Counters, Del(p, c)
      PROVE  Listed' /\ ListsAll'
  <2>1. /\ Drop({c}) /\ call' = Forgotten({c}) /\ UNCHANGED <<members, orphans, marks>>
        /\ pc' = [pc EXCEPT ![p] = "delset"] /\ todo' = [todo EXCEPT ![p] = {}]
        /\ pc[p] = "del" /\ c \in todo[p]
    BY <1>5 DEF Del, Goto
  <2>2. ListedAt(p)
    BY Zenon, ListedParts
  <2>3. call[p].cs \subseteq {c}
    BY ZenonT(60), <2>1, <2>2 DEF ListedAt
  <2>4. \A q \in Instances : \/ pc'[q] = pc[q] /\ todo'[q] = todo[q]
                             \/ pc'[q] = "delset" /\ call[q].cs \subseteq {c}
    BY ZenonT(60), <2>1, <2>3 DEF LocalsOK
  <2>5. /\ {c} \in SUBSET Counters /\ members \subseteq members' \cup {c}
        /\ orphans \subseteq orphans' \cup {c} /\ ListsAll'
    BY <2>1 DEF ListsAll
  <2> QED
    BY Zenon, <2>1, <2>4, <2>5, DropsList
<1>6. ASSUME NEW p \in Instances, NEW c \in Counters, DeleteCounters(p, c)
      PROVE  Listed' /\ ListsAll'
  <2> DEFINE l == IF c \in members THEN "del" ELSE "delset"
             k == [NoCall EXCEPT !.cs = {c}]
  <2>1. /\ UNCHANGED <<expiry, members, orphans, marks>>
        /\ pc' = [pc EXCEPT ![p] = l] /\ todo' = [todo EXCEPT ![p] = members \cap {c}]
        /\ call' = [call EXCEPT ![p] = k]
    BY <1>6 DEF DeleteCounters, store, history, Goto
  <2>2. ASSUME NEW q \in Instances PROVE ListedAt(q)'
    <3>1. CASE q = p
      <4>1. /\ pc'[p] = l /\ todo'[p] = members \cap {c} /\ call'[p].cs = {c}
        BY <2>1 DEF LocalsOK, NoCall
      <4>2. c \notin members => (Exists(c) => c \in orphans)
        BY ZenonT(60) DEF Listed
      <4> QED
        BY <2>1, <3>1, <4>1, <4>2 DEF ListedAt, Exists
    <3>2. CASE q # p
      <4>1. Same(q)
        BY Zenon, <2>1, <3>2, OthersSame
      <4>2. ListedAt(q)
        BY Zenon, ListedParts
      <4> QED
        BY Zenon, <2>1, <4>1, <4>2, SameLocals DEF ListedAt, Exists
    <3> QED
      BY <3>1, <3>2
  <2>3. Listed'
    BY Zenon, <2>1, <2>2 DEF Listed, ListedAt, Exists
  <2> QED
    BY <2>1, <2>3 DEF ListsAll
<1>7. ASSUME NEW p \in Instances, NEW cs \in Requests, GetCounters(p, cs)
      PROVE  Listed' /\ ListsAll'
  <2> DEFINE k == [NoCall EXCEPT !.cs = cs, !.since = {c \in cs : Exists(c)}]
  <2>1. /\ UNCHANGED <<expiry, members, orphans, marks>>
        /\ pc' = [pc EXCEPT ![p] = "list"] /\ todo' = [todo EXCEPT ![p] = members \cap cs]
        /\ call' = [call EXCEPT ![p] = k]
    BY <1>7 DEF GetCounters, store, history, Goto
  <2>2. ASSUME NEW q \in Instances PROVE ListedAt(q)'
    <3>1. CASE q = p
      <4>1. /\ pc'[p] = "list" /\ todo'[p] = members \cap cs /\ call'[p].since = {c \in cs : Exists(c)}
        BY <2>1 DEF LocalsOK, NoCall
      <4>2. {c \in cs : Exists(c)} \subseteq (members \cap cs) \cup orphans
        BY ZenonT(60), CountersAssumption DEF Listed
      <4> QED
        BY <2>1, <3>1, <4>1, <4>2 DEF ListedAt, Exists
    <3>2. CASE q # p
      <4>1. Same(q)
        BY Zenon, <2>1, <3>2, OthersSame
      <4>2. ListedAt(q)
        BY Zenon, ListedParts
      <4> QED
        BY Zenon, <2>1, <4>1, <4>2, SameLocals DEF ListedAt, Exists
    <3> QED
      BY <3>1, <3>2
  <2>3. Listed'
    BY Zenon, <2>1, <2>2 DEF Listed, ListedAt, Exists
  <2> QED
    BY <2>1, <2>3 DEF ListsAll
<1>8. ASSUME NEW p \in Instances, NEW cs, NEW a, NEW l,
             \/ Evaluate(p, cs, a) \/ Report(p, cs, a) \/ Reserve(p, cs, a, l) \/ Commit(p, a)
             \/ Reload(p) \/ Updated(p) \/ Abandon(p) \/ Fail(p)
      PROVE  Listed' /\ ListsAll'
  <2>1. UNCHANGED <<expiry, members, orphans>>
    BY <1>8 DEF Evaluate, Report, Reserve, Commit, Reload, Updated, Abandon, Fail, store, history
  <2>2. ListsAll'
    BY <1>8 DEF Evaluate, Report, Reserve, Commit, Reload, Updated, Abandon, Fail, history, ListsAll,
                Loading, Midway
  <2>3. ASSUME NEW q \in Instances PROVE Same(q) \/ Elsewhere(q)
    <3>1. CASE Evaluate(p, cs, a) \/ Report(p, cs, a) \/ Reserve(p, cs, a, l) \/ Commit(p, a)
      BY ZenonT(60), <3>1, GoesElsewhere DEF Evaluate, Report, Reserve, Commit, Goto
    <3>2. CASE Reload(p)
      <4>1. pc' = [pc EXCEPT ![p] = "update"]
        BY <3>2 DEF Reload, LocalsOK
      <4>2. \E k, ts : call' = [call EXCEPT ![p] = k] /\ todo' = [todo EXCEPT ![p] = ts]
        <5>1. call' = [call EXCEPT ![p] = [call[p] EXCEPT !.failed = FALSE, !.again = TRUE]]
          BY Zenon, <3>2 DEF Reload
        <5> QED
          BY Zenon, <3>2, <5>1 DEF Reload
      <4> QED
        BY Zenon, <4>1, <4>2, GoesElsewhere
    <3>3. CASE Updated(p) \/ Abandon(p) \/ Fail(p)
      <4>1. Return(p)
        BY ZenonT(60), <3>3 DEF Updated, Abandon, Fail
      <4> QED
        BY Zenon, <4>1, GoesElsewhere DEF Return, Goto
    <3> QED
      BY <1>8, <3>1, <3>2, <3>3
  <2> QED
    BY <2>1, <2>2, <2>3, QuietLists
<1>9. ASSUME NEW p \in Instances, ScriptReserve(p)
      PROVE  Listed' /\ ListsAll'
  BY Zenon, <1>9, ReserveLists DEF ScriptReserve, ListsAll
<1>10. ASSUME NEW p \in Instances, DelSet(p)
       PROVE  Listed' /\ ListsAll'
  <2>1. /\ UNCHANGED <<expiry, orphans, marks>> /\ members' = members \ call[p].cs /\ pc[p] = "delset"
        /\ Return(p)
    BY ZenonT(60), <1>10 DEF DelSet, history
  <2>2. ListedAt(p)
    BY ZenonT(60), ListedParts
  <2>3. \A c \in Counters : Exists(c)' => c \in members' \cup orphans'
    BY ZenonT(60), <2>1, <2>2 DEF Listed, ListedAt, Exists
  <2>4. ASSUME NEW q \in Instances PROVE ListedAt(q)'
    <3>1. Same(q) \/ Elsewhere(q)
      BY Zenon, <2>1, GoesElsewhere DEF Return, Goto
    <3>2. ListedAt(q)
      BY ZenonT(60), ListedParts
    <3>3. CASE Elsewhere(q)
      BY ZenonT(60), <3>3 DEF Elsewhere, ListedAt
    <3>4. CASE Same(q)
      BY ZenonT(60), <2>1, <3>2, <3>4, SameLocals DEF ListedAt, Exists
    <3> QED
      BY <3>1, <3>3, <3>4
  <2> QED
    BY ZenonT(60), <2>1, <2>3, <2>4 DEF Listed, ListedAt, ListsAll
<1>11. ASSUME NEW p \in Instances, Clear(p)
       PROVE  Listed' /\ ListsAll'
  <2>1. /\ Drop(Counters) /\ call' = Forgotten(Counters) /\ UNCHANGED <<pc, todo, orphans, marks>>
    BY <1>11 DEF Clear
  <2>2. /\ Counters \in SUBSET Counters /\ members \subseteq members' \cup Counters
        /\ orphans \subseteq orphans' \cup Counters /\ ListsAll'
    BY <2>1 DEF StoreOK, ListsAll
  <2>3. \A q \in Instances : \/ pc'[q] = pc[q] /\ todo'[q] = todo[q]
                             \/ pc'[q] = "delset" /\ call[q].cs \subseteq Counters
    BY ZenonT(60), <2>1
  <2> QED
    BY Zenon, <2>1, <2>2, <2>3, DropsList
<1>12. CASE Tick
  BY ZenonT(60), <1>12, TickLists DEF Tick, ListsAll
<1>13. CASE \/ ScriptFlush \/ (\E p \in Instances, cs \in Requests, a \in Amounts : Deny(p, cs, a))
            \/ UNCHANGED vars
  <2>1. UNCHANGED <<expiry, members, orphans, pc, call, todo>>
    BY <1>13 DEF ScriptFlush, Deny, vars, store, history
  <2>2. \A q \in Instances : Same(q)
    BY ZenonT(60), <2>1, SameIfUnchanged
  <2>3. ListsAll'
    <3>1. marks' = marks \/ marks' = marks \cup Midway
      BY Zenon, <1>13 DEF ScriptFlush, Deny, vars, history
    <3> QED
      BY <3>1 DEF ListsAll, Midway
  <2>4. UNCHANGED <<expiry, members, orphans>>
    BY <2>1
  <2> QED
    BY Zenon, <2>2, <2>3, <2>4, QuietLists
<1> QED
  BY Zenon, <1>1, <1>2, <1>3, <1>4, <1>5, <1>6, <1>7, <1>8, <1>9, <1>10, <1>11, <1>12, <1>13, Steps

(***************************************************************************)
(* get_counters lists every counter that existed all the time, except one  *)
(* that was used while its limit's counters were being deleted, for any    *)
(* instances and whatever they interleave.                                 *)
(***************************************************************************)
THEOREM EverythingListed == Spec => []ListsAll
<1>1. Init => Listed /\ ListsAll
  BY ZenonT(60) DEF Init, Listed, ListsAll, Exists
<1> QED
  BY <1>1, InitOK, NextKeeps, NextLists, PTL DEF Spec
-----------------------------------------------------------------------------
\* Counting once.

\* Marks stay, and the script cache never changes midway without one.
LEMMA MarksStay ==
  ASSUME [Next]_vars
  PROVE  marks \subseteq marks' /\ (loaded' = loaded \/ Midway \subseteq marks')
<1>1. ASSUME NEW p \in Instances, NEW c \in Counters,
             \/ SyncUpdate(p, c) \/ PipelineRuns(p, c) \/ PipelineMisses(p, c)
             \/ UpdateCounter(p, c) \/ Release(p, c) \/ Get(p, c) \/ Del(p, c)
             \/ DeleteCounters(p, c)
      PROVE  marks \subseteq marks' /\ (loaded' = loaded \/ Midway \subseteq marks')
  <2>1. CASE SyncUpdate(p, c) \/ PipelineRuns(p, c) \/ UpdateCounter(p, c)
    <3>1. marks \subseteq marks' /\ Loading \subseteq marks' /\ (loaded' = loaded \/ loaded' = TRUE)
      BY <2>1 DEF SyncUpdate, PipelineRuns, UpdateCounter, Incremented
    <3> QED
      BY Zenon, <3>1 DEF Loading
  <2>2. CASE PipelineMisses(p, c) \/ Release(p, c) \/ Get(p, c) \/ Del(p, c) \/ DeleteCounters(p, c)
    BY <2>2 DEF PipelineMisses, Release, Get, Del, DeleteCounters, history
  <2> QED
    BY <1>1, <2>1, <2>2
<1>2. ASSUME NEW p \in Instances, NEW cs, NEW a, NEW l,
             \/ Evaluate(p, cs, a) \/ Report(p, cs, a) \/ Reserve(p, cs, a, l)
             \/ GetCounters(p, cs) \/ Commit(p, a) \/ Deny(p, cs, a)
      PROVE  marks \subseteq marks' /\ loaded' = loaded
  BY <1>2 DEF Evaluate, Report, Reserve, GetCounters, Commit, Deny, history
<1>3. ASSUME NEW p \in Instances,
             \/ Reload(p) \/ Updated(p) \/ ScriptReserve(p) \/ DelSet(p)
             \/ Clear(p) \/ Abandon(p) \/ Fail(p)
      PROVE  marks \subseteq marks' /\ (loaded' = loaded \/ Midway \subseteq marks')
  <2>1. CASE Reload(p)
    <3>1. marks \subseteq marks' /\ Loading \subseteq marks' /\ loaded' = TRUE
      BY <2>1 DEF Reload
    <3> QED
      BY Zenon, <3>1 DEF Loading
  <2>2. CASE Updated(p) \/ ScriptReserve(p) \/ DelSet(p) \/ Clear(p) \/ Abandon(p) \/ Fail(p)
    BY ZenonT(60), <2>2 DEF Updated, ScriptReserve, DelSet, Clear, Abandon, Fail, history
  <2> QED
    BY <1>3, <2>1, <2>2
<1>4. CASE Tick \/ ScriptFlush \/ UNCHANGED vars
  BY ZenonT(60), <1>4 DEF Tick, ScriptFlush, vars, history
<1> QED
  BY Zenon, <1>1, <1>2, <1>3, <1>4, Steps

\* The pipeline of an instance that does not take the step.
LEMMA SamePipelined ==
  ASSUME LocalsOK, "noscript" \notin marks', loaded \in BOOLEAN, loaded' \in BOOLEAN,
         loaded' = loaded \/ Midway \subseteq marks',
         NEW q \in Instances, Same(q), pc[q] = "update", Pipelined(q)
  PROVE  Pipelined(q)'
<1>1. loaded' = loaded \/ ~(q \in Async /\ todo[q] \notin {{}, call[q].cs})
  BY DEF Midway
<1> QED
  BY <1>1, SameLocals DEF Pipelined

\* Steps that are none of a check_and_update.
Aside(q) == Same(q) \/ pc'[q] # "update"

\* A step of p that is none of a check_and_update.
LEMMA GoesAside ==
  ASSUME LocalsOK, NEW p \in Instances, NEW l, l # "update", NEW k, NEW ts,
         pc' = [pc EXCEPT ![p] = l],
         call' = [call EXCEPT ![p] = k] \/ call' = call,
         todo' = [todo EXCEPT ![p] = ts] \/ todo' = todo,
         NEW q \in Instances
  PROVE  Aside(q)
<1>1. CASE q = p
  BY <1>1 DEF LocalsOK, Aside
<1>2. CASE q # p
  BY Zenon, <1>2, OthersSame DEF Aside
<1> QED
  BY <1>1, <1>2

\* All steps but those of check_and_update leave it aside, and none of them adds to
\* a counter more than it reports; keys may go.
LEMMA StepsAside ==
  ASSUME LocalsOK, StoreOK, RestOK, [Next]_vars
  PROVE  \/ \E p \in Instances, c \in Counters :
              SyncUpdate(p, c) \/ PipelineRuns(p, c) \/ PipelineMisses(p, c)
         \/ \E p \in Instances, cs \in Requests, a \in Amounts : Evaluate(p, cs, a)
         \/ \E p \in Instances : Reload(p)
         \/ /\ \A q \in Instances : Aside(q)
            /\ \A c \in Counters : \/ value'[c] = 0 /\ forced'[c] = 0
                                   \/ value'[c] - forced'[c] = value[c] - forced[c]
            /\ \/ \E p \in Instances : Updated(p)
               \/ "miscounted" \in marks' => "miscounted" \in marks
<1> DEFINE Moves == \A c \in Counters : \/ value'[c] = 0 /\ forced'[c] = 0
                                        \/ value'[c] - forced'[c] = value[c] - forced[c]
           Clean == "miscounted" \in marks' => "miscounted" \in marks
           Asides == \A q \in Instances : Aside(q)
<1>1. ASSUME NEW p \in Instances, NEW c \in Counters, UpdateCounter(p, c)
      PROVE  Asides /\ Moves /\ Clean
  <2>1. /\ pc[p] \in {"report", "commit"} /\ AfterUpdate(p, c)
    BY ZenonT(60), <1>1 DEF UpdateCounter
  <2>2. Asides
    <3>1. CASE todo[p] # {c}
      <4>1. pc' = [pc EXCEPT ![p] = pc[p]] /\ call' = call /\ todo' = [todo EXCEPT ![p] = todo[p] \ {c}]
        BY ZenonT(60), <2>1, <3>1 DEF AfterUpdate, LocalsOK
      <4>2. pc[p] # "update"
        BY <2>1
      <4> QED
        BY ZenonT(60), <4>1, <4>2, GoesAside
    <3>2. CASE todo[p] = {c} /\ pc[p] = "commit" /\ call[p].hold > 0
      BY ZenonT(60), <2>1, <3>2, GoesAside DEF AfterUpdate, Goto
    <3>3. CASE todo[p] = {c} /\ ~(pc[p] = "commit" /\ call[p].hold > 0)
      BY ZenonT(60), <2>1, <3>3, GoesAside DEF AfterUpdate, Goto, Return
    <3> QED
      BY <3>1, <3>2, <3>3
  <2>3. Moves
    <3>1. call[p].amount \in Nat
      BY DEF LocalsOK, Calls
    <3>2. /\ value' = [value EXCEPT ![c] = value[c] + call[p].amount]
          /\ forced' = [forced EXCEPT ![c] = forced[c] + call[p].amount]
      BY Zenon, <1>1 DEF UpdateCounter, Increment
    <3> QED
      BY <3>1, <3>2 DEF StoreOK, RestOK
  <2>4. Clean
    BY Zenon, <1>1 DEF UpdateCounter, Uncovered, Loading, Midway
  <2> QED
    BY <2>2, <2>3, <2>4
<1>2. ASSUME NEW p \in Instances, NEW c, NEW cs, NEW a, NEW l,
             \/ Release(p, c) \/ Get(p, c) \/ DeleteCounters(p, c) \/ Report(p, cs, a)
             \/ Reserve(p, cs, a, l) \/ GetCounters(p, cs) \/ Commit(p, a) \/ ScriptReserve(p)
             \/ DelSet(p) \/ Abandon(p) \/ Fail(p) \/ Updated(p)
      PROVE  Asides /\ Moves
  <2>1. UNCHANGED <<value, forced>>
    BY ZenonT(60), <1>2 DEF Release, Get, DeleteCounters, Report, Reserve, GetCounters, Commit, ScriptReserve,
       DelSet, Abandon, Fail, Updated, store, history
  <2>2. Moves
    BY <2>1
  <2>3. Asides
    <3>1. CASE Release(p, c)
      <4>1. CASE todo[p] = {c}
        BY ZenonT(60), <3>1, <4>1, GoesAside DEF Release, Return, Goto
      <4>2. CASE todo[p] # {c}
        <5>1. /\ pc' = [pc EXCEPT ![p] = "release"] /\ call' = call
              /\ todo' = [todo EXCEPT ![p] = todo[p] \ {c}]
          BY ZenonT(60), <3>1, <4>2 DEF Release, LocalsOK
        <5> QED
          BY Zenon, <5>1, GoesAside
      <4> QED
        BY ZenonT(60), <4>1, <4>2
    <3>2. CASE Get(p, c)
      <4>1. CASE todo[p] = {c}
        BY <3>2, <4>1, GoesAside DEF Get, Return, Goto
      <4>2. CASE todo[p] # {c}
        <5>1. /\ pc' = [pc EXCEPT ![p] = "list"]
              /\ todo' = [todo EXCEPT ![p] = todo[p] \ {c}]
          BY <3>2, <4>2 DEF Get, LocalsOK
        <5>2. \E k : call' = [call EXCEPT ![p] = k]
          BY <3>2, <4>2 DEF Get
        <5> QED
          BY Zenon, <5>1, <5>2, GoesAside
      <4> QED
        BY <4>1, <4>2
    <3>3. CASE DeleteCounters(p, c)
      <4>1. \E m \in {"del", "delset"} : pc' = [pc EXCEPT ![p] = m]
        BY Zenon, <3>3 DEF DeleteCounters, Goto
      <4>2. \A m \in {"del", "delset"} : m # "update"
        OBVIOUS
      <4> QED
        BY Zenon, <3>3, <4>1, <4>2, GoesAside DEF DeleteCounters
    <3>4. CASE Report(p, cs, a) \/ Reserve(p, cs, a, l)
      BY ZenonT(60), <3>4, GoesAside DEF Report, Reserve, Goto
    <3>5. CASE GetCounters(p, cs)
      BY Zenon, <3>5, GoesAside DEF GetCounters, Goto
    <3>6. CASE Commit(p, a)
      BY Zenon, <3>6, GoesAside DEF Commit, Goto
    <3>7. CASE ScriptReserve(p)
      <4>1. CASE Admitted(p)
        <5>1. pc' = [pc EXCEPT ![p] = "held"] /\ call' = call /\ todo' = todo
          BY Zenon, <3>7, <4>1 DEF ScriptReserve, Goto
        <5> QED
          BY Zenon, <5>1, GoesAside
      <4>2. CASE ~Admitted(p)
        BY Zenon, <3>7, <4>2, GoesAside DEF ScriptReserve, Return, Goto
      <4> QED
        BY <4>1, <4>2
    <3>8. CASE DelSet(p) \/ Abandon(p) \/ Fail(p) \/ Updated(p)
      <4>1. Return(p)
        BY ZenonT(60), <3>8 DEF DelSet, Abandon, Fail, Updated
      <4> QED
        BY Zenon, <4>1, GoesAside DEF Return, Goto
    <3> QED
      BY ZenonT(60), <1>2, <3>1, <3>2, <3>3, <3>4, <3>5, <3>6, <3>7, <3>8
  <2> QED
    BY ZenonT(60), <2>2, <2>3
<1>3. ASSUME NEW p \in Instances, NEW c, NEW cs, NEW a, NEW l,
             \/ Release(p, c) \/ Get(p, c) \/ DeleteCounters(p, c) \/ Report(p, cs, a)
             \/ Reserve(p, cs, a, l) \/ GetCounters(p, cs) \/ Commit(p, a) \/ ScriptReserve(p)
             \/ DelSet(p) \/ Abandon(p) \/ Fail(p)
      PROVE  Clean
  BY <1>3 DEF Release, Get, DeleteCounters, Report, Reserve, GetCounters, Commit, ScriptReserve,
       DelSet, Abandon, Fail, history
<1>4. ASSUME NEW cs \in SUBSET Counters, Drop(cs), call' = Forgotten(cs),
             \A q \in Instances : \/ pc'[q] = pc[q] /\ todo'[q] = todo[q]
                                  \/ pc'[q] = "delset"
      PROVE  Asides /\ Moves
  <2>1. Asides
    BY ZenonT(60), <1>4, ForgottenSame DEF Aside
  <2>2. Moves
    BY ZenonT(60), <1>4 DEF Drop
  <2> QED
    BY <2>1, <2>2
<1>5. ASSUME NEW p \in Instances, NEW c \in Counters, Del(p, c)
      PROVE  Asides /\ Moves /\ Clean
  <2>1. /\ Drop({c}) /\ call' = Forgotten({c}) /\ marks' = marks
        /\ pc' = [pc EXCEPT ![p] = "delset"] /\ todo' = [todo EXCEPT ![p] = {}]
    BY <1>5 DEF Del, Goto
  <2>2. \A q \in Instances : \/ pc'[q] = pc[q] /\ todo'[q] = todo[q]
                             \/ pc'[q] = "delset"
    BY <2>1 DEF LocalsOK
  <2> QED
    BY ZenonT(60), <1>4, <2>1, <2>2
<1>6. ASSUME NEW p \in Instances, Clear(p)
      PROVE  Asides /\ Moves /\ Clean
  BY Zenon, <1>4, <1>6 DEF Clear
<1>7. ASSUME Tick PROVE Asides /\ Moves /\ Clean
  <2> DEFINE gone == {c \in Counters : expiry[c] = now + 1}
  <2>1. /\ gone \in SUBSET Counters /\ Drop(gone) /\ call' = Forgotten(gone) /\ marks' = marks
        /\ UNCHANGED <<pc, todo>>
    BY ZenonT(60), <1>7 DEF Tick
  <2> HIDE DEF gone
  <2> QED
    BY ZenonT(60), <1>4, <2>1
<1>8. ASSUME \/ ScriptFlush \/ (\E p \in Instances, cs \in Requests, a \in Amounts : Deny(p, cs, a))
             \/ UNCHANGED vars
      PROVE  Asides /\ Moves /\ Clean
  <2>1. UNCHANGED <<value, forced, pc, call, todo>>
    BY ZenonT(60), <1>8 DEF ScriptFlush, Deny, vars, store, history
  <2>2. Clean
    <3>1. marks' = marks \/ marks' = marks \cup Midway
      BY ZenonT(60), <1>8 DEF ScriptFlush, Deny, vars, history
    <3>2. Midway \subseteq {"noscript"}
      BY Zenon DEF Midway
    <3> QED
      BY <3>1, <3>2
  <2> QED
    BY ZenonT(60), <2>1, <2>2, SameIfUnchanged DEF Aside
<1> HIDE DEF Asides, Moves, Clean
<1>9. \/ \E p \in Instances, c \in Counters :
              SyncUpdate(p, c) \/ PipelineRuns(p, c) \/ PipelineMisses(p, c)
      \/ \E p \in Instances, cs \in Requests, a \in Amounts : Evaluate(p, cs, a)
      \/ \E p \in Instances : Reload(p)
      \/ Asides /\ Moves /\ ((\E p \in Instances : Updated(p)) \/ Clean)
  <2>1. \A p \in Instances : \A c, cs, a, l :
             \/ Release(p, c) \/ Get(p, c) \/ DeleteCounters(p, c) \/ Report(p, cs, a)
             \/ Reserve(p, cs, a, l) \/ GetCounters(p, cs) \/ Commit(p, a) \/ ScriptReserve(p)
             \/ DelSet(p) \/ Abandon(p) \/ Fail(p)
             => Asides /\ Moves /\ Clean
    BY ZenonT(60), <1>2, <1>3
  <2>2. \A p \in Instances : Updated(p) => Asides /\ Moves
    BY <1>2
  <2>3. \A p \in Instances : ScriptReserve(p) \/ DelSet(p) \/ Abandon(p) \/ Fail(p)
                             => Asides /\ Moves /\ Clean
    BY <2>1
  <2> QED
    BY Zenon, <2>1, <2>2, <2>3, <1>1, <1>5, <1>6, <1>7, <1>8, Steps
<1> QED
  BY Zenon, <1>9 DEF Asides, Moves, Clean

\* What the steps of a check_and_update do to its own locals.
LEMMA UpdateLocals ==
  ASSUME LocalsOK, NEW p \in Instances, NEW c \in Counters, SyncUpdate(p, c) \/ PipelineRuns(p, c)
  PROVE  /\ pc[p] = "update" /\ c \in todo[p] /\ (p \in Async => loaded)
         /\ pc'[p] = "update" /\ todo'[p] = todo[p] \ {c}
         /\ call'[p].times = [call[p].times EXCEPT ![c] = call[p].times[c] + 1]
         /\ call'[p].cs = call[p].cs /\ call'[p].failed = call[p].failed
         /\ call'[p].amount = call[p].amount
         /\ \A q \in Instances \ {p} : Same(q)
<1>1. /\ pc[p] = "update" /\ c \in todo[p] /\ (p \in Async => loaded) /\ pc' = pc
      /\ todo' = [todo EXCEPT ![p] = todo[p] \ {c}]
      /\ call' = [call EXCEPT ![p].times[c] = call[p].times[c] + 1]
  BY InstancesAssumption DEF SyncUpdate, PipelineRuns, Incremented
<1>2. \A q \in Instances \ {p} : Same(q)
  BY Zenon, <1>1, OthersSame
<1> QED
  BY <1>1, <1>2 DEF LocalsOK, Calls

\* A call of a script that Redis does not know.
LEMMA MissLocals ==
  ASSUME LocalsOK, NEW p \in Instances, NEW c \in Counters, PipelineMisses(p, c)
  PROVE  /\ pc[p] = "update" /\ c \in todo[p] /\ p \in Async /\ ~loaded /\ loaded' = loaded
         /\ pc'[p] = "update" /\ todo'[p] = todo[p] \ {c}
         /\ call'[p].times = call[p].times /\ call'[p].cs = call[p].cs
         /\ call'[p].failed = TRUE /\ call'[p].amount = call[p].amount
         /\ \A q \in Instances \ {p} : Same(q)
<1>1. /\ pc[p] = "update" /\ c \in todo[p] /\ p \in Async /\ ~loaded /\ loaded' = loaded /\ pc' = pc
      /\ todo' = [todo EXCEPT ![p] = todo[p] \ {c}]
      /\ call' = [call EXCEPT ![p].failed = TRUE]
  BY DEF PipelineMisses
<1>2. \A q \in Instances \ {p} : Same(q)
  BY Zenon, <1>1, OthersSame
<1> QED
  BY <1>1, <1>2 DEF LocalsOK, Calls

\* The pipeline is sent again.
LEMMA ReloadLocals ==
  ASSUME LocalsOK, NEW p \in Instances, Reload(p)
  PROVE  /\ pc[p] = "update" /\ todo[p] = {} /\ p \in Async /\ call[p].failed
         /\ pc'[p] = "update" /\ todo'[p] = call[p].cs
         /\ call'[p].times = call[p].times /\ call'[p].cs = call[p].cs
         /\ call'[p].failed = FALSE /\ call'[p].amount = call[p].amount
         /\ \A q \in Instances \ {p} : Same(q)
<1>1. /\ pc[p] = "update" /\ todo[p] = {} /\ p \in Async /\ call[p].failed /\ pc' = pc
      /\ todo' = [todo EXCEPT ![p] = call[p].cs]
      /\ call' = [call EXCEPT ![p] = [call[p] EXCEPT !.failed = FALSE, !.again = TRUE]]
  BY Zenon DEF Reload
<1>2. \A q \in Instances \ {p} : Same(q)
  BY Zenon, <1>1, OthersSame
<1>3. pc'[p] = "update" /\ todo'[p] = call[p].cs
      /\ call'[p] = [call[p] EXCEPT !.failed = FALSE, !.again = TRUE] /\ call[p] \in Calls
  BY <1>1 DEF LocalsOK
<1>4. call'[p].times = call[p].times /\ call'[p].cs = call[p].cs /\ call'[p].amount = call[p].amount
  BY <1>3 DEF Calls
<1>5. call'[p].failed = FALSE
  BY Zenon, <1>3 DEF Calls
<1> QED
  BY <1>1, <1>2, <1>3, <1>4, <1>5

\* A check_and_update begins.
LEMMA EvaluateLocals ==
  ASSUME LocalsOK, NEW p \in Instances, NEW cs, NEW a, Evaluate(p, cs, a)
  PROVE  /\ pc'[p] = "update" /\ todo'[p] = cs
         /\ call'[p].times = [c \in Counters |-> 0] /\ call'[p].cs = cs
         /\ call'[p].failed = FALSE /\ call'[p].amount = a
         /\ \A q \in Instances \ {p} : Same(q)
<1>1. /\ pc' = [pc EXCEPT ![p] = "update"] /\ todo' = [todo EXCEPT ![p] = cs]
      /\ call' = [call EXCEPT ![p] = [NoCall EXCEPT !.cs = cs, !.amount = a]]
  BY Zenon DEF Evaluate, Goto
<1>2. \A q \in Instances \ {p} : Same(q)
  BY Zenon, <1>1, OthersSame
<1>3. pc'[p] = "update" /\ todo'[p] = cs /\ call'[p] = [NoCall EXCEPT !.cs = cs, !.amount = a]
  BY <1>1 DEF LocalsOK
<1> QED
  BY <1>2, <1>3 DEF NoCall

\* As long as the script cache does not change midway, an increment has been run
\* once or not at all, and a request is answered when all have been run.
LEMMA NextCounts ==
  ASSUME LocalsOK, StoreOK, RestOK, Pipelines, CountedOnce, [Next]_vars
  PROVE  Pipelines' /\ CountedOnce'
<1>0. loaded \in BOOLEAN /\ loaded' \in BOOLEAN
  BY NextKeeps DEF RestOK
<1>m. marks \subseteq marks' /\ (loaded' = loaded \/ Midway \subseteq marks')
  BY MarksStay
<1> SUFFICES ASSUME "noscript" \notin marks'
             PROVE  /\ \A q \in Instances : pc'[q] = "update" => Pipelined(q)'
                    /\ "miscounted" \notin marks'
  BY Zenon DEF Pipelines, CountedOnce
<1>1. "noscript" \notin marks /\ "miscounted" \notin marks
  BY <1>m DEF CountedOnce
<1>2. \A q \in Instances : pc[q] = "update" => Pipelined(q)
  BY Zenon, <1>1 DEF Pipelines
<1>3. ASSUME NEW q \in Instances, Same(q), pc'[q] = "update" PROVE Pipelined(q)'
  <2>1. pc[q] = "update"
    BY <1>3 DEF Same
  <2> QED
    BY Zenon, <1>0, <1>2, <1>3, <1>m, <2>1, SamePipelined
<1>4. ASSUME NEW p \in Instances, NEW c \in Counters, SyncUpdate(p, c) \/ PipelineRuns(p, c)
      PROVE  Pipelined(p)' /\ (\A q \in Instances \ {p} : Same(q)) /\ "miscounted" \notin marks'
  <2>1. Pipelined(p) /\ call[p].times \in [Counters -> Nat] /\ call[p].cs \subseteq Counters
    BY Zenon, <1>2, <1>4, UpdateLocals DEF LocalsOK, Calls
  <2>2. "miscounted" \notin marks'
    BY <1>1, <1>4 DEF SyncUpdate, PipelineRuns, Incremented, Loading, Midway
  <2>3. ~call[p].failed /\ c \in call[p].cs
    BY Zenon, <1>4, <2>1, UpdateLocals, InstancesAssumption DEF Pipelined
  <2>4. todo'[p] \subseteq call'[p].cs /\ ~call'[p].failed
    BY ZenonT(60), <1>4, <2>1, <2>3, UpdateLocals DEF Pipelined
  <2>5. \A d \in call'[p].cs : call'[p].times[d] = IF d \in todo'[p] THEN 0 ELSE 1
    <3>1. /\ call'[p].times = [call[p].times EXCEPT ![c] = call[p].times[c] + 1]
          /\ call'[p].cs = call[p].cs /\ todo'[p] = todo[p] \ {c} /\ c \in todo[p]
      BY ZenonT(60), <1>4, UpdateLocals
    <3>2. \A d \in call[p].cs : call[p].times[d] = IF d \in todo[p] THEN 0 ELSE 1
      BY ZenonT(60), <2>1, <2>3 DEF Pipelined
    <3> QED
      BY <2>1, <2>3, <3>1, <3>2
  <2>6. p \in Async => loaded'
    BY ZenonT(60), <1>0, <1>4, UpdateLocals, InstancesAssumption DEF PipelineRuns, SyncUpdate
  <2>7. Pipelined(p)'
    BY ZenonT(60), <2>4, <2>5, <2>6 DEF Pipelined
  <2> QED
    BY Zenon, <1>4, <2>2, <2>7, UpdateLocals
<1>5. ASSUME NEW p \in Instances, NEW c \in Counters, PipelineMisses(p, c)
      PROVE  Pipelined(p)' /\ (\A q \in Instances \ {p} : Same(q)) /\ "miscounted" \notin marks'
  <2>1. Pipelined(p) /\ call[p].cs \subseteq Counters
    BY Zenon, <1>2, <1>5, MissLocals DEF LocalsOK, Calls
  <2>2. "miscounted" \notin marks'
    BY <1>1, <1>5 DEF PipelineMisses, history
  <2>3. \A d \in call[p].cs : call[p].times[d] = 0
    BY Zenon, <1>5, <2>1, MissLocals DEF Pipelined
  <2>4. todo'[p] \subseteq call'[p].cs /\ todo'[p] # call'[p].cs
    <3>1. call'[p].cs = call[p].cs /\ todo'[p] = todo[p] \ {c} /\ c \in todo[p]
      BY Zenon, <1>5, MissLocals
    <3>2. todo[p] \subseteq call[p].cs
      BY ZenonT(60), <2>1 DEF Pipelined
    <3> QED
      BY ZenonT(60), <3>1, <3>2
  <2>5. Pipelined(p)'
    BY Zenon, <1>5, <2>3, <2>4, MissLocals DEF Pipelined
  <2> QED
    BY Zenon, <1>5, <2>2, <2>5, MissLocals
<1>6. ASSUME NEW p \in Instances, Reload(p)
      PROVE  Pipelined(p)' /\ (\A q \in Instances \ {p} : Same(q)) /\ "miscounted" \notin marks'
  <2>1. Pipelined(p)
    BY Zenon, <1>2, <1>6, ReloadLocals
  <2>2. "miscounted" \notin marks'
    BY <1>1, <1>6 DEF Reload, Loading, Midway
  <2>3. Pipelined(p)'
    BY ZenonT(60), <1>6, <2>1, ReloadLocals DEF Pipelined
  <2> QED
    BY Zenon, <1>6, <2>2, <2>3, ReloadLocals
<1>7. ASSUME NEW p \in Instances, NEW cs \in Requests, NEW a, Evaluate(p, cs, a)
      PROVE  Pipelined(p)' /\ (\A q \in Instances \ {p} : Same(q)) /\ "miscounted" \notin marks'
  <2>2. "miscounted" \notin marks'
    BY <1>1, <1>7 DEF Evaluate, history
  <2>3. Pipelined(p)'
    <3>1. /\ todo'[p] = cs /\ call'[p].cs = cs /\ ~call'[p].failed
          /\ call'[p].times = [c \in Counters |-> 0]
      BY Zenon, <1>7, EvaluateLocals
    <3>2. \A c \in cs : call'[p].times[c] = 0
      BY ZenonT(60), <3>1, CountersAssumption
    <3> QED
      BY ZenonT(60), <3>1, <3>2 DEF Pipelined
  <2> QED
    BY Zenon, <1>7, <2>2, <2>3, EvaluateLocals
<1>8. ASSUME NEW p \in Instances, Updated(p)
      PROVE  "miscounted" \notin marks'
  <2>1. pc[p] = "update" /\ todo[p] = {}
    BY ZenonT(60), <1>8 DEF Updated
  <2>2. Pipelined(p)
    BY ZenonT(60), <1>2, <2>1
  <2> QED
    BY ZenonT(60), <1>1, <1>8, <2>1, <2>2 DEF Updated, Pipelined
<1>9. ASSUME NEW p \in Instances, Pipelined(p)', \A q \in Instances \ {p} : Same(q)
      PROVE  \A q \in Instances : pc'[q] = "update" => Pipelined(q)'
  BY Zenon, <1>3, <1>9
<1>10. ASSUME \A q \in Instances : Aside(q)
       PROVE  \A q \in Instances : pc'[q] = "update" => Pipelined(q)'
  BY Zenon, <1>3, <1>10 DEF Aside
<1> QED
  BY Zenon, <1>1, <1>4, <1>5, <1>6, <1>7, <1>8, <1>9, <1>10, StepsAside

(***************************************************************************)
(* A request that is answered Ok was counted exactly once on each of its   *)
(* counters, however often pipelines had to be sent again, unless Redis    *)
(* lost or got the script in the middle of one.                            *)
(***************************************************************************)
THEOREM EachRequestCountedOnce == Spec => []CountedOnce
<1>1. Init => Pipelines /\ CountedOnce
  BY DEF Init, Pipelines, CountedOnce
<1> QED
  BY <1>1, InitOK, NextKeeps, NextCounts, PTL DEF Spec
=============================================================================
