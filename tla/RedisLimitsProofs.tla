-------------------------- MODULE RedisLimitsProofs --------------------------
(***************************************************************************)
(* Proofs about the limits that the Redis storages keep, for any number of *)
(* instances and counters: concurrent requests exceed a limit by a bounded *)
(* amount only, and used and reserved amounts together stay within it.     *)
(***************************************************************************)
EXTENDS RedisStorageProofs, FiniteSetTheorems

\* A leaf that names no prover is given to the SMT solver, twice if it fails, and
\* then to Zenon.
USE SMTT(20), Z3T(20), ZenonT(20)
-----------------------------------------------------------------------------
\* How far a limit can be exceeded.

\* What the instances of S may add together.
Weight(S) == MaxAmount * Cardinality(S)

\* Multiplying by a natural number keeps the order.
LEMMA TimesMonotone ==
  ASSUME NEW d \in Nat, NEW a \in Nat, NEW b \in Nat, a <= b
  PROVE  d * a <= d * b
<1>1. b - a \in Nat /\ b = a + (b - a)
  OBVIOUS
<1>2. \A k \in Nat : d * (a + k) = d * a + d * k /\ d * k \in Nat /\ d * a \in Nat
  OBVIOUS
<1> QED
  BY <1>1, <1>2

\* It grows with the set, by MaxAmount for each instance.
LEMMA Weights ==
  ASSUME NEW S \in SUBSET Instances
  PROVE  /\ Weight(S) \in Nat
         /\ \A R \in SUBSET S : Weight(R) <= Weight(S)
         /\ \A t \in S : Weight(S \ {t}) = Weight(S) - MaxAmount
<1>0. MaxAmount \in Nat
  BY AmountsAssumption
<1>1. ASSUME NEW T \in SUBSET Instances
      PROVE  IsFiniteSet(T) /\ Cardinality(T) \in Nat
  BY InstancesAssumption, FS_Subset, FS_CardinalityType
<1>2. ASSUME NEW R \in SUBSET S
      PROVE  Weight(R) <= Weight(S)
  <2>1. R \in SUBSET Instances
    OBVIOUS
  <2>2. Cardinality(R) <= Cardinality(S)
    BY <1>1, FS_Subset
  <2> QED
    BY <1>0, <1>1, <2>1, <2>2, TimesMonotone DEF Weight
<1>3. ASSUME NEW t \in S
      PROVE  Weight(S \ {t}) = Weight(S) - MaxAmount
  <2>1. Cardinality(S \ {t}) = Cardinality(S) - 1
    BY <1>1, FS_RemoveElement
  <2> QED
    BY <1>0, <1>1, <2>1 DEF Weight
<1>4. Weight(S) \in Nat
  BY <1>0, <1>1 DEF Weight
<1> QED
  BY <1>2, <1>3, <1>4

\* There is at least one instance.
LEMMA WeightOfAll ==
  /\ MaxAmount \in Nat /\ Cardinality(Instances) \in Nat
  /\ Weight(Instances) \in Nat /\ Weight(Instances) - MaxAmount \in Nat
  /\ \A t \in Instances : \A Q \in SUBSET Instances :
       Weight(Q \ {t}) \in Nat /\ Weight(Q \ {t}) <= Weight(Instances) - MaxAmount
<1>1. Cardinality(Instances) \in Nat /\ MaxAmount \in Nat
  BY InstancesAssumption, AmountsAssumption, FS_CardinalityType
<1>2. ASSUME NEW t \in Instances, NEW Q \in SUBSET Instances
      PROVE  /\ Weight(Instances) \in Nat /\ Weight(Instances) - MaxAmount \in Nat
             /\ Weight(Q \ {t}) \in Nat /\ Weight(Q \ {t}) <= Weight(Instances) - MaxAmount
  <2>1. /\ Instances \in SUBSET Instances /\ Instances \ {t} \in SUBSET Instances
        /\ Q \ {t} \in SUBSET (Instances \ {t}) /\ Q \ {t} \in SUBSET Instances
    OBVIOUS
  <2> QED
    BY Zenon, <2>1, Weights
<1> QED
  BY Zenon, <1>1, <1>2, InstancesAssumption

\* The instances of P, with the locals k, leave room for what they will add to v.
Fit(P, k, v, r) ==
  \/ v + Weight(P) <= r
  \/ \E t \in P : v + k[t].amount + Weight(P \ {t}) <= r
Fitting(P, k) ==
  P \in SUBSET Instances /\ \A t \in P : k[t].amount \in Nat /\ k[t].amount <= MaxAmount

\* No request joins, and nothing is added that does not raise the bound as well.
LEMMA StaysFit ==
  ASSUME NEW P, NEW k, Fitting(P, k), NEW Q \in SUBSET P, NEW m,
         \A t \in Q : m[t].amount = k[t].amount,
         NEW v \in Int, NEW w \in Int, NEW r \in Int, NEW s \in Int, w - v = s - r,
         Fit(P, k, v, r)
  PROVE  Fit(Q, m, w, s)
<1>1. /\ P \in SUBSET Instances /\ Q \in SUBSET Instances
      /\ \A t \in P : k[t].amount \in Nat /\ k[t].amount <= MaxAmount
  BY DEF Fitting
<1>2. Weight(P) \in Nat /\ Weight(Q) \in Nat /\ Weight(Q) <= Weight(P)
  BY <1>1, Weights
<1>3. CASE v + Weight(P) <= r
  BY <1>2, <1>3 DEF Fit
<1>4. ASSUME NEW t \in P, v + k[t].amount + Weight(P \ {t}) <= r
      PROVE  Fit(Q, m, w, s)
  <2>1. P \ {t} \in SUBSET Instances /\ Q \ {t} \in SUBSET (P \ {t}) /\ Q \ {t} \in SUBSET Instances
    BY <1>1
  <2>2. Weight(P \ {t}) \in Nat /\ Weight(Q \ {t}) \in Nat /\ Weight(Q \ {t}) <= Weight(P \ {t})
    BY <2>1, Weights
  <2>3. w + k[t].amount + Weight(Q \ {t}) <= s
    BY <1>1, <1>4, <2>2
  <2>4. CASE t \in Q
    BY Zenon, <2>3, <2>4 DEF Fit
  <2>5. CASE t \notin Q
    <3>1. Q = Q \ {t}
      BY <2>5
    <3>2. Weight(Q) = Weight(Q \ {t}) /\ k[t].amount \in Nat
      BY Zenon, <1>1, <3>1
    <3>3. w + Weight(Q) <= s
      BY <2>2, <2>3, <3>2
    <3> QED
      BY <3>3 DEF Fit
  <2> QED
    BY <2>4, <2>5
<1> QED
  BY Zenon, <1>3, <1>4 DEF Fit

\* One of the requests is counted.
LEMMA CountedFits ==
  ASSUME NEW P, NEW k, Fitting(P, k), NEW t \in P, NEW m,
         \A u \in P \ {t} : m[u].amount = k[u].amount,
         NEW v \in Int, NEW r \in Int, Fit(P, k, v, r)
  PROVE  Fit(P \ {t}, m, v + k[t].amount, r)
<1>1. /\ P \in SUBSET Instances /\ MaxAmount \in Nat
      /\ \A u \in P : k[u].amount \in Nat /\ k[u].amount <= MaxAmount
  BY AmountsAssumption DEF Fitting
<1>2. Weight(P) \in Nat /\ \A u \in P : Weight(P \ {u}) = Weight(P) - MaxAmount
  BY <1>1, Weights
<1>3. CASE v + Weight(P) <= r
  <2>1. v + k[t].amount + Weight(P \ {t}) <= r
    BY <1>1, <1>2, <1>3
  <2> QED
    BY <2>1 DEF Fit
<1>4. ASSUME NEW u \in P, v + k[u].amount + Weight(P \ {u}) <= r
      PROVE  Fit(P \ {t}, m, v + k[t].amount, r)
  <2>1. CASE u = t
    BY <1>4, <2>1 DEF Fit
  <2>2. CASE u # t
    <3>1. P \ {t} \in SUBSET Instances /\ u \in P \ {t}
      BY <1>1, <2>2
    <3>2. Weight((P \ {t}) \ {u}) = Weight(P \ {t}) - MaxAmount
      BY <3>1, Weights
    <3>3. (v + k[t].amount) + m[u].amount + Weight((P \ {t}) \ {u}) <= r
      BY <1>1, <1>2, <1>4, <3>1, <3>2
    <3> QED
      BY Zenon, <3>1, <3>3 DEF Fit
  <2> QED
    BY <2>1, <2>2
<1> QED
  BY Zenon, <1>3, <1>4 DEF Fit

\* A request finds room, or a window starts over in which one would.
LEMMA JoinFits ==
  ASSUME NEW P, NEW k, Fitting(P, k), NEW t \in P, NEW v \in Nat, NEW b \in Nat,
         v + k[t].amount <= b
  PROVE  Fit(P, k, v, b + Weight(Instances) - MaxAmount)
<1>1. P \in SUBSET Instances /\ t \in Instances /\ k[t].amount \in Nat
  BY DEF Fitting
<1>2. /\ Weight(P \ {t}) \in Nat /\ Weight(P \ {t}) <= Weight(Instances) - MaxAmount
      /\ Weight(Instances) \in Nat /\ MaxAmount \in Nat
  BY Zenon, <1>1, WeightOfAll
<1>3. v + k[t].amount + Weight(P \ {t}) <= b + Weight(Instances) - MaxAmount
  BY <1>1, <1>2
<1> QED
  BY Zenon, <1>3 DEF Fit

\* No request adds more than MaxAmount.
LEMMA AmountsBounded == \A a \in Amounts : a \in Nat /\ a <= MaxAmount
  BY AmountsAssumption

\* The bound, in terms of weights.
LEMMA FitFacts ==
  ASSUME LocalsOK, StoreOK, RestOK, NEW c \in Counters
  PROVE  /\ value[c] \in Nat /\ MaxValue[c] + forced[c] \in Nat
         /\ Overshoot(c) = (MaxValue[c] + forced[c]) + Weight(Instances) - MaxAmount
         /\ Overshoot(c) \in Int
         /\ Fitting(Pending(c), call)
         /\ PendingFits(c) <=> Fit(Pending(c), call, value[c], Overshoot(c))
         /\ PendingFits(c) => value[c] <= Overshoot(c)
<1>1. value[c] \in Nat /\ forced[c] \in Nat /\ MaxValue[c] \in Nat
  BY CountersAssumption DEF StoreOK, RestOK
<1>2. \A t \in Pending(c) : t \in Instances /\ call[t].amount \in Amounts
  BY DEF Pending, LocalsOK, AddsAmounts
<1>3. Fitting(Pending(c), call)
  BY <1>2, AmountsBounded DEF Fitting
<1>4. Overshoot(c) = (MaxValue[c] + forced[c]) + Weight(Instances) - MaxAmount
  BY <1>1, WeightOfAll DEF Overshoot, Weight
<1>5. PendingFits(c) <=> Fit(Pending(c), call, value[c], Overshoot(c))
  BY Zenon DEF PendingFits, Fit, Weight
<1>6. Overshoot(c) \in Int
  BY <1>1, <1>4, WeightOfAll
<1>7. ASSUME PendingFits(c) PROVE value[c] <= Overshoot(c)
  <2>1. Pending(c) \in SUBSET Instances
    BY <1>3 DEF Fitting
  <2>2. CASE value[c] + Weight(Pending(c)) <= Overshoot(c)
    <3>1. Weight(Pending(c)) \in Nat
      BY <2>1, Weights
    <3> QED
      BY <1>1, <1>6, <2>2, <3>1
  <2>3. ASSUME NEW t \in Pending(c),
               value[c] + call[t].amount + Weight(Pending(c) \ {t}) <= Overshoot(c)
        PROVE  value[c] <= Overshoot(c)
    <3>1. Pending(c) \ {t} \in SUBSET Instances
      BY <2>1
    <3>2. Weight(Pending(c) \ {t}) \in Nat /\ call[t].amount \in Nat
      BY <1>3, <3>1, Weights DEF Fitting
    <3> QED
      BY <1>1, <1>6, <2>3, <3>2
  <2> QED
    BY Zenon, <1>5, <1>7, <2>2, <2>3 DEF Fit
<1> QED
  BY <1>1, <1>3, <1>4, <1>5, <1>6, <1>7

\* ... after a step as well.
LEMMA FitFactsNext ==
  ASSUME LocalsOK', StoreOK', RestOK', NEW c \in Counters
  PROVE  /\ value'[c] \in Nat /\ MaxValue[c] + forced'[c] \in Nat
         /\ Overshoot(c)' = (MaxValue[c] + forced'[c]) + Weight(Instances) - MaxAmount
         /\ Overshoot(c)' \in Int
         /\ Fitting(Pending(c)', call')
         /\ PendingFits(c)' <=> Fit(Pending(c)', call', value'[c], Overshoot(c)')
<1>1. value'[c] \in Nat /\ forced'[c] \in Nat /\ MaxValue[c] \in Nat
  BY CountersAssumption DEF StoreOK, RestOK
<1>2. \A t \in Pending(c)' : t \in Instances /\ call'[t].amount \in Amounts
  BY DEF Pending, LocalsOK, AddsAmounts
<1>3. Fitting(Pending(c)', call')
  BY <1>2, AmountsBounded DEF Fitting
<1>4. Overshoot(c)' = (MaxValue[c] + forced'[c]) + Weight(Instances) - MaxAmount
  BY <1>1, WeightOfAll DEF Overshoot, Weight
<1>5. PendingFits(c)' <=> Fit(Pending(c)', call', value'[c], Overshoot(c)')
  BY Zenon DEF PendingFits, Fit, Weight
<1> QED
  BY <1>1, <1>3, <1>4, <1>5, WeightOfAll

\* A step after which no request is pending that was not before.
LEMMA QuietFits ==
  ASSUME LocalsOK, StoreOK, RestOK, LocalsOK', StoreOK', RestOK', NEW c \in Counters,
         PendingFits(c), value'[c] - forced'[c] = value[c] - forced[c],
         Pending(c)' \subseteq Pending(c),
         \A t \in Pending(c)' : call'[t].amount = call[t].amount
  PROVE  PendingFits(c)'
<1>1. /\ value[c] \in Int /\ value'[c] \in Int /\ Overshoot(c) \in Int /\ Overshoot(c)' \in Int
      /\ value'[c] - value[c] = Overshoot(c)' - Overshoot(c)
  <2>1. forced[c] \in Nat /\ forced'[c] \in Nat /\ MaxValue[c] \in Nat
    BY CountersAssumption DEF RestOK
  <2> QED
    BY <2>1, FitFacts, FitFactsNext, WeightOfAll
<1>2. Pending(c)' \in SUBSET Pending(c)
  OBVIOUS
<1> QED
  BY ZenonT(60), <1>1, <1>2, FitFacts, FitFactsNext, StaysFit

\* A window starts over.
LEMMA DroppedFits ==
  ASSUME LocalsOK', StoreOK', RestOK', FitsAlone', NEW c \in Counters,
         value'[c] = 0, forced'[c] = 0
  PROVE  PendingFits(c)'
<1>1. MaxValue[c] \in Nat
  BY CountersAssumption
<1>2. CASE Pending(c)' = {}
  <2>1. Weight(Pending(c)') = 0
    BY <1>2, FS_EmptySet, WeightOfAll DEF Weight
  <2>2. value'[c] + Weight(Pending(c)') <= Overshoot(c)'
    BY <1>1, <2>1, FitFactsNext, WeightOfAll
  <2> QED
    BY <2>2, FitFactsNext DEF Fit
<1>3. ASSUME NEW t \in Pending(c)' PROVE PendingFits(c)'
  <2>1. call'[t].amount <= MaxValue[c] /\ call'[t].amount \in Nat
    BY Zenon, FitFactsNext DEF Pending, FitsAlone, Fitting
  <2>2. value'[c] + call'[t].amount <= MaxValue[c] + forced'[c]
    BY <1>1, <2>1
  <2> QED
    BY Zenon, <2>2, FitFactsNext, JoinFits
<1> QED
  BY <1>2, <1>3

\* Locals that stay keep an instance pending on what it was pending on.
LEMMA SamePending ==
  ASSUME LocalsOK, NEW c \in Counters, NEW q \in Instances, Same(q)
  PROVE  (q \in Pending(c)' <=> q \in Pending(c)) /\ call'[q].amount = call[q].amount
  BY SameLocals DEF Pending

\* Every step keeps the room that pending requests need.
LEMMA NextFits ==
  ASSUME LocalsOK, StoreOK, RestOK, Pipelines, FitsAlone, PendingBounded, [Next]_vars
  PROVE  FitsAlone' /\ PendingBounded'
<1>0. LocalsOK' /\ StoreOK' /\ RestOK'
  BY NextKeeps
<1>m. "noscript" \notin marks' => /\ "noscript" \notin marks
                                  /\ \A c \in Counters : PendingFits(c)
                                  /\ \A q \in Instances : pc[q] = "update" => Pipelined(q)
  BY MarksStay DEF PendingBounded, Pipelines
<1>s. ASSUME NEW q \in Instances, Same(q), pc'[q] = "update"
      PROVE  \A c \in call'[q].cs : call'[q].amount <= MaxValue[c]
  BY <1>s, SameLocals DEF FitsAlone
<1>1. ASSUME NEW p \in Instances, NEW c \in Counters, SyncUpdate(p, c) \/ PipelineRuns(p, c)
      PROVE  FitsAlone' /\ PendingBounded'
  <2>1. FitsAlone'
    BY Zenon, <1>1, <1>s, UpdateLocals DEF FitsAlone
  <2>2. ASSUME "noscript" \notin marks', NEW e \in Counters PROVE PendingFits(e)'
    <3>1. Pipelined(p) /\ PendingFits(e)
      BY Zenon, <1>1, <1>m, <2>2, UpdateLocals
    <3>2. ~call[p].failed /\ c \in call[p].cs
      BY ZenonT(60), <1>1, <3>1, UpdateLocals, InstancesAssumption DEF Pipelined
    <3>3. value' = [value EXCEPT ![c] = value[c] + call[p].amount] /\ forced' = forced
      BY <1>1 DEF SyncUpdate, PipelineRuns, Incremented, Increment
    <3>4. /\ \A q \in Instances \ {p} : (q \in Pending(e)' <=> q \in Pending(e))
                                        /\ call'[q].amount = call[q].amount
          /\ call'[p].amount = call[p].amount
      BY Zenon, <1>1, UpdateLocals, SamePending
    <3>5. Pending(e) \subseteq Instances /\ Pending(e)' \subseteq Instances
      BY DEF Pending
    <3>6. CASE e = c
      <4>1. p \in Pending(e) /\ p \notin Pending(e)'
        BY Zenon, <1>1, <3>2, <3>6, UpdateLocals DEF Pending
      <4>2. Pending(e)' = Pending(e) \ {p}
        BY <3>4, <3>5, <4>1
      <4>3. value'[e] = value[e] + call[p].amount /\ Overshoot(e)' = Overshoot(e)
        BY <3>3, <3>6 DEF StoreOK, Overshoot
      <4>4. value[e] \in Int /\ \A u \in Pending(e) \ {p} : call'[u].amount = call[u].amount
        BY <3>4, <3>5, FitFacts
      <4>5. Fitting(Pending(e), call) /\ Overshoot(e) \in Int
            /\ Fit(Pending(e), call, value[e], Overshoot(e))
        BY Zenon, <3>1, FitFacts
      <4>6. Fit(Pending(e) \ {p}, call', value[e] + call[p].amount, Overshoot(e))
        BY Zenon, <4>1, <4>4, <4>5, CountedFits
      <4> QED
        BY Zenon, <1>0, <4>2, <4>3, <4>6, FitFactsNext
    <3>7. CASE e # c
      <4>1. value'[e] = value[e] /\ forced'[e] = forced[e]
        BY <3>3, <3>7 DEF StoreOK
      <4>2. p \in Pending(e)' => p \in Pending(e)
        BY Zenon, <1>1, <3>7, UpdateLocals DEF Pending
      <4>3. Pending(e)' \subseteq Pending(e) /\ \A t \in Pending(e)' : call'[t].amount = call[t].amount
        BY <3>4, <3>5, <4>2
      <4>4. value'[e] - forced'[e] = value[e] - forced[e]
        BY <4>1
      <4> QED
        BY Zenon, <1>0, <3>1, <4>3, <4>4, QuietFits
    <3> QED
      BY <3>6, <3>7
  <2> QED
    BY <2>1, <2>2 DEF PendingBounded
<1>2. ASSUME NEW p \in Instances, NEW c \in Counters, PipelineMisses(p, c)
      PROVE  FitsAlone' /\ PendingBounded'
  <2>1. FitsAlone'
    BY ZenonT(60), <1>2, <1>s, MissLocals DEF FitsAlone
  <2>2. ASSUME "noscript" \notin marks', NEW e \in Counters PROVE PendingFits(e)'
    <3>1. Pipelined(p) /\ PendingFits(e)
      BY Zenon, <1>2, <1>m, <2>2, MissLocals
    <3>2. value' = value /\ forced' = forced
      BY <1>2 DEF PipelineMisses, store, history
    <3>3. /\ \A q \in Instances \ {p} : (q \in Pending(e)' <=> q \in Pending(e))
                                        /\ call'[q].amount = call[q].amount
          /\ call'[p].amount = call[p].amount
      BY Zenon, <1>2, MissLocals, SamePending
    <3>4. p \in Pending(e)' => p \in Pending(e)
      BY Zenon, <1>2, <3>1, MissLocals DEF Pending, Pipelined
    <3>5. Pending(e)' \subseteq Instances
      BY DEF Pending
    <3>6. Pending(e)' \subseteq Pending(e) /\ \A t \in Pending(e)' : call'[t].amount = call[t].amount
      BY <3>3, <3>4, <3>5
    <3>7. value'[e] - forced'[e] = value[e] - forced[e]
      BY <3>2
    <3> QED
      BY Zenon, <1>0, <3>1, <3>6, <3>7, QuietFits
  <2> QED
    BY <2>1, <2>2 DEF PendingBounded
<1>3. ASSUME NEW p \in Instances, Reload(p)
      PROVE  FitsAlone' /\ PendingBounded'
  <2>1. FitsAlone'
    BY ZenonT(60), <1>3, <1>s, ReloadLocals DEF FitsAlone
  <2>2. ASSUME "noscript" \notin marks', NEW e \in Counters PROVE PendingFits(e)'
    <3>1. PendingFits(e)
      BY <1>m, <2>2
    <3>2. value' = value /\ forced' = forced
      BY <1>3 DEF Reload, store
    <3>3. /\ \A q \in Instances \ {p} : (q \in Pending(e)' <=> q \in Pending(e))
                                        /\ call'[q].amount = call[q].amount
          /\ call'[p].amount = call[p].amount
      BY Zenon, <1>3, ReloadLocals, SamePending
    <3>4. p \in Pending(e)' => p \in Pending(e)
      BY Zenon, <1>3, ReloadLocals DEF Pending
    <3>5. Pending(e)' \subseteq Instances
      BY DEF Pending
    <3>6. Pending(e)' \subseteq Pending(e) /\ \A t \in Pending(e)' : call'[t].amount = call[t].amount
      BY <3>3, <3>4, <3>5
    <3>7. value'[e] - forced'[e] = value[e] - forced[e]
      BY <3>2
    <3> QED
      BY Zenon, <1>0, <3>1, <3>6, <3>7, QuietFits
  <2> QED
    BY <2>1, <2>2 DEF PendingBounded
<1>4. ASSUME NEW p \in Instances, NEW cs \in Requests, NEW a \in Amounts, Evaluate(p, cs, a)
      PROVE  FitsAlone' /\ PendingBounded'
  <2>0. cs \in SUBSET Counters /\ a \in Nat
    BY CountersAssumption, AmountsAreNat
  <2>1. \A c \in cs : value[c] + a <= MaxValue[c] /\ value[c] \in Nat /\ MaxValue[c] \in Nat
    <3>1. ~IsLimited(cs, a)
      BY <1>4 DEF Evaluate
    <3>2. \A c \in cs : value[c] \in Nat /\ MaxValue[c] \in Nat
      BY <2>0, CountersAssumption DEF StoreOK
    <3> QED
      BY <2>0, <3>1, <3>2 DEF IsLimited, ValuesAndTtls
  <2>2. FitsAlone'
    <3>1. \A c \in call'[p].cs : call'[p].amount <= MaxValue[c]
      <4>1. call'[p].cs = cs /\ call'[p].amount = a
        BY Zenon, <1>4, EvaluateLocals
      <4> QED
        BY <2>0, <2>1, <4>1
    <3> QED
      BY Zenon, <1>4, <1>s, <3>1, EvaluateLocals DEF FitsAlone
  <2>3. ASSUME "noscript" \notin marks', NEW e \in Counters PROVE PendingFits(e)'
    <3>1. PendingFits(e)
      BY <1>m, <2>3
    <3>2. value' = value /\ forced' = forced
      BY <1>4 DEF Evaluate, store, history
    <3>3. \A q \in Instances \ {p} : (q \in Pending(e)' <=> q \in Pending(e))
                                     /\ call'[q].amount = call[q].amount
      BY Zenon, <1>4, EvaluateLocals, SamePending
    <3>4. Pending(e)' \subseteq Instances
      BY DEF Pending
    <3>5. CASE e \in cs
      <4>1. p \in Pending(e)' /\ call'[p].amount = a
        BY Zenon, <1>4, <3>5, EvaluateLocals DEF Pending
      <4>2. value'[e] + call'[p].amount <= MaxValue[e] + forced'[e]
        <5>1. forced[e] \in Nat
          BY DEF RestOK
        <5> QED
          BY <2>0, <2>1, <3>2, <3>5, <4>1, <5>1
      <4> QED
        BY Zenon, <1>0, <4>1, <4>2, FitFactsNext, JoinFits
    <3>6. CASE e \notin cs
      <4>1. p \notin Pending(e)'
        BY Zenon, <1>4, <3>6, EvaluateLocals DEF Pending
      <4>2. Pending(e)' \subseteq Pending(e) /\ \A t \in Pending(e)' : call'[t].amount = call[t].amount
        BY <3>3, <3>4, <4>1
      <4>3. value'[e] - forced'[e] = value[e] - forced[e]
        BY <3>2
      <4> QED
        BY Zenon, <1>0, <3>1, <4>2, <4>3, QuietFits
    <3> QED
      BY <3>5, <3>6
  <2> QED
    BY <2>2, <2>3 DEF PendingBounded
<1>5. ASSUME \A q \in Instances : Aside(q),
             \A c \in Counters : \/ value'[c] = 0 /\ forced'[c] = 0
                                 \/ value'[c] - forced'[c] = value[c] - forced[c]
      PROVE  FitsAlone' /\ PendingBounded'
  <2>1. FitsAlone'
    BY <1>5, <1>s DEF FitsAlone, Aside
  <2>2. ASSUME "noscript" \notin marks', NEW e \in Counters PROVE PendingFits(e)'
    <3>1. PendingFits(e)
      BY <1>m, <2>2
    <3>2. CASE value'[e] = 0 /\ forced'[e] = 0
      BY Zenon, <1>0, <2>1, <3>2, DroppedFits
    <3>3. CASE value'[e] - forced'[e] = value[e] - forced[e]
      <4>1. \A q \in Pending(e)' : q \in Instances /\ Same(q)
        BY <1>5 DEF Pending, Aside
      <4>2. Pending(e)' \subseteq Pending(e) /\ \A t \in Pending(e)' : call'[t].amount = call[t].amount
        BY <4>1, SamePending
      <4> QED
        BY Zenon, <1>0, <3>1, <3>3, <4>2, QuietFits
    <3> QED
      BY <1>5, <3>2, <3>3
  <2> QED
    BY <2>1, <2>2 DEF PendingBounded
<1> QED
  BY Zenon, <1>1, <1>2, <1>3, <1>4, <1>5, StepsAside

(***************************************************************************)
(* Any number of instances that share the store, and are admitted against  *)
(* the same values, exceed a limit by at most what all of them but one add *)
(* at once, besides reported hits, unless a pipeline ran twice.            *)
(***************************************************************************)
THEOREM OvershootIsBounded == Spec => []BoundedOvershoot
<1>1. ASSUME Init PROVE FitsAlone /\ PendingBounded /\ Pipelines /\ CountedOnce
  <2>1. LocalsOK /\ StoreOK /\ RestOK
    BY <1>1, InitOK
  <2>2. FitsAlone /\ Pipelines /\ CountedOnce
    BY <1>1 DEF Init, FitsAlone, Pipelines, CountedOnce
  <2>3. ASSUME NEW c \in Counters PROVE PendingFits(c)
    <3>1. Pending(c) = {} /\ value[c] = 0 /\ forced[c] = 0 /\ MaxValue[c] \in Nat
      BY <1>1, CountersAssumption DEF Init, Pending
    <3>2. Weight(Pending(c)) = 0
      BY <3>1, FS_EmptySet, WeightOfAll DEF Weight
    <3>3. value[c] + Weight(Pending(c)) <= Overshoot(c)
      <4>1. Overshoot(c) = (MaxValue[c] + forced[c]) + Weight(Instances) - MaxAmount
        BY <2>1, FitFacts
      <4> QED
        BY <3>1, <3>2, <4>1, WeightOfAll
    <3> QED
      BY <2>1, <3>3, FitFacts DEF Fit
  <2> QED
    BY <2>2, <2>3 DEF PendingBounded
<1>2. ASSUME LocalsOK, StoreOK, RestOK, PendingBounded PROVE BoundedOvershoot
  BY <1>2, FitFacts DEF PendingBounded, BoundedOvershoot
<1> QED
  BY <1>1, <1>2, InitOK, NextKeeps, NextCounts, NextFits, PTL DEF Spec
-----------------------------------------------------------------------------
\* Whose hold is whose.

\* What an instance's locals say about the holds and what is settled.
LEMMA Ids ==
  ASSUME LocalsOK, RestOK, Booked, NEW p \in Instances
  PROVE  /\ call[p].id \in Nat /\ call[p].hold \in Nat /\ call[p].amount \in Nat
         /\ call[p].cs \in SUBSET Counters
         /\ calls \in Nat /\ call[p].id <= calls
         /\ pc[p] \in {"reserve", "held", "commit", "release"} => call[p].id \in 1..calls
         /\ pc[p] \notin {"reserve", "held", "commit", "release"} => call[p].id = 0
<1>1. /\ call[p].id \in Nat /\ call[p].hold \in Nat /\ call[p].amount \in Nat /\ calls \in Nat
      /\ call[p].cs \in SUBSET Counters
  BY DEF LocalsOK, Calls, RestOK
<1> QED
  BY <1>1 DEF Booked, CallIds

\* A step of p after which p has no reservation, or the one it had.
Keeps(p) ==
  /\ \A q \in Instances \ {p} : Same(q)
  /\ \/ Same(p) /\ settled' \subseteq settled
     \/ call'[p].id = 0 /\ pc'[p] \notin {"reserve", "held", "commit", "release"}
     \/ /\ call'[p].id = call[p].id /\ call'[p].hold = call[p].hold
        /\ pc[p] \in {"reserve", "held", "commit", "release"}
        /\ pc'[p] \in {"held", "commit", "release"}
        /\ \A c \in Counters : <<call[p].id, c>> \in settled' =>
             pc'[p] \in {"commit", "release"} /\ (pc'[p] = "commit" => c \notin todo'[p])

\* No hold is new, and p keeps what it has.
LEMMA KeepsBooked ==
  ASSUME LocalsOK, RestOK, Booked, calls' \in Nat, calls <= calls',
         \A c \in Counters : holds'[c] \subseteq holds[c],
         NEW p \in Instances, Keeps(p),
         \A s \in settled' : s \in settled \/ (s[1] = call[p].id /\ s[1] # 0)
  PROVE  Booked'
<1>0. calls \in Nat
  BY DEF RestOK
<1>q. ASSUME NEW q \in Instances, q # p
      PROVE  /\ pc'[q] = pc[q] /\ todo'[q] = todo[q] /\ call'[q].id = call[q].id
             /\ call'[q].hold = call[q].hold /\ call'[q].amount = call[q].amount
  BY ZenonT(60), <1>q, SameLocals DEF Keeps
<1>p. Same(p) => /\ pc'[p] = pc[p] /\ todo'[p] = todo[p] /\ call'[p].id = call[p].id
                 /\ call'[p].hold = call[p].hold /\ call'[p].amount = call[p].amount
  BY SameLocals
<1>1. HoldIds'
  <2> SUFFICES ASSUME NEW c \in Counters
               PROVE  /\ IsFiniteSet(holds'[c])
                      /\ \A h \in holds'[c] : h.id \in 1..calls'
                      /\ \A g, h \in holds'[c] : g.id = h.id => g = h
    BY DEF HoldIds
  <2>1. /\ IsFiniteSet(holds[c]) /\ \A h \in holds[c] : h.id \in 1..calls
        /\ \A g, h \in holds[c] : g.id = h.id => g = h
    BY DEF Booked, HoldIds
  <2>2. IsFiniteSet(holds'[c])
    BY <2>1, FS_Subset
  <2> QED
    BY <1>0, <2>1, <2>2
<1>2. CallIds'
  <2> SUFFICES ASSUME NEW q \in Instances
               PROVE  /\ call'[q].id <= calls'
                      /\ call'[q].id # 0 <=> pc'[q] \in {"reserve", "held", "commit", "release"}
                      /\ pc'[q] = "reserve" => call'[q].hold <= call'[q].amount
    BY DEF CallIds
  <2>1. CASE q # p
    <3>1. /\ call[q].id <= calls /\ call[q].id \in Nat
          /\ call[q].id # 0 <=> pc[q] \in {"reserve", "held", "commit", "release"}
          /\ pc[q] = "reserve" => call[q].hold <= call[q].amount
      BY Ids DEF Booked, CallIds
    <3>2. /\ pc'[q] = pc[q] /\ call'[q].id = call[q].id
          /\ call'[q].hold = call[q].hold /\ call'[q].amount = call[q].amount
      BY <1>q, <2>1
    <3> QED
      BY <1>0, <3>1, <3>2
  <2>2. CASE q = p
    BY <1>0, <1>p, <2>2, Ids DEF Booked, CallIds, Keeps
  <2> QED
    BY <2>1, <2>2
<1>3. OwnIds'
  BY <1>p, <1>q DEF Booked, OwnIds, Keeps
<1>4. OwnHolds'
  <2> SUFFICES ASSUME NEW q \in Instances, NEW c \in Counters, NEW h \in holds'[c],
                      h.id = call'[q].id
               PROVE  pc'[q] # "reserve" /\ h.amount = call'[q].hold
    BY DEF OwnHolds
  <2>1. h \in holds[c] /\ h.id # 0
    BY DEF Booked, HoldIds
  <2>2. call'[q].id = call[q].id /\ call'[q].hold = call[q].hold /\ (pc'[q] = pc[q] \/ pc'[q] # "reserve")
    BY ZenonT(60), <1>p, <1>q, <2>1 DEF Keeps
  <2> QED
    BY <2>1, <2>2 DEF Booked, OwnHolds
<1>5. SettledIds'
  <2>1. \A s \in settled' : s[1] \in 1..calls'
    BY <1>0, Ids DEF Booked, SettledIds
  <2>2. ASSUME NEW q \in Instances, NEW c \in Counters, <<call'[q].id, c>> \in settled'
        PROVE  pc'[q] \in {"commit", "release"} /\ (pc'[q] = "commit" => c \notin todo'[q])
    <3>1. call'[q].id # 0
      BY <2>1, <2>2
    <3>2. CASE q = p
      BY ZenonT(60), <1>p, <2>2, <3>1, <3>2 DEF Booked, SettledIds, Keeps
    <3>3. CASE q # p
      <4>1. call[q].id # call[p].id
        BY ZenonT(60), <1>q, <3>1, <3>3 DEF Booked, OwnIds
      <4>2. <<call[q].id, c>> \in settled
        BY ZenonT(60), <1>q, <2>2, <3>3, <4>1
      <4> QED
        BY ZenonT(60), <1>q, <3>3, <4>2 DEF Booked, SettledIds
    <3> QED
      BY ZenonT(60), <3>2, <3>3
  <2> QED
    BY ZenonT(60), <2>1, <2>2 DEF SettledIds
<1> QED
  BY <1>1, <1>2, <1>3, <1>4, <1>5 DEF Booked

\* `reserve` takes an id that nobody has had.
LEMMA ReserveBooked ==
  ASSUME LocalsOK, RestOK, Booked, NEW p \in Instances, NEW cs \in Requests, NEW a \in Amounts,
         NEW l \in Ttls, Reserve(p, cs, a, l)
  PROVE  Booked'
<1> DEFINE h == Min({a} \cup {Cap[c] : c \in cs})
           k == [NoCall EXCEPT !.cs = cs, !.amount = a, !.id = calls + 1,
                               !.hold = h, !.ttl = l, !.when = now]
<1>0. calls \in Nat /\ calls' = calls + 1 /\ a \in Nat
  BY AmountsAreNat DEF RestOK, Reserve, Begin
<1>1. h <= a
  <2>1. {a} \cup {Cap[c] : c \in cs} \in SUBSET Nat
    BY <1>0, CountersAssumption
  <2> QED
    BY <2>1, MinIsNat
<1>2. call' = [call EXCEPT ![p] = k]
  BY Zenon DEF Reserve
<1> HIDE DEF h
<1>3. k.id = calls + 1 /\ k.hold = h /\ k.amount = a
  BY Zenon DEF NoCall
<1> HIDE DEF k
<1>4. /\ pc' = [pc EXCEPT ![p] = "reserve"] /\ todo' = [todo EXCEPT ![p] = {}]
      /\ UNCHANGED <<holds, settled>>
  BY DEF Reserve, Goto, store, history
<1>p. call'[p].id = calls + 1 /\ call'[p].hold = h /\ call'[p].amount = a /\ pc'[p] = "reserve"
  BY <1>2, <1>3, <1>4 DEF LocalsOK
<1>q. ASSUME NEW q \in Instances, q # p
      PROVE  pc'[q] = pc[q] /\ todo'[q] = todo[q] /\ call'[q] = call[q]
  BY <1>2, <1>4, <1>q DEF LocalsOK
<1>5. HoldIds'
  BY <1>0, <1>4 DEF Booked, HoldIds
<1>6. CallIds'
  <2> SUFFICES ASSUME NEW q \in Instances
               PROVE  /\ call'[q].id <= calls'
                      /\ call'[q].id # 0 <=> pc'[q] \in {"reserve", "held", "commit", "release"}
                      /\ pc'[q] = "reserve" => call'[q].hold <= call'[q].amount
    BY ZenonT(60) DEF CallIds
  <2>1. CASE q = p
    BY <1>0, <1>1, <1>p, <2>1
  <2>2. CASE q # p
    BY <1>0, <1>q, <2>2, Ids DEF Booked, CallIds
  <2> QED
    BY ZenonT(60), <2>1, <2>2
<1>7. OwnIds'
  <2>1. \A q \in Instances : q # p => call'[q].id # calls + 1
    BY <1>0, <1>q, Ids
  <2> QED
    BY ZenonT(60), <1>p, <1>q, <2>1 DEF Booked, OwnIds
<1>8. OwnHolds'
  <2>1. \A c \in Counters : \A g \in holds[c] : g.id # calls + 1
    BY <1>0 DEF Booked, HoldIds
  <2> QED
    BY <1>4, <1>p, <1>q, <2>1 DEF Booked, OwnHolds
<1>9. SettledIds'
  <2>1. \A c \in Counters : <<calls + 1, c>> \notin settled
    BY <1>0 DEF Booked, SettledIds
  <2>2. \A s \in settled' : s[1] \in 1..calls'
    BY <1>0, <1>4 DEF Booked, SettledIds
  <2> QED
    BY ZenonT(60), <1>4, <1>p, <1>q, <2>1, <2>2 DEF Booked, SettledIds
<1> QED
  BY <1>5, <1>6, <1>7, <1>8, <1>9 DEF Booked

\* The script books a hold for its own id on each of the counters, or none.
LEMMA ScriptReserveBooked ==
  ASSUME LocalsOK, StoreOK, RestOK, Booked, NEW p \in Instances, ScriptReserve(p)
  PROVE  Booked'
<1>0. /\ pc[p] = "reserve" /\ UNCHANGED <<calls, settled>> /\ calls \in Nat
      /\ call[p].id \in 1..calls
  BY ZenonT(60), Ids DEF ScriptReserve, RestOK
<1>1. CASE ~(Admitted(p) /\ call[p].hold > 0)
  <2>1. \A c \in Counters : holds'[c] \subseteq holds[c]
    BY ZenonT(60), <1>1 DEF ScriptReserve, Outstanding, LiveAt
  <2>2. \A c \in Counters : <<call[p].id, c>> \notin settled
    BY <1>0 DEF Booked, SettledIds
  <2>3. Keeps(p)
    <3>1. CASE Admitted(p)
      <4>1. pc' = [pc EXCEPT ![p] = "held"] /\ call' = call /\ todo' = todo
        BY ZenonT(60), <1>1, <3>1 DEF ScriptReserve, Goto
      <4>2. \A q \in Instances \ {p} : Same(q)
        BY Zenon, <4>1, OthersSame
      <4>3. pc'[p] = "held"
        BY <4>1 DEF LocalsOK
      <4> QED
        BY <1>0, <2>2, <4>1, <4>2, <4>3 DEF Keeps
    <3>2. CASE ~Admitted(p)
      <4>1. Return(p)
        BY ZenonT(60), <1>1, <3>2 DEF ScriptReserve
      <4>2. \A q \in Instances \ {p} : Same(q)
        BY Zenon, <4>1, OthersSame DEF Return, Goto
      <4>3. pc'[p] = "idle" /\ call'[p].id = 0
        BY <4>1 DEF Return, Goto, LocalsOK, NoCall
      <4> QED
        BY ZenonT(60), <4>2, <4>3 DEF Keeps
    <3> QED
      BY <3>1, <3>2
  <2> QED
    BY <1>0, <2>1, <2>3, KeepsBooked
<1>2. CASE Admitted(p) /\ call[p].hold > 0
  <2>1. pc' = [pc EXCEPT ![p] = "held"] /\ call' = call /\ todo' = todo
    BY ZenonT(60), <1>2 DEF ScriptReserve, Goto
  <2>2. holds' = [c \in Counters |-> IF c \in call[p].cs THEN Outstanding(p, c) \cup {Hold(p, c)}
                                     ELSE holds[c]]
    BY Zenon, <1>2 DEF ScriptReserve
  <2>3. pc'[p] = "held" /\ \A q \in Instances : q # p => pc'[q] = pc[q]
    BY <2>1 DEF LocalsOK
  <2>4. ASSUME NEW c \in Counters, NEW h \in holds'[c]
        PROVE  h \in holds[c] \/ (h.id = call[p].id /\ h.amount = call[p].hold /\ h = Hold(p, c))
    BY <2>2 DEF Outstanding, LiveAt, Hold
  <2>5. \A c \in Counters : \A h \in holds[c] : h.id # call[p].id
    BY <1>0 DEF Booked, OwnHolds
  <2>6. HoldIds'
    <3> SUFFICES ASSUME NEW c \in Counters
                 PROVE  /\ IsFiniteSet(holds'[c])
                        /\ \A h \in holds'[c] : h.id \in 1..calls
                        /\ \A g, h \in holds'[c] : g.id = h.id => g = h
      BY <1>0 DEF HoldIds
    <3>1. /\ IsFiniteSet(holds[c]) /\ \A h \in holds[c] : h.id \in 1..calls
          /\ \A g, h \in holds[c] : g.id = h.id => g = h
      BY DEF Booked, HoldIds
    <3>2. IsFiniteSet(holds'[c])
      <4>1. IsFiniteSet(holds[c] \cup {Hold(p, c)})
        BY ZenonT(60), <3>1, FS_AddElement
      <4>2. holds'[c] \subseteq holds[c] \cup {Hold(p, c)}
        BY <2>4
      <4> QED
        BY ZenonT(60), <4>1, <4>2, FS_Subset
    <3> QED
      BY <1>0, <2>4, <2>5, <3>1, <3>2
  <2>7. CallIds' /\ OwnIds'
    BY ZenonT(60), <1>0, <2>1, <2>3 DEF Booked, CallIds, OwnIds
  <2>8. OwnHolds'
    <3> SUFFICES ASSUME NEW q \in Instances, NEW c \in Counters, NEW h \in holds'[c], h.id = call[q].id
                 PROVE  pc'[q] # "reserve" /\ h.amount = call[q].hold
      BY <2>1 DEF OwnHolds
    <3>1. CASE h \in holds[c]
      BY <2>3, <3>1 DEF Booked, OwnHolds
    <3>2. CASE h \notin holds[c]
      <4>1. h.id = call[p].id /\ h.amount = call[p].hold
        BY <2>4, <3>2
      <4>2. call[q].id = call[p].id /\ call[q].id # 0
        BY <1>0, <4>1
      <4>3. q = p
        BY Zenon, <4>2 DEF Booked, OwnIds
      <4> QED
        BY <2>3, <4>1, <4>3
    <3> QED
      BY ZenonT(60), <3>1, <3>2
  <2>9. SettledIds'
    BY <1>0, <2>1, <2>3 DEF Booked, SettledIds
  <2> QED
    BY <2>6, <2>7, <2>8, <2>9 DEF Booked
<1> QED
  BY <1>1, <1>2

\* A commit settles its own holds, counter by counter.
LEMMA UpdateCounterBooked ==
  ASSUME LocalsOK, StoreOK, RestOK, Booked, NEW p \in Instances, NEW c \in Counters, UpdateCounter(p, c)
  PROVE  Booked'
<1>1. /\ pc[p] \in {"report", "commit"} /\ c \in todo[p] /\ AfterUpdate(p, c)
      /\ UNCHANGED <<calls, holds>> /\ calls \in Nat
      /\ settled' = IF pc[p] = "commit" /\ call[p].hold > 0
                    THEN settled \cup {<<call[p].id, c>>} ELSE settled
  BY ZenonT(60) DEF UpdateCounter, Increment, RestOK
<1>2. /\ pc[p] = "commit" => call[p].id \in 1..calls
      /\ pc[p] = "report" => call[p].id = 0
      /\ call[p].id \in Nat /\ call[p].hold \in Nat
  BY ZenonT(60), <1>1, Ids
<1>3. \A s \in settled' : s \in settled \/ (s[1] = call[p].id /\ s[1] # 0)
  BY <1>1, <1>2
<1>4. \A d \in Counters : <<call[p].id, d>> \in settled =>
        pc[p] = "commit" /\ d \notin todo[p]
  BY ZenonT(60), <1>1 DEF Booked, SettledIds
<1>5. Keeps(p)
  <2>1. CASE todo[p] # {c} /\ pc[p] = "commit"
    <3>1. pc' = pc /\ call' = call /\ todo' = [todo EXCEPT ![p] = todo[p] \ {c}]
      BY ZenonT(60), <1>1, <2>1 DEF AfterUpdate
    <3>2. \A q \in Instances \ {p} : Same(q)
      BY Zenon, <3>1, OthersSame
    <3>3. todo'[p] = todo[p] \ {c}
      BY <3>1 DEF LocalsOK
    <3>4. \A d \in Counters : <<call[p].id, d>> \in settled' => d \notin todo'[p]
      BY ZenonT(60), <1>1, <1>4, <3>3
    <3> QED
      BY ZenonT(60), <2>1, <3>1, <3>2, <3>4 DEF Keeps
  <2>2. CASE todo[p] # {c} /\ pc[p] = "report"
    <3>1. pc' = pc /\ call' = call /\ todo' = [todo EXCEPT ![p] = todo[p] \ {c}]
      BY ZenonT(60), <1>1, <2>2 DEF AfterUpdate
    <3>2. \A q \in Instances \ {p} : Same(q)
      BY Zenon, <3>1, OthersSame
    <3> QED
      BY ZenonT(60), <1>2, <2>2, <3>1, <3>2 DEF Keeps
  <2>3. CASE todo[p] = {c} /\ pc[p] = "commit" /\ call[p].hold > 0
    <3>1. /\ pc' = [pc EXCEPT ![p] = "release"] /\ call' = call
          /\ todo' = [todo EXCEPT ![p] = call[p].cs]
      BY ZenonT(60), <1>1, <2>3 DEF AfterUpdate, Goto
    <3>2. \A q \in Instances \ {p} : Same(q)
      BY Zenon, <3>1, OthersSame
    <3>3. pc'[p] = "release"
      BY <3>1 DEF LocalsOK
    <3> QED
      BY ZenonT(60), <2>3, <3>1, <3>2, <3>3 DEF Keeps
  <2>4. CASE todo[p] = {c} /\ ~(pc[p] = "commit" /\ call[p].hold > 0)
    <3>1. Return(p)
      BY ZenonT(60), <1>1, <2>4 DEF AfterUpdate
    <3>2. \A q \in Instances \ {p} : Same(q)
      BY Zenon, <3>1, OthersSame DEF Return, Goto
    <3>3. pc'[p] = "idle" /\ call'[p].id = 0
      BY ZenonT(60), <3>1 DEF Return, Goto, LocalsOK, NoCall
    <3> QED
      BY ZenonT(60), <3>2, <3>3 DEF Keeps
  <2> QED
    BY ZenonT(60), <1>1, <2>1, <2>2, <2>3, <2>4
<1>6. calls' \in Nat /\ calls <= calls' /\ \A d \in Counters : holds'[d] \subseteq holds[d]
  BY <1>1
<1> QED
  BY ZenonT(60), <1>3, <1>5, <1>6, KeepsBooked

\* Releasing takes back what was settled with the hold.
LEMMA ReleaseBooked ==
  ASSUME LocalsOK, StoreOK, RestOK, Booked, NEW p \in Instances, NEW c \in Counters, Release(p, c)
  PROVE  Booked'
<1>1. /\ pc[p] = "release" /\ settled' \subseteq settled /\ calls' = calls /\ calls \in Nat
  BY ZenonT(60) DEF Release, RestOK
<1>2. \A d \in Counters : holds'[d] \subseteq holds[d]
  BY ZenonT(60) DEF Release, StoreOK
<1>3. Keeps(p)
  <2>1. CASE todo[p] # {c}
    <3>1. pc' = pc /\ call' = call /\ todo' = [todo EXCEPT ![p] = todo[p] \ {c}]
      BY ZenonT(60), <2>1 DEF Release
    <3>2. \A q \in Instances \ {p} : Same(q)
      BY Zenon, <3>1, OthersSame
    <3> QED
      BY ZenonT(60), <1>1, <3>1, <3>2 DEF Keeps
  <2>2. CASE todo[p] = {c}
    <3>1. Return(p)
      BY ZenonT(60), <2>2 DEF Release
    <3>2. \A q \in Instances \ {p} : Same(q)
      BY Zenon, <3>1, OthersSame DEF Return, Goto
    <3>3. pc'[p] = "idle" /\ call'[p].id = 0
      BY <3>1 DEF Return, Goto, LocalsOK, NoCall
    <3> QED
      BY ZenonT(60), <3>2, <3>3 DEF Keeps
  <2> QED
    BY <2>1, <2>2
<1> QED
  BY <1>1, <1>2, <1>3, KeepsBooked

\* A commit begins.
LEMMA CommitBooked ==
  ASSUME LocalsOK, StoreOK, RestOK, Booked, NEW p \in Instances, NEW a, Commit(p, a)
  PROVE  Booked'
<1>1. /\ pc[p] = "held" /\ UNCHANGED <<settled, calls, holds>> /\ calls \in Nat
      /\ pc' = [pc EXCEPT ![p] = "commit"] /\ call' = [call EXCEPT ![p].amount = a]
      /\ todo' = [todo EXCEPT ![p] = call[p].cs]
  BY DEF Commit, RestOK, Goto, store, history
<1>2. \A q \in Instances \ {p} : Same(q)
  BY Zenon, <1>1, OthersSame
<1>3. pc'[p] = "commit" /\ call'[p].id = call[p].id /\ call'[p].hold = call[p].hold
  BY <1>1 DEF LocalsOK, Calls
<1>4. \A c \in Counters : <<call[p].id, c>> \notin settled
  BY <1>1 DEF Booked, SettledIds
<1>5. Keeps(p)
  BY <1>1, <1>2, <1>3, <1>4 DEF Keeps
<1> QED
  BY <1>1, <1>5, KeepsBooked

\* A step makes one call at most.
LEMMA Counting ==
  ASSUME RestOK
  PROVE  /\ calls' = calls => calls' \in Nat /\ calls <= calls'
         /\ calls' = calls + 1 => calls' \in Nat /\ calls <= calls'
  BY DEF RestOK

\* Operations that are no reservations.
LEMMA OtherBooked ==
  ASSUME LocalsOK, StoreOK, RestOK, Booked, NEW p \in Instances, NEW c, NEW cs, NEW a,
         \/ SyncUpdate(p, c) \/ PipelineRuns(p, c) \/ PipelineMisses(p, c) \/ Reload(p)
         \/ Get(p, c) \/ Del(p, c) \/ DeleteCounters(p, c) \/ Evaluate(p, cs, a)
         \/ Report(p, cs, a) \/ GetCounters(p, cs)
         \/ Updated(p) \/ DelSet(p) \/ Abandon(p) \/ Fail(p)
  PROVE  Booked'
<1>1. /\ UNCHANGED <<holds, settled>> /\ calls' \in Nat /\ calls <= calls'
  <2>0. /\ calls' = calls => calls' \in Nat /\ calls <= calls'
        /\ calls' = calls + 1 => calls' \in Nat /\ calls <= calls'
    BY Counting
  <2>1. CASE \/ SyncUpdate(p, c) \/ PipelineRuns(p, c) \/ PipelineMisses(p, c) \/ Reload(p)
    BY ZenonT(60), <2>0, <2>1 DEF SyncUpdate, PipelineRuns, PipelineMisses, Reload, Incremented,
       Increment, store, history
  <2>2. CASE \/ Get(p, c) \/ Del(p, c) \/ Updated(p) \/ DelSet(p) \/ Abandon(p) \/ Fail(p)
    BY ZenonT(60), <2>0, <2>2 DEF Get, Del, Updated, DelSet, Abandon, Fail, store, history
  <2>3. CASE DeleteCounters(p, c) \/ Evaluate(p, cs, a) \/ Report(p, cs, a) \/ GetCounters(p, cs)
    BY ZenonT(60), <2>0, <2>3 DEF DeleteCounters, Evaluate, Report, GetCounters, Begin, store,
       history
  <2> QED
    BY <2>1, <2>2, <2>3
<1>2. ASSUME NEW l, NEW k, NEW ts, k.id = 0, l \notin {"reserve", "held", "commit", "release"},
             pc' = [pc EXCEPT ![p] = l], call' = [call EXCEPT ![p] = k],
             todo' = [todo EXCEPT ![p] = ts] \/ todo' = todo
      PROVE  Keeps(p)
  <2>1. \A q \in Instances \ {p} : Same(q)
    BY Zenon, <1>2, OthersSame
  <2>2. pc'[p] = l /\ call'[p] = k
    BY <1>2 DEF LocalsOK
  <2> QED
    BY ZenonT(60), <1>2, <2>1, <2>2 DEF Keeps
<1>3. call[p] \in Calls /\ (pc[p] \in {"update", "list", "del"} => call[p].id = 0)
  BY Zenon, Ids DEF LocalsOK
<1>4. CASE SyncUpdate(p, c) \/ PipelineRuns(p, c)
  <2> DEFINE k == [call[p] EXCEPT !.times[c] = call[p].times[c] + 1]
  <2>1. /\ pc' = [pc EXCEPT ![p] = "update"] /\ call' = [call EXCEPT ![p] = k]
        /\ todo' = [todo EXCEPT ![p] = todo[p] \ {c}] /\ pc[p] = "update"
    BY ZenonT(60), <1>4 DEF SyncUpdate, PipelineRuns, Incremented, LocalsOK
  <2>2. k.id = call[p].id
    BY <1>3 DEF Calls
  <2> HIDE DEF k
  <2>3. Keeps(p)
    BY ZenonT(60), <1>2, <1>3, <2>1, <2>2
  <2> QED
    BY Zenon, <1>1, <2>3, KeepsBooked
<1>5. CASE PipelineMisses(p, c)
  <2> DEFINE k == [call[p] EXCEPT !.failed = TRUE]
  <2>1. /\ pc' = [pc EXCEPT ![p] = "update"] /\ call' = [call EXCEPT ![p] = k]
        /\ todo' = [todo EXCEPT ![p] = todo[p] \ {c}] /\ pc[p] = "update"
    BY <1>5 DEF PipelineMisses, LocalsOK
  <2>2. k.id = call[p].id
    BY <1>3 DEF Calls
  <2> HIDE DEF k
  <2>3. Keeps(p)
    BY Zenon, <1>2, <1>3, <2>1, <2>2
  <2> QED
    BY ZenonT(60), <1>1, <2>3, KeepsBooked
<1>6. CASE Reload(p)
  <2> DEFINE k == [call[p] EXCEPT !.failed = FALSE, !.again = TRUE]
  <2>1. /\ pc' = [pc EXCEPT ![p] = "update"] /\ call' = [call EXCEPT ![p] = k]
        /\ todo' = [todo EXCEPT ![p] = call[p].cs] /\ pc[p] = "update"
    BY Zenon, <1>6 DEF Reload, LocalsOK
  <2>2. k.id = call[p].id
    BY <1>3 DEF Calls
  <2> HIDE DEF k
  <2>3. Keeps(p)
    BY ZenonT(60), <1>2, <1>3, <2>1, <2>2
  <2> QED
    BY ZenonT(60), <1>1, <2>3, KeepsBooked
<1>7. CASE Get(p, c)
  <2>1. CASE todo[p] = {c}
    <3>1. Keeps(p)
      BY ZenonT(60), <1>2, <1>7, <2>1 DEF Get, Return, Goto, NoCall
    <3> QED
      BY ZenonT(60), <1>1, <3>1, KeepsBooked
  <2>2. CASE todo[p] # {c}
    <3> DEFINE found == IF Exists(c) THEN call[p].listed \cup {c} ELSE call[p].listed
               k == [call[p] EXCEPT !.listed = found]
    <3>1. /\ pc' = [pc EXCEPT ![p] = "list"] /\ call' = [call EXCEPT ![p] = k]
          /\ todo' = [todo EXCEPT ![p] = todo[p] \ {c}] /\ pc[p] = "list"
      BY <1>7, <2>2 DEF Get, LocalsOK
    <3>2. k.id = call[p].id
      BY <1>3 DEF Calls
    <3> HIDE DEF k
    <3>3. Keeps(p)
      BY ZenonT(60), <1>2, <1>3, <3>1, <3>2
    <3> QED
      BY ZenonT(60), <1>1, <3>3, KeepsBooked
  <2> QED
    BY ZenonT(60), <2>1, <2>2
<1>8. CASE Del(p, c)
  <2>1. /\ pc[p] = "del" /\ call' = Forgotten({c})
        /\ pc' = [pc EXCEPT ![p] = "delset"] /\ todo' = [todo EXCEPT ![p] = {}]
    BY ZenonT(60), <1>8 DEF Del, Goto
  <2>2. \A q \in Instances \ {p} : Same(q)
    <3>1. \A q \in Instances \ {p} : pc'[q] = pc[q] /\ todo'[q] = todo[q]
      BY <2>1 DEF LocalsOK
    <3> QED
      BY Zenon, <2>1, <3>1, ForgottenSame
  <2>3. pc'[p] = "delset" /\ call'[p].id = 0
    BY Zenon, <1>3, <2>1 DEF LocalsOK, Forgotten, Calls
  <2>4. Keeps(p)
    BY Zenon, <2>2, <2>3 DEF Keeps
  <2> QED
    BY <1>1, <2>4, KeepsBooked
<1>9. CASE Evaluate(p, cs, a) \/ Report(p, cs, a)
  <2> DEFINE k == [NoCall EXCEPT !.cs = cs, !.amount = a]
  <2>1. \/ pc' = [pc EXCEPT ![p] = "update"]
        \/ pc' = [pc EXCEPT ![p] = "report"]
    BY <1>9 DEF Evaluate, Report, Goto
  <2>2. call' = [call EXCEPT ![p] = k] /\ todo' = [todo EXCEPT ![p] = cs]
    BY <1>9 DEF Evaluate, Report
  <2>3. k.id = 0
    BY DEF NoCall
  <2> HIDE DEF k
  <2>4. Keeps(p)
    BY ZenonT(60), <1>2, <2>1, <2>2, <2>3
  <2> QED
    BY <1>1, <2>4, KeepsBooked
<1>10. CASE GetCounters(p, cs)
  <2> DEFINE k == [NoCall EXCEPT !.cs = cs, !.since = {d \in cs : Exists(d)}]
  <2>1. /\ pc' = [pc EXCEPT ![p] = "list"] /\ call' = [call EXCEPT ![p] = k]
        /\ todo' = [todo EXCEPT ![p] = members \cap cs]
    BY <1>10 DEF GetCounters, Goto
  <2>2. k.id = 0
    BY DEF NoCall
  <2> HIDE DEF k
  <2>3. Keeps(p)
    BY Zenon, <1>2, <2>1, <2>2
  <2> QED
    BY <1>1, <2>3, KeepsBooked
<1>11. CASE DeleteCounters(p, c)
  <2> DEFINE k == [NoCall EXCEPT !.cs = {c}]
  <2>1. /\ pc' = [pc EXCEPT ![p] = "del"] \/ pc' = [pc EXCEPT ![p] = "delset"]
        /\ call' = [call EXCEPT ![p] = k] /\ todo' = [todo EXCEPT ![p] = members \cap {c}]
    BY Zenon, <1>11 DEF DeleteCounters, Goto
  <2>2. k.id = 0
    BY DEF NoCall
  <2> HIDE DEF k
  <2>3. Keeps(p)
    BY Zenon, <1>2, <2>1, <2>2
  <2> QED
    BY <1>1, <2>3, KeepsBooked
<1>12. CASE Updated(p) \/ DelSet(p) \/ Abandon(p) \/ Fail(p)
  <2>1. Return(p)
    BY Zenon, <1>12 DEF Updated, DelSet, Abandon, Fail
  <2>2. Keeps(p)
    BY Zenon, <1>2, <2>1 DEF Return, Goto, NoCall
  <2> QED
    BY <1>1, <2>2, KeepsBooked
<1> QED
  BY <1>4, <1>5, <1>6, <1>7, <1>8, <1>9, <1>10, <1>11, <1>12

\* Steps of no instance, and those that leave no trace in the locals.
LEMMA IdleBooked ==
  ASSUME LocalsOK, StoreOK, RestOK, Booked,
         \/ \E p \in Instances : Clear(p)
         \/ Tick \/ ScriptFlush \/ UNCHANGED vars
         \/ \E p \in Instances, cs \in Requests, a \in Amounts : Deny(p, cs, a)
  PROVE  Booked'
<1>1. \A q \in Instances : Same(q)
  <2>1. CASE \/ \E p \in Instances : Clear(p)
             \/ Tick
    <3>1. PICK cs : call' = Forgotten(cs)
      BY ZenonT(60), <2>1 DEF Clear, Tick
    <3>2. UNCHANGED <<pc, todo>>
      BY ZenonT(60), <2>1 DEF Clear, Tick
    <3> QED
      BY ZenonT(60), <3>1, <3>2, ForgottenSame
  <2>2. CASE \/ ScriptFlush \/ UNCHANGED vars
             \/ \E p \in Instances, cs \in Requests, a \in Amounts : Deny(p, cs, a)
    <3>1. UNCHANGED <<pc, call, todo>>
      BY ZenonT(60), <2>2 DEF ScriptFlush, vars, Deny
    <3> QED
      BY <3>1, SameIfUnchanged
  <2> QED
    BY <2>1, <2>2
<1>2. UNCHANGED settled /\ calls' \in Nat /\ calls <= calls'
  BY ZenonT(60), Counting DEF Clear, Tick, ScriptFlush, vars, Deny, history, Begin
<1>3. \A c \in Counters : holds'[c] \subseteq holds[c]
  BY ZenonT(60) DEF Clear, Tick, ScriptFlush, vars, Deny, store
<1>4. PICK p \in Instances : TRUE
  BY InstancesAssumption
<1>5. Keeps(p)
  BY Zenon, <1>1, <1>2 DEF Keeps
<1> QED
  BY <1>2, <1>3, <1>5, KeepsBooked

\* Every step keeps the books.
LEMMA NextBooked ==
  ASSUME LocalsOK, StoreOK, RestOK, Booked, [Next]_vars
  PROVE  Booked'
<1>1. \A p \in Instances : \A c, cs, a :
        \/ SyncUpdate(p, c) \/ PipelineRuns(p, c) \/ PipelineMisses(p, c) \/ Reload(p)
        \/ Get(p, c) \/ Del(p, c) \/ DeleteCounters(p, c) \/ Evaluate(p, cs, a)
        \/ Report(p, cs, a) \/ GetCounters(p, cs)
        \/ Updated(p) \/ DelSet(p) \/ Abandon(p) \/ Fail(p)
        => Booked'
  BY OtherBooked
<1>2. \A p \in Instances : Reload(p) \/ Updated(p) \/ DelSet(p) \/ Abandon(p) \/ Fail(p) => Booked'
  BY <1>1
<1>3. \A p \in Instances, c \in Counters : UpdateCounter(p, c) \/ Release(p, c) => Booked'
  BY UpdateCounterBooked, ReleaseBooked
<1>4. \A p \in Instances : \A a : ScriptReserve(p) \/ Commit(p, a) => Booked'
  BY ScriptReserveBooked, CommitBooked
<1>5. \A p \in Instances : ScriptReserve(p) => Booked'
  BY ScriptReserveBooked
<1> QED
  BY ZenonT(60), <1>1, <1>2, <1>3, <1>4, <1>5, ReserveBooked, IdleBooked, Steps
-----------------------------------------------------------------------------
\* Used and reserved amounts.

\* A non-empty set of subsets of a finite set has a minimal member.
LEMMA MinimalSubset ==
  ASSUME NEW S, IsFiniteSet(S), NEW B, B \subseteq SUBSET S, B # {}
  PROVE  \E T \in B : \A U \in B : U \subseteq T => U = T
<1> DEFINE R == StrictSubsetOrdering(S)
<1>1. IsWellFoundedOn(R, SUBSET S)
  BY Zenon, FS_StrictSubsetOrderingWellFounded, FS_FiniteSubsetsOfFinite
<1>2. \A U, T \in SUBSET S : U \subseteq T /\ U # T => <<U, T>> \in R
  BY DEF StrictSubsetOrdering
<1> HIDE DEF R
<1>3. PICK T \in B : \A U \in B : ~(<<U, T>> \in R)
  BY Zenon, <1>1, WFMin
<1> QED
  BY Zenon, <1>2, <1>3

\* The units that the elements of S hold, to be counted instead of added up.
Units(S) == {u \in S \X Nat : u[2] < u[1].amount}
Weighed(S) == IsFiniteSet(S) /\ \A x \in S : x.amount \in Nat

\* Each element contributes its amount.
LEMMA UnitsOfElement ==
  ASSUME NEW S, NEW x \in S, x.amount \in Nat, IsFiniteSet(Units(S \ {x}))
  PROVE  /\ IsFiniteSet(Units(S))
         /\ Cardinality(Units(S)) = x.amount + Cardinality(Units(S \ {x}))
<1> DEFINE I == 0..(x.amount - 1)
           X == {x} \X I
<1>1. IsFiniteSet(I) /\ Cardinality(I) = x.amount
  <2>1. 0 \in Int /\ x.amount - 1 \in Int
    OBVIOUS
  <2>2. /\ IsFiniteSet(I)
        /\ Cardinality(I) = IF 0 > x.amount - 1 THEN 0 ELSE (x.amount - 1) - 0 + 1
    BY Zenon, <2>1, FS_Interval
  <2> QED
    BY <2>2
<1>2. IsFiniteSet(X) /\ Cardinality(X) = x.amount
  <2>1. IsFiniteSet({x}) /\ Cardinality({x}) = 1
    BY Zenon, FS_Singleton
  <2>2. IsFiniteSet(X) /\ Cardinality(X) = Cardinality({x}) * Cardinality(I)
    BY Zenon, <1>1, <2>1, FS_Product
  <2> QED
    BY <1>1, <2>1, <2>2
<1>3. Units(S) = Units(S \ {x}) \cup X /\ Units(S \ {x}) \cap X = {}
  BY DEF Units
<1> HIDE DEF X
<1>4. Cardinality(Units(S \ {x}) \cap X) = 0
  BY Zenon, <1>3, FS_EmptySet
<1>5. /\ IsFiniteSet(Units(S))
      /\ Cardinality(Units(S))
           = Cardinality(Units(S \ {x})) + Cardinality(X) - Cardinality(Units(S \ {x}) \cap X)
  BY Zenon, <1>2, <1>3, FS_Union
<1> QED
  BY <1>2, <1>4, <1>5, FS_CardinalityType

\* A finite set holds finitely many units.
LEMMA UnitsFinite ==
  ASSUME NEW S, Weighed(S)
  PROVE  IsFiniteSet(Units(S)) /\ Cardinality(Units(S)) \in Nat
<1> DEFINE B == {s \in SUBSET S : ~IsFiniteSet(Units(s))}
<1> SUFFICES ASSUME B # {} PROVE FALSE
  BY FS_CardinalityType
<1>0. B \subseteq SUBSET S
  OBVIOUS
<1>1. PICK s \in B : \A u \in B : u \subseteq s => u = s
  <2> HIDE DEF B
  <2> QED
    BY <1>0, MinimalSubset DEF Weighed
<1>2. s # {}
  <2>1. Units({}) = {}
    BY DEF Units
  <2> QED
    BY <2>1, FS_EmptySet
<1>3. PICK x \in s : x.amount \in Nat
  BY <1>2 DEF Weighed
<1>4. s \ {x} \in SUBSET S /\ s \ {x} # s /\ s \ {x} \subseteq s
  OBVIOUS
<1>5. IsFiniteSet(Units(s \ {x}))
  BY Zenon, <1>1, <1>4
<1> QED
  BY ZenonT(60), <1>3, <1>5, UnitsOfElement

\* `Total` folds over the subsets of S; counting units solves its recursion.
Any(s) == CHOOSE x \in s : TRUE
Sums(f, S) ==
  f = [s \in SUBSET S |-> IF s = {} THEN 0 ELSE Any(s).amount + f[s \ {Any(s)}]]

\* The numbers of units of all subsets of S satisfy it.
LEMMA UnitsSolve ==
  ASSUME NEW S, Weighed(S)
  PROVE  Sums([s \in SUBSET S |-> Cardinality(Units(s))], S)
<1> DEFINE h == [s \in SUBSET S |-> Cardinality(Units(s))]
<1>1. ASSUME NEW s \in SUBSET S
      PROVE  h[s] = IF s = {} THEN 0 ELSE Any(s).amount + h[s \ {Any(s)}]
  <2>1. CASE s = {}
    <3>1. Units(s) = {}
      BY <2>1 DEF Units
    <3> QED
      BY <2>1, <3>1, FS_EmptySet
  <2>2. CASE s # {}
    <3>1. Any(s) \in s /\ Any(s).amount \in Nat /\ s \ {Any(s)} \in SUBSET S
      BY <2>2 DEF Any, Weighed
    <3>2. Weighed(s \ {Any(s)})
      BY FS_Subset DEF Weighed
    <3>3. Cardinality(Units(s)) = Any(s).amount + Cardinality(Units(s \ {Any(s)}))
      BY Zenon, <3>1, <3>2, UnitsFinite, UnitsOfElement
    <3> QED
      BY Zenon, <2>2, <3>1, <3>3
  <2> QED
    BY Zenon, <2>1, <2>2
<1> QED
  BY Zenon, <1>1 DEF Sums

\* The recursion has one solution.
LEMMA SumsUnique ==
  ASSUME NEW S, IsFiniteSet(S), NEW f, Sums(f, S), NEW g, Sums(g, S)
  PROVE  f[S] = g[S]
<1> DEFINE B == {s \in SUBSET S : f[s] # g[s]}
<1> SUFFICES ASSUME B # {} PROVE FALSE
  OBVIOUS
<1>0. B \subseteq SUBSET S
  BY ZenonT(60)
<1>1. PICK s \in B : \A u \in B : u \subseteq s => u = s
  <2> HIDE DEF B
  <2> QED
    BY <1>0, MinimalSubset
<1>2. /\ f[s] = IF s = {} THEN 0 ELSE Any(s).amount + f[s \ {Any(s)}]
      /\ g[s] = IF s = {} THEN 0 ELSE Any(s).amount + g[s \ {Any(s)}]
  BY Zenon DEF Sums
<1>3. s # {} => s \ {Any(s)} \in SUBSET S /\ s \ {Any(s)} # s /\ s \ {Any(s)} \subseteq s
  BY ZenonT(60) DEF Any
<1>4. s # {} => f[s \ {Any(s)}] = g[s \ {Any(s)}]
  BY Zenon, <1>1, <1>3
<1> QED
  BY Zenon, <1>2, <1>4

\* So a sum is the number of units held.
LEMMA TotalIsUnits ==
  ASSUME NEW S, Weighed(S)
  PROVE  Total(S) = Cardinality(Units(S))
<1> DEFINE f == CHOOSE f : Sums(f, S)
           h == [s \in SUBSET S |-> Cardinality(Units(s))]
<1>1. Total(S) = f[S]
  BY Zenon DEF Total, MapThenSumSet, MapThenFoldSet, Sums, Any
<1>2. Sums(h, S) /\ Sums(f, S)
  BY Zenon, UnitsSolve
<1>3. h[S] = Cardinality(Units(S))
  OBVIOUS
<1> HIDE DEF f, h
<1>4. f[S] = h[S]
  BY ZenonT(60), <1>2, SumsUnique DEF Weighed
<1> QED
  BY Zenon, <1>1, <1>3, <1>4

\* Any element can be taken out of a sum.
LEMMA TotalElement ==
  ASSUME NEW S, Weighed(S), NEW x \in S
  PROVE  Weighed(S \ {x}) /\ Total(S) = x.amount + Total(S \ {x})
<1>1. Weighed(S \ {x})
  BY FS_Subset DEF Weighed
<1> QED
  BY Zenon, <1>1, TotalIsUnits, UnitsFinite, UnitsOfElement DEF Weighed

\* Leaving elements out makes a sum no larger.
LEMMA TotalSubset ==
  ASSUME NEW S, Weighed(S), NEW T \in SUBSET S
  PROVE  /\ Weighed(T) /\ Total(T) \in Nat /\ Total(S) \in Nat
         /\ Total(T) <= Total(S)
<1>1. Weighed(T)
  BY FS_Subset DEF Weighed
<1>2. Units(T) \in SUBSET Units(S)
  BY DEF Units
<1>3. /\ IsFiniteSet(Units(S)) /\ Cardinality(Units(S)) \in Nat
      /\ IsFiniteSet(Units(T)) /\ Cardinality(Units(T)) \in Nat
  BY <1>1, UnitsFinite
<1>4. Cardinality(Units(T)) <= Cardinality(Units(S))
  BY Zenon, <1>2, <1>3, FS_Subset
<1> QED
  BY <1>1, <1>3, <1>4, TotalIsUnits

\* What can be added up: holds are finitely many, their amounts natural numbers.
LEMMA HoldsWeighed ==
  ASSUME StoreOK, Booked, NEW c \in Counters, NEW S \in SUBSET holds[c]
  PROVE  Weighed(S)
<1>1. IsFiniteSet(holds[c])
  BY ZenonT(60) DEF Booked, HoldIds
<1>2. \A h \in holds[c] : h.amount \in Nat
  BY DEF StoreOK
<1> QED
  BY <1>1, <1>2, FS_Subset DEF Weighed

\* Nothing is counted, and nothing held that was not.
LEMMA UsageFades ==
  ASSUME StoreOK, Booked, NEW c \in Counters, Usage(c) <= MaxValue[c],
         value'[c] \in Nat, value'[c] <= value[c], Unsettled(c)' \subseteq Unsettled(c)
  PROVE  Usage(c)' <= MaxValue[c]
<1>1. Unsettled(c) \in SUBSET holds[c] /\ Unsettled(c)' \in SUBSET Unsettled(c)
  BY ZenonT(60) DEF Unsettled, LiveAt
<1>2. /\ Total(Unsettled(c)') \in Nat /\ Total(Unsettled(c)) \in Nat
      /\ Total(Unsettled(c)') <= Total(Unsettled(c))
  BY ZenonT(60), <1>1, HoldsWeighed, TotalSubset
<1>3. value[c] \in Nat /\ MaxValue[c] \in Nat
  BY ZenonT(60), CountersAssumption DEF StoreOK
<1>4. Usage(c)' = value'[c] + Total(Unsettled(c)') /\ Usage(c) = value[c] + Total(Unsettled(c))
  BY ZenonT(60) DEF Usage
<1> QED
  BY <1>2, <1>3, <1>4

\* A commit that a live hold covers uses no more than it held.
LEMMA CommitCovered ==
  ASSUME LocalsOK, StoreOK, RestOK, Booked, NEW p \in Instances, NEW c \in Counters,
         UpdateCounter(p, c), "unreserved" \notin marks', NEW e \in Counters,
         Usage(e) <= MaxValue[e]
  PROVE  Usage(e)' <= MaxValue[e]
<1>1. /\ pc[p] = "commit" /\ c \in todo[p] /\ call[p].amount <= call[p].hold
      /\ \E h \in holds[c] : h.id = call[p].id /\ h.expires > now
  <2>1. Uncovered(p, c) = {}
    BY ZenonT(60) DEF UpdateCounter, Uncovered
  <2> QED
    BY ZenonT(60), <2>1 DEF Uncovered, UpdateCounter
<1>2. /\ call[p].amount \in Nat /\ call[p].amount > 0 /\ call[p].hold \in Nat
      /\ call[p].hold > 0
  <2>1. call[p].amount \in Amounts /\ call[p].hold \in Nat
    BY ZenonT(60), <1>1, Ids DEF LocalsOK, AddsAmounts
  <2>2. call[p].amount \in Nat /\ call[p].amount > 0
    <3>1. call[p].amount \in 1..MaxAmount /\ MaxAmount \in Nat
      BY Zenon, <2>1, AmountsAssumption
    <3> QED
      BY <3>1
  <2> QED
    BY <1>1, <2>1, <2>2
<1>3. /\ now' = now /\ holds' = holds /\ settled' = settled \cup {<<call[p].id, c>>}
      /\ value' = [value EXCEPT ![c] = value[c] + call[p].amount]
  BY ZenonT(60), <1>1, <1>2 DEF UpdateCounter, Increment
<1>4. value[e] \in Nat /\ value'[e] = IF e = c THEN value[e] + call[p].amount ELSE value[e]
  BY ZenonT(60), <1>3 DEF StoreOK
<1>5. CASE e # c
  <2>1. Unsettled(e)' \subseteq Unsettled(e)
    BY ZenonT(60), <1>3 DEF Unsettled, LiveAt
  <2>2. value'[e] \in Nat /\ value'[e] <= value[e]
    BY <1>4, <1>5
  <2> QED
    BY ZenonT(60), <2>1, <2>2, UsageFades
<1>6. CASE e = c
  <2>1. PICK h \in holds[c] : h.id = call[p].id /\ h.expires > now
    BY ZenonT(60), <1>1
  <2>2. h.amount = call[p].hold
    BY ZenonT(60), <2>1 DEF Booked, OwnHolds
  <2>3. <<call[p].id, c>> \notin settled
    BY ZenonT(60), <1>1 DEF Booked, SettledIds
  <2>4. h \in Unsettled(c) /\ Unsettled(c) \in SUBSET holds[c]
    BY ZenonT(60), <2>1, <2>3 DEF Unsettled, LiveAt
  <2>5. Unsettled(c)' \in SUBSET (Unsettled(c) \ {h})
    BY ZenonT(60), <1>3, <2>1 DEF Unsettled, LiveAt
  <2>6. Weighed(Unsettled(c)) /\ Weighed(Unsettled(c) \ {h})
        /\ Total(Unsettled(c)) = h.amount + Total(Unsettled(c) \ {h})
    BY Zenon, <2>4, HoldsWeighed, TotalElement
  <2>7. /\ Total(Unsettled(c)') \in Nat /\ Total(Unsettled(c) \ {h}) \in Nat
        /\ Total(Unsettled(c)') <= Total(Unsettled(c) \ {h})
    BY ZenonT(60), <2>5, <2>6, TotalSubset
  <2>8. /\ Usage(c)' = value'[c] + Total(Unsettled(c)') /\ Usage(c) = value[c] + Total(Unsettled(c))
        /\ MaxValue[c] \in Nat
    BY ZenonT(60), CountersAssumption DEF Usage
  <2> QED
    BY <1>1, <1>2, <1>4, <1>6, <2>2, <2>6, <2>7, <2>8
<1> QED
  BY <1>5, <1>6

\* A hold h of no more than the amount a that fits beside the value v and other
\* holds o fits as well.
LEMMA HoldFits ==
  ASSUME NEW v \in Nat, NEW o \in Nat, NEW a \in Nat, NEW h \in Nat, NEW u \in Nat, NEW m \in Nat,
         v + o + a <= m, h <= a, u <= h + o
  PROVE  v + u <= m
  OBVIOUS

\* The script holds no more than there was room for.
LEMMA ReserveWithin ==
  ASSUME LocalsOK, StoreOK, RestOK, Booked, NEW p \in Instances, ScriptReserve(p),
         NEW c \in Counters, Usage(c) <= MaxValue[c]
  PROVE  Usage(c)' <= MaxValue[c]
<1>1. /\ pc[p] = "reserve" /\ now' = now /\ value' = value /\ settled' = settled
      /\ value[c] \in Nat /\ MaxValue[c] \in Nat
  BY ZenonT(60), CountersAssumption DEF ScriptReserve, StoreOK
<1>2. CASE ~(c \in call[p].cs /\ Admitted(p) /\ call[p].hold > 0)
  <2>1. holds'[c] \subseteq holds[c]
    BY ZenonT(60), <1>2 DEF ScriptReserve, Outstanding, LiveAt
  <2>2. Unsettled(c)' \subseteq Unsettled(c)
    BY ZenonT(60), <1>1, <2>1 DEF Unsettled, LiveAt
  <2>3. value'[c] \in Nat /\ value'[c] <= value[c]
    BY <1>1
  <2> QED
    BY ZenonT(60), <1>1, <2>2, <2>3, UsageFades
<1>3. CASE c \in call[p].cs /\ Admitted(p) /\ call[p].hold > 0
  <2> DEFINE O == Outstanding(p, c)
             h == Hold(p, c)
  <2>1. holds'[c] = O \cup {h}
    BY ZenonT(60), <1>3 DEF ScriptReserve
  <2>2. h.id = call[p].id /\ h.amount = call[p].hold
    BY ZenonT(60) DEF Hold
  <2>3. O \in SUBSET holds[c]
    BY DEF Outstanding, LiveAt
  <2>4. value[c] + Total(O) + call[p].amount <= MaxValue[c]
    BY ZenonT(60), <1>3 DEF Admitted
  <2>5. Unsettled(c)' \in SUBSET (O \cup {h})
    BY ZenonT(60), <2>1 DEF Unsettled, LiveAt
  <2>6. call[p].hold \in Nat /\ call[p].amount \in Nat /\ call[p].hold <= call[p].amount
    BY ZenonT(60), <1>1, Ids DEF Booked, CallIds
  <2> HIDE DEF O, h
  <2>7. h \notin O
    BY ZenonT(60), <1>1, <2>2, <2>3 DEF Booked, OwnHolds
  <2>8. Weighed(O)
    BY ZenonT(60), <2>3, HoldsWeighed
  <2>9. Weighed(O \cup {h})
    BY ZenonT(60), <2>2, <2>6, <2>8, FS_AddElement DEF Weighed
  <2>10. (O \cup {h}) \ {h} = O
    BY <2>7
  <2>11. Total(O \cup {h}) = h.amount + Total(O) /\ Total(O) \in Nat
    <3>1. Total(O \cup {h}) = h.amount + Total((O \cup {h}) \ {h})
      BY <2>9, TotalElement
    <3> QED
      BY <2>8, <2>10, <3>1, TotalSubset
  <2>12. Total(Unsettled(c)') \in Nat /\ Total(Unsettled(c)') <= Total(O \cup {h})
    BY ZenonT(60), <2>5, <2>9, TotalSubset
  <2>13. Usage(c)' = value[c] + Total(Unsettled(c)')
    BY ZenonT(60), <1>1 DEF Usage
  <2>14. Total(Unsettled(c)') <= call[p].hold + Total(O)
    BY ZenonT(60), <2>2, <2>11, <2>12
  <2>15. value[c] \in Nat /\ MaxValue[c] \in Nat /\ Total(O) \in Nat /\ Total(Unsettled(c)') \in Nat
    BY ZenonT(60), <1>1, <2>11, <2>12
  <2>16. value[c] + Total(Unsettled(c)') <= MaxValue[c]
    BY ZenonT(60), <2>4, <2>6, <2>14, <2>15, HoldFits
  <2> QED
    BY Zenon, <2>13, <2>16
<1> QED
  BY ZenonT(60), <1>2, <1>3

\* Every other step keeps the counters and holds, or lets some go.
LEMMA NextWithin ==
  ASSUME LocalsOK, StoreOK, RestOK, Booked, ReservedWithinLimit, [Next]_vars
  PROVE  ReservedWithinLimit'
<1> SUFFICES ASSUME "unreserved" \notin marks', NEW e \in Counters
             PROVE  Usage(e)' <= MaxValue[e]
  BY Zenon DEF ReservedWithinLimit
<1>0. Usage(e) <= MaxValue[e]
  BY MarksStay DEF ReservedWithinLimit
<1>v. value[e] \in Nat
  BY ZenonT(60) DEF StoreOK
<1>1. ASSUME UNCHANGED <<now, value, holds, settled>>
      PROVE  Usage(e)' <= MaxValue[e]
  <2>1. Unsettled(e)' \subseteq Unsettled(e)
    BY <1>1 DEF Unsettled, LiveAt
  <2>2. value'[e] \in Nat /\ value'[e] <= value[e]
    BY <1>1, <1>v
  <2> QED
    BY ZenonT(60), <1>0, <2>1, <2>2, UsageFades
<1>2. ASSUME NEW p \in Instances, NEW c \in Counters, SyncUpdate(p, c) \/ PipelineRuns(p, c)
      PROVE  FALSE
  BY <1>2 DEF SyncUpdate, PipelineRuns, Incremented
<1>3. ASSUME NEW p \in Instances, NEW c, NEW cs, NEW a, NEW l,
             \/ PipelineMisses(p, c) \/ Get(p, c) \/ DeleteCounters(p, c) \/ Evaluate(p, cs, a)
             \/ Report(p, cs, a) \/ Reserve(p, cs, a, l) \/ GetCounters(p, cs) \/ Commit(p, a)
             \/ Reload(p) \/ Updated(p) \/ DelSet(p) \/ Abandon(p) \/ Fail(p) \/ Deny(p, cs, a)
             \/ ScriptFlush \/ UNCHANGED vars
      PROVE  UNCHANGED <<now, value, holds, settled>>
  BY ZenonT(60), <1>3 DEF PipelineMisses, Get, DeleteCounters, Evaluate, Report, Reserve, GetCounters, Commit,
     Reload, Updated, DelSet, Abandon, Fail, Deny, ScriptFlush, vars, store, history
<1>4. ASSUME NEW p \in Instances, NEW c \in Counters, Release(p, c)
      PROVE  Usage(e)' <= MaxValue[e]
  <2>1. /\ now' = now /\ value' = value /\ settled' = settled \ {<<call[p].id, c>>}
        /\ holds' = [holds EXCEPT ![c] = {h \in holds[c] : h.id # call[p].id}]
    BY ZenonT(60), <1>4 DEF Release
  <2>2. Unsettled(e)' \subseteq Unsettled(e)
    BY ZenonT(60), <2>1 DEF Unsettled, LiveAt, StoreOK
  <2>3. value'[e] \in Nat /\ value'[e] <= value[e]
    BY <1>v, <2>1
  <2> QED
    BY ZenonT(60), <1>0, <2>2, <2>3, UsageFades
<1>5. ASSUME NEW p, NEW c, Del(p, c) \/ Clear(p) \/ Tick
      PROVE  Usage(e)' <= MaxValue[e]
  <2>1. settled' = settled /\ now \in Nat /\ now' \in Nat /\ now <= now' /\ holds'[e] \subseteq holds[e]
    BY <1>5 DEF Del, Clear, Tick, StoreOK
  <2>2. \E cs : Drop(cs)
    BY ZenonT(60), <1>5 DEF Del, Clear, Tick
  <2>3. value'[e] \in Nat /\ value'[e] <= value[e]
    BY <1>v, <2>2 DEF Drop
  <2>4. \A h \in holds[e] : h.expires \in Nat
    BY DEF StoreOK
  <2>5. Unsettled(e)' \subseteq Unsettled(e)
    BY <2>1, <2>4 DEF Unsettled, LiveAt
  <2> QED
    BY ZenonT(60), <1>0, <2>3, <2>5, UsageFades
<1>6. \A p \in Instances : \A c, cs, a, l :
        \/ PipelineMisses(p, c) \/ Get(p, c) \/ DeleteCounters(p, c) \/ Evaluate(p, cs, a)
        \/ Report(p, cs, a) \/ Reserve(p, cs, a, l) \/ GetCounters(p, cs) \/ Commit(p, a)
        \/ Deny(p, cs, a)
        => Usage(e)' <= MaxValue[e]
  BY <1>1, <1>3
<1>7. \A p \in Instances : \/ Reload(p) \/ Updated(p) \/ DelSet(p) \/ Abandon(p) \/ Fail(p)
                           \/ ScriptFlush \/ UNCHANGED vars
                           => Usage(e)' <= MaxValue[e]
  BY ZenonT(60), <1>1, <1>3
<1>8. ScriptFlush \/ UNCHANGED vars => Usage(e)' <= MaxValue[e]
  BY <1>7, InstancesAssumption
<1>9. \A p, c : Del(p, c) \/ Clear(p) \/ Tick => Usage(e)' <= MaxValue[e]
  BY <1>5
<1>10. (Tick => Usage(e)' <= MaxValue[e]) /\ \A p : Clear(p) => Usage(e)' <= MaxValue[e]
  BY ZenonT(60), <1>9
<1>11. \A p \in Instances : ScriptReserve(p) => Usage(e)' <= MaxValue[e]
  BY <1>0, ReserveWithin
<1>12. \A p \in Instances, c \in Counters : UpdateCounter(p, c) => Usage(e)' <= MaxValue[e]
  BY <1>0, CommitCovered
<1> QED
  BY ZenonT(60), <1>2, <1>4, <1>6, <1>7, <1>8, <1>9, <1>10, <1>11, <1>12, Steps

(***************************************************************************)
(* As long as all hits are commits that a live reservation covers, used    *)
(* and reserved amounts together never exceed a limit, for any instances,  *)
(* counters, amounts and lifetimes.                                        *)
(***************************************************************************)
THEOREM ReservedUsageWithinLimit == Spec => []ReservedWithinLimit
<1>1. ASSUME Init PROVE Booked /\ ReservedWithinLimit
  <2>1. HoldIds /\ CallIds /\ OwnIds /\ OwnHolds /\ SettledIds
    BY <1>1, FS_EmptySet DEF Init, HoldIds, CallIds, OwnIds, OwnHolds, SettledIds, NoCall
  <2>2. ASSUME NEW c \in Counters PROVE Usage(c) <= MaxValue[c]
    <3>1. value[c] = 0 /\ Unsettled(c) = {} /\ MaxValue[c] \in Nat
      BY ZenonT(60), <1>1, CountersAssumption DEF Init, Unsettled, LiveAt
    <3>2. Total({}) = 0
      <4>1. Weighed({}) /\ Units({}) = {}
        BY FS_EmptySet DEF Weighed, Units
      <4> QED
        BY <4>1, TotalIsUnits, FS_EmptySet
    <3> QED
      BY <3>1, <3>2 DEF Usage
  <2> QED
    BY <2>1, <2>2 DEF Booked, ReservedWithinLimit
<1> QED
  BY <1>1, InitOK, NextKeeps, NextBooked, NextWithin, PTL DEF Spec
=============================================================================
