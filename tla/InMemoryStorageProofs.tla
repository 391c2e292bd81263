------------------------ MODULE InMemoryStorageProofs ------------------------
(***************************************************************************)
(* Proofs about the in-memory storage, for any number of threads, counters *)
(* and limits: how far concurrent requests can take a counter over its     *)
(* limit.                                                                  *)
(***************************************************************************)
EXTENDS InMemoryStorage, FiniteSetTheorems, TLAPS

\* A leaf that names no prover is given to the SMT solver, twice if it fails, and
\* then to Zenon.
USE SMTT(20), Z3T(20), ZenonT(20)

\* What the threads of S may add together.
Weight(S) == MaxDelta * Cardinality(S)

\* Multiplying by a natural number keeps the order.
LEMMA TimesMonotone ==
  ASSUME NEW d \in Nat, NEW a \in Nat, NEW b \in Nat, a <= b
  PROVE  d * a <= d * b
<1>1. PICK k \in Nat : b = a + k
  <2>1. b - a \in Nat /\ b = a + (b - a)
    OBVIOUS
  <2> QED
    BY <2>1
<1> QED
  BY <1>1

\* What a set of threads may add grows with the set, by at most MaxDelta for
\* each thread.
LEMMA Weights ==
  ASSUME NEW S \in SUBSET Threads
  PROVE  /\ Weight(S) \in Nat
         /\ \A R \in SUBSET S : Weight(R) <= Weight(S)
         /\ Weight(S) <= Weight(Threads)
         /\ \A t \in S : Weight(S \ {t}) = Weight(S) - MaxDelta
         /\ \A t \in Threads : t \notin S => Weight(S) <= Weight(Threads) - MaxDelta
<1>0. MaxDelta \in Nat
  BY DeltasAssumption
<1>1. ASSUME NEW T \in SUBSET Threads
      PROVE  IsFiniteSet(T) /\ Cardinality(T) \in Nat
  BY ThreadsAssumption, FS_Subset, FS_CardinalityType
<1>2. ASSUME NEW T \in SUBSET Threads, NEW R \in SUBSET T
      PROVE  Weight(R) <= Weight(T)
  <2>1. R \in SUBSET Threads
    OBVIOUS
  <2>2. Cardinality(R) <= Cardinality(T)
    BY <1>1, FS_Subset
  <2> QED
    BY <1>0, <1>1, <2>1, <2>2, TimesMonotone DEF Weight
<1>3. ASSUME NEW T \in SUBSET Threads, NEW t \in T
      PROVE  Weight(T \ {t}) = Weight(T) - MaxDelta
  <2>1. Cardinality(T \ {t}) = Cardinality(T) - 1
    BY <1>1, FS_RemoveElement
  <2> QED
    BY <1>0, <1>1, <2>1 DEF Weight
<1>4. Weight(S) \in Nat
  BY <1>0, <1>1 DEF Weight
<1>5. ASSUME NEW t \in Threads, t \notin S
      PROVE  Weight(S) <= Weight(Threads) - MaxDelta
  <2>1. S \in SUBSET (Threads \ {t}) /\ Threads \ {t} \in SUBSET Threads
    BY <1>5
  <2>2. Weight(S) <= Weight(Threads \ {t})
    BY <1>2, <2>1
  <2> QED
    BY <1>3, <2>2
<1> QED
  BY <1>2, <1>3, <1>4, <1>5

\* The empty storage satisfies the invariant.
LEMMA InitIInv == Init => IInv
<1> SUFFICES ASSUME Init PROVE IInv
  OBVIOUS
<1> USE DEF Init
<1>1. TypeOK
  BY DeltasAssumption DEF TypeOK
<1>2. ReadersInside /\ Stages /\ OneList
  BY DEF ReadersInside, Stages, OneList
<1>3. FitsAlone
  BY DEF FitsAlone, Pending
<1>4. PendingBounded
  BY DEF PendingBounded, Settled
<1> QED
  BY <1>1, <1>2, <1>3, <1>4 DEF IInv

\* Facts about the typed state that every step below uses.
LEMMA Facts ==
  ASSUME IInv, NEW c \in Counters
  PROVE  /\ value[c] \in Nat /\ forced[c] \in Nat /\ MaxValue[c] \in Nat
         /\ MaxDelta \in Nat /\ MaxDelta > 0
         /\ Pending(c) \in SUBSET Threads
         /\ Weight(Pending(c)) \in Nat /\ Weight(Threads) \in Nat
         /\ \A t \in Threads : delta[t] \in Nat /\ delta[t] <= MaxDelta
         /\ Room(c) = MaxValue[c] + Weight(Threads) - MaxDelta + forced[c]
         /\ Settled(c) => Bound(c)
<1>1. value[c] \in Nat /\ forced[c] \in Nat
  BY DEF IInv, TypeOK
<1>2. MaxValue[c] \in Nat
  BY CountersAssumption DEF Counters
<1>3. MaxDelta \in Nat /\ MaxDelta > 0
  BY DeltasAssumption
<1>4. Pending(c) \in SUBSET Threads /\ Threads \in SUBSET Threads
  BY DEF Pending
<1>5. Weight(Pending(c)) \in Nat /\ Weight(Threads) \in Nat
  BY <1>4, Weights
<1>6. Settled(c) => Bound(c)
  BY DEF IInv, PendingBounded
<1>7. \A t \in Threads : delta[t] \in Nat /\ delta[t] <= MaxDelta
  BY <1>3 DEF IInv, TypeOK
<1>8. Cardinality(Threads) \in Nat
  BY ThreadsAssumption, FS_CardinalityType
<1>9. Room(c) = MaxValue[c] + Weight(Threads) - MaxDelta + forced[c]
  BY <1>1, <1>2, <1>3, <1>8 DEF Room, Overshoot, Weight
<1> QED
  BY <1>1, <1>2, <1>3, <1>4, <1>5, <1>6, <1>7, <1>9

\* A step that leaves a settled cell alone and lets no request join it.
LEMMA Undisturbed ==
  ASSUME IInv, NEW c \in Counters, Settled(c),
         value'[c] = value[c], forced'[c] = forced[c],
         Pending(c)' \in SUBSET Pending(c),
         \A u \in Pending(c)' : delta'[u] = delta[u]
  PROVE  Bound(c)'
<1> DEFINE P == Pending(c)
           Q == Pending(c)'
<1>1. /\ P \in SUBSET Threads /\ Q \in SUBSET P /\ Q \in SUBSET Threads
      /\ Room(c)' = Room(c)
  BY Facts DEF Room
<1>2. /\ Bound(c)' <=> \/ value[c] + Weight(Q) <= Room(c)
                        \/ \E t \in Q : value[c] + delta[t] + Weight(Q \ {t}) <= Room(c)
      /\ Bound(c) <=> \/ value[c] + Weight(P) <= Room(c)
                       \/ \E t \in P : value[c] + delta[t] + Weight(P \ {t}) <= Room(c)
      /\ Bound(c)
  BY <1>1, Facts DEF Bound, Weight
<1>3. /\ value[c] \in Nat /\ Room(c) \in Int
      /\ \A t \in P : delta[t] \in Nat
      /\ Weight(P) \in Nat /\ Weight(Q) \in Nat /\ Weight(Q) <= Weight(P)
  BY <1>1, Facts, Weights
<1> HIDE DEF P, Q
<1>4. CASE value[c] + Weight(P) <= Room(c)
  BY <1>2, <1>3, <1>4
<1>5. ASSUME NEW t \in P, value[c] + delta[t] + Weight(P \ {t}) <= Room(c)
      PROVE  Bound(c)'
  <2>1. P \ {t} \in SUBSET Threads /\ Q \ {t} \in SUBSET (P \ {t})
    BY <1>1
  <2>2. Weight(P \ {t}) \in Nat /\ Weight(Q \ {t}) \in Nat /\ Weight(Q \ {t}) <= Weight(P \ {t})
    BY <1>1, <2>1, Weights
  <2>3. CASE t \in Q
    <3>1. value[c] + delta[t] + Weight(Q \ {t}) <= Room(c)
      BY <1>3, <1>5, <2>2
    <3> QED
      BY Zenon, <1>2, <2>3, <3>1
  <2>4. CASE t \notin Q
    <3>1. Weight(Q) = Weight(Q \ {t})
      <4>1. Q = Q \ {t}
        BY <2>4
      <4> QED
        BY <4>1
    <3>2. value[c] + Weight(Q) <= Room(c)
      BY <1>3, <1>5, <2>2, <3>1
    <3> QED
      BY <1>2, <3>2
  <2> QED
    BY <2>3, <2>4
<1> QED
  BY Zenon, <1>2, <1>4, <1>5

\* A pending request adds its amount to a settled cell.
LEMMA Adds ==
  ASSUME IInv, NEW c \in Counters, Settled(c), NEW t \in Pending(c),
         value'[c] = value[c] + delta[t], forced'[c] = forced[c],
         Pending(c)' = Pending(c) \ {t}, delta' = delta
  PROVE  Bound(c)'
<1> DEFINE P == Pending(c)
<1>1. P \in SUBSET Threads /\ Room(c)' = Room(c)
  BY Facts DEF Room
<1>2. /\ Bound(c)' <=>
           \/ value[c] + delta[t] + Weight(P \ {t}) <= Room(c)
           \/ \E u \in P \ {t} :
                value[c] + delta[t] + delta[u] + Weight((P \ {t}) \ {u}) <= Room(c)
      /\ Bound(c) <=> \/ value[c] + Weight(P) <= Room(c)
                       \/ \E u \in P : value[c] + delta[u] + Weight(P \ {u}) <= Room(c)
      /\ Bound(c)
  BY <1>1, Facts DEF Bound, Weight
<1>3. /\ value[c] \in Nat /\ Room(c) \in Int /\ MaxDelta \in Nat
      /\ \A u \in P : delta[u] \in Nat /\ delta[u] <= MaxDelta
      /\ Weight(P) \in Nat
      /\ \A u \in P : Weight(P \ {u}) = Weight(P) - MaxDelta
  BY <1>1, Facts, Weights
<1> HIDE DEF P
<1>0. t \in P
  BY DEF P
<1>4. CASE value[c] + Weight(P) <= Room(c)
  <2>1. value[c] + delta[t] + Weight(P \ {t}) <= Room(c)
    BY <1>0, <1>3, <1>4
  <2> QED
    BY <1>2, <2>1
<1>5. ASSUME NEW u \in P, value[c] + delta[u] + Weight(P \ {u}) <= Room(c)
      PROVE  Bound(c)'
  <2>1. CASE u = t
    BY <1>2, <1>5, <2>1
  <2>2. CASE u # t
    <3>1. P \ {t} \in SUBSET Threads /\ u \in P \ {t}
      BY <1>1, <2>2
    <3>2. Weight((P \ {t}) \ {u}) = Weight(P \ {t}) - MaxDelta
      BY <3>1, Weights
    <3>3. value[c] + delta[t] + delta[u] + Weight((P \ {t}) \ {u}) <= Room(c)
      BY <1>0, <1>3, <1>5, <3>2
    <3> QED
      BY Zenon, <1>2, <3>1, <3>3
  <2> QED
    BY <2>1, <2>2
<1> QED
  BY Zenon, <1>2, <1>4, <1>5

\* A cell starts over with the amount of one request that fits alone, or with
\* reported hits, while that thread is no longer pending.
LEMMA StartsOver ==
  ASSUME IInv, NEW c \in Counters, NEW t \in Threads,
         Pending(c)' \in SUBSET (Threads \ {t}),
         value'[c] \in Nat, forced'[c] \in Nat, value'[c] <= MaxValue[c] + forced'[c]
  PROVE  Bound(c)'
<1>1. Weight(Pending(c)') \in Nat /\ Weight(Pending(c)') <= Weight(Threads) - MaxDelta
  BY Weights
<1>2. Room(c)' = MaxValue[c] + Weight(Threads) - MaxDelta + forced'[c]
  <2>1. Cardinality(Threads) \in Nat
    BY ThreadsAssumption, FS_CardinalityType
  <2> QED
    BY <2>1, Facts DEF Room, Overshoot, Weight
<1>3. value'[c] + Weight(Pending(c)') <= Room(c)'
  BY <1>1, <1>2, Facts
<1> QED
  BY <1>3 DEF Bound, Weight

\* A request finds room in a cell, whatever is pending there already.
LEMMA Joins ==
  ASSUME IInv, NEW c \in Counters, NEW t \in Threads, delta' = delta,
         Pending(c)' \in SUBSET Threads, t \in Pending(c)',
         value'[c] \in Nat, forced'[c] \in Nat,
         value'[c] + delta[t] <= MaxValue[c] + forced'[c]
  PROVE  Bound(c)'
<1>1. /\ Pending(c)' \ {t} \in SUBSET Threads
      /\ t \notin Pending(c)' \ {t}
  OBVIOUS
<1>2. /\ Weight(Pending(c)' \ {t}) \in Nat
      /\ Weight(Pending(c)' \ {t}) <= Weight(Threads) - MaxDelta
  BY <1>1, Weights
<1>3. Room(c)' = MaxValue[c] + Weight(Threads) - MaxDelta + forced'[c]
  <2>1. Cardinality(Threads) \in Nat
    BY ThreadsAssumption, FS_CardinalityType
  <2> QED
    BY <2>1, Facts DEF Room, Overshoot, Weight
<1>4. value'[c] + delta'[t] + Weight(Pending(c)' \ {t}) <= Room(c)'
  BY <1>2, <1>3, Facts
<1> QED
  BY Zenon, <1>4 DEF Bound, Weight

\* Reported hits raise the bound as much as the value.
LEMMA Reported ==
  ASSUME IInv, NEW c \in Counters, Settled(c), NEW d \in Nat,
         value'[c] = value[c] + d, forced'[c] = forced[c] + d,
         Pending(c)' = Pending(c), delta' = delta
  PROVE  Bound(c)'
<1> DEFINE P == Pending(c)
<1>1. /\ Room(c)' = Room(c) + d /\ Room(c) \in Int
      /\ value[c] \in Nat /\ Weight(P) \in Nat
      /\ \A t \in P : delta[t] \in Nat
  <2>1. Room(c)' = MaxValue[c] + Overshoot + forced'[c] /\ Overshoot \in Int
    <3>1. Cardinality(Threads) \in Nat
      BY ThreadsAssumption, FS_CardinalityType
    <3> QED
      BY <3>1, Facts DEF Room, Overshoot
  <2>2. Room(c) = MaxValue[c] + Overshoot + forced[c]
    BY DEF Room
  <2> QED
    BY <2>1, <2>2, Facts
<1>2. \A t \in P : Weight(P \ {t}) \in Nat
  <2> SUFFICES ASSUME NEW t \in P PROVE Weight(P \ {t}) \in Nat
    OBVIOUS
  <2>1. P \ {t} \in SUBSET Threads
    BY Facts
  <2> QED
    BY <2>1, Weights
<1>3. /\ Bound(c)' <=>
           \/ value[c] + d + Weight(P) <= Room(c)'
           \/ \E t \in P : value[c] + d + delta[t] + Weight(P \ {t}) <= Room(c)'
      /\ Bound(c) <=> \/ value[c] + Weight(P) <= Room(c)
                       \/ \E t \in P : value[c] + delta[t] + Weight(P \ {t}) <= Room(c)
      /\ Bound(c)
  BY Facts DEF Bound, Weight
<1> HIDE DEF P
<1> QED
  BY <1>1, <1>2, <1>3

\* The first pass: the only request that can join a counter's pending ones is
\* the one that has just found room in it.
LEMMA AnnotateJoins ==
  ASSUME IInv, NEW t \in Threads, NEW c \in Counters,
         AnnotatePresent(t, c) \/ AnnotateNew(t, c) \/ AnnotateMissing(t, c)
  PROVE  /\ \A e \in Counters : Pending(e)' \in SUBSET (Pending(e) \cup {t})
         /\ \A e \in Counters : (e # c \/ t \in limited') => Pending(e)' \in SUBSET Pending(e)
         /\ t \notin limited' => Current(c) + delta[t] <= MaxValue[c]
         /\ Current(c) \in Nat /\ delta[t] \in 1..MaxDelta
         /\ FitsAlone' /\ delta' = delta
<1> USE DEF AnnotatePresent, AnnotateNew, AnnotateMissing
<1>1. /\ pc[t] = "annotate"
      /\ limited' = IF Exceeds(c, delta[t]) THEN limited \cup {t} ELSE limited
      /\ delta' = delta
  BY DEF Annotate
<1>2. Current(c) \in Nat /\ delta[t] \in 1..MaxDelta
  BY <1>1, DeltasAssumption DEF IInv, TypeOK, Stages, Current
<1>3. t \notin limited' => Current(c) + delta[t] <= MaxValue[c]
  BY <1>1, <1>2, Facts DEF Exceeds
<1>4. /\ apply \in [Threads -> SUBSET Counters] /\ missing \in [Threads -> SUBSET Simple]
      /\ \/ apply' = [apply EXCEPT ![t] = @ \cup {c}] /\ missing' = missing
         \/ missing' = [missing EXCEPT ![t] = @ \cup {c}] /\ apply' = apply
  BY DEF IInv, TypeOK
<1>5. limited \subseteq limited'
  BY <1>1
<1>6. \A e \in Counters : Pending(e)' \in SUBSET (Pending(e) \cup {t})
  BY <1>4, <1>5 DEF Pending
<1>7. \A e \in Counters : (e # c \/ t \in limited') => Pending(e)' \in SUBSET Pending(e)
  BY <1>4, <1>5 DEF Pending
<1>8. FitsAlone'
  <2> SUFFICES ASSUME NEW e \in Counters, NEW u \in Pending(e)'
               PROVE  delta[u] <= MaxValue[e]
    BY <1>1 DEF FitsAlone
  <2>1. CASE u \in Pending(e)
    BY <2>1 DEF IInv, FitsAlone
  <2>2. CASE u \notin Pending(e)
    <3>1. u = t /\ e = c /\ t \notin limited'
      BY <1>6, <1>7, <2>2 DEF Pending
    <3> QED
      BY <1>2, <1>3, <3>1, Facts
  <2> QED
    BY <2>1, <2>2
<1> QED
  BY <1>1, <1>2, <1>3, <1>6, <1>7, <1>8

\* `annotate` on a counter that has a cell.
LEMMA AnnotatePresentKeeps ==
  ASSUME IInv, NEW t \in Threads, NEW c \in Counters, AnnotatePresent(t, c)
  PROVE  IInv'
<1>1. TypeOK'
  BY CountersAssumption, DeltasAssumption DEF IInv, TypeOK, Counters, AnnotatePresent, Annotate, cells
<1>2. ReadersInside'
  BY DEF IInv, TypeOK, ReadersInside, Stages, AnnotatePresent, Annotate, cells
<1>3. Stages'
  BY DeltasAssumption DEF IInv, TypeOK, Stages, OneList, AnnotatePresent, Annotate, cells
<1>4. OneList'
  BY DEF IInv, TypeOK, OneList, Stages, AnnotatePresent, Annotate, cells
<1>5. FitsAlone'
  BY AnnotateJoins
<1>6. ASSUME NEW e \in Counters, Settled(e)'
      PROVE  Bound(e)'
  <2>1. Settled(e) /\ value'[e] = value[e] /\ forced'[e] = forced[e]
    BY <1>6 DEF IInv, TypeOK, Settled, OneList, Stages, AnnotatePresent, Annotate, cells
  <2>2. CASE e # c \/ t \in limited'
    BY ZenonT(60), <2>1, <2>2, AnnotateJoins, Undisturbed
  <2>3. CASE e = c /\ t \notin limited'
    <3>1. value[c] + delta[t] <= MaxValue[c] /\ delta[t] \in 1..MaxDelta
      BY <2>1, <2>3, AnnotateJoins DEF Current, Settled, Elapsed, IInv, TypeOK
    <3>2. Pending(c)' \in SUBSET Threads /\ delta' = delta
      BY AnnotateJoins, Facts
    <3>3. t \in Pending(c)'
      BY <2>3 DEF IInv, TypeOK, Pending, AnnotatePresent
    <3>4. value'[c] \in Nat /\ forced'[c] \in Nat /\ value'[c] + delta[t] <= MaxValue[c] + forced'[c]
      BY <2>1, <2>3, <3>1, Facts
    <3> QED
      BY <2>3, <3>2, <3>3, <3>4, Joins
  <2> QED
    BY <2>2, <2>3
<1> QED
  BY <1>1, <1>2, <1>3, <1>4, <1>5, <1>6 DEF IInv, PendingBounded

\* `annotate` creates the cell of a qualified counter.
LEMMA AnnotateNewKeeps ==
  ASSUME IInv, NEW t \in Threads, NEW c \in Counters, AnnotateNew(t, c)
  PROVE  IInv'
<1>1. TypeOK'
  BY CountersAssumption, DeltasAssumption DEF IInv, TypeOK, Counters, AnnotateNew, Annotate, cells
<1>2. ReadersInside'
  BY DEF IInv, TypeOK, ReadersInside, Stages, AnnotateNew, Annotate, cells
<1>3. Stages'
  BY DeltasAssumption DEF IInv, TypeOK, Stages, OneList, AnnotateNew, Annotate, cells
<1>4. OneList'
  BY DEF IInv, TypeOK, OneList, Stages, AnnotateNew, Annotate, cells
<1>5. FitsAlone'
  BY AnnotateJoins
<1>6. ASSUME NEW e \in Counters, Settled(e)'
      PROVE  Bound(e)'
  <2>1. CASE e # c
    <3>1. Settled(e) /\ value'[e] = value[e] /\ forced'[e] = forced[e]
      BY <1>6, <2>1 DEF IInv, TypeOK, Settled, AnnotateNew, Annotate
    <3> QED
      BY ZenonT(60), <2>1, <3>1, AnnotateJoins, Undisturbed
  <2>2. CASE e = c
    <3>1. value'[c] = 0 /\ forced'[c] = 0
      BY DEF AnnotateNew, IInv, TypeOK
    <3>2. Pending(c)' \in SUBSET Threads
      BY AnnotateJoins, Facts
    <3>3. CASE t \in limited'
      <4>1. Pending(c)' \in SUBSET (Threads \ {t})
        BY <3>2, <3>3 DEF Pending
      <4> QED
        BY <2>2, <3>1, <4>1, Facts, StartsOver
    <3>4. CASE t \notin limited'
      <4>1. t \in Pending(c)'
        BY <3>4 DEF IInv, TypeOK, Pending, AnnotateNew
      <4>2. delta' = delta /\ delta[t] \in Nat /\ delta[t] <= MaxValue[c]
        BY <3>4, AnnotateJoins, Facts
      <4>3. /\ value'[c] \in Nat /\ forced'[c] \in Nat
            /\ value'[c] + delta[t] <= MaxValue[c] + forced'[c]
        BY <3>1, <4>2, Facts
      <4> QED
        BY <2>2, <3>2, <4>1, <4>2, <4>3, Joins
    <3> QED
      BY <3>3, <3>4
  <2> QED
    BY <2>1, <2>2
<1> QED
  BY <1>1, <1>2, <1>3, <1>4, <1>5, <1>6 DEF IInv, PendingBounded

\* `annotate` finds no cell for a simple counter.
LEMMA AnnotateMissingKeeps ==
  ASSUME IInv, NEW t \in Threads, NEW c \in Counters, AnnotateMissing(t, c)
  PROVE  IInv'
<1>1. TypeOK'
  BY CountersAssumption, DeltasAssumption DEF IInv, TypeOK, Counters, AnnotateMissing, Annotate, cells
<1>2. ReadersInside'
  BY DEF IInv, TypeOK, ReadersInside, Stages, AnnotateMissing, Annotate, cells
<1>3. Stages'
  BY DeltasAssumption DEF IInv, TypeOK, Stages, OneList, AnnotateMissing, Annotate, cells
<1>4. OneList'
  BY DEF IInv, TypeOK, OneList, Stages, AnnotateMissing, Annotate, cells
<1>5. FitsAlone'
  BY AnnotateJoins
<1>6. ASSUME NEW e \in Counters, Settled(e)'
      PROVE  Bound(e)'
  <2>1. Settled(e) /\ value'[e] = value[e] /\ forced'[e] = forced[e]
    BY <1>6 DEF IInv, TypeOK, Settled, OneList, Stages, AnnotateMissing, Annotate, cells
  <2>2. e # c
    BY <2>1 DEF Settled, AnnotateMissing
  <2> QED
    BY <2>1, <2>2, AnnotateJoins, Undisturbed
<1> QED
  BY <1>1, <1>2, <1>3, <1>4, <1>5, <1>6 DEF IInv, PendingBounded

\* The fetch_add of an admitted request.
LEMMA UpdateLiveKeeps ==
  ASSUME IInv, NEW t \in Threads, NEW c \in Counters, UpdateLive(t, c)
  PROVE  IInv'
<1>1. TypeOK'
  BY CountersAssumption, DeltasAssumption DEF IInv, TypeOK, Counters, UpdateLive, InTurn, Updated, Elapsed, cells
<1>2. ReadersInside'
  BY DEF IInv, TypeOK, ReadersInside, Stages, UpdateLive, InTurn, Updated, Elapsed, cells
<1>3. Stages'
  BY DeltasAssumption DEF IInv, TypeOK, Stages, OneList, UpdateLive, InTurn, Updated, Elapsed, cells
<1>4. OneList'
  BY DEF IInv, TypeOK, OneList, Stages, UpdateLive, InTurn, Updated, Elapsed, cells
<1>5. FitsAlone'
  BY DEF IInv, TypeOK, FitsAlone, Pending, Stages, OneList, UpdateLive, InTurn, Updated, Elapsed, cells
<1>6. ASSUME NEW e \in Counters, Settled(e)'
      PROVE  Bound(e)'
  <2>1. CASE e # c
    <3>1. Settled(e) /\ value'[e] = value[e] /\ forced'[e] = forced[e]
      BY <1>6, <2>1 DEF IInv, TypeOK, Settled, OneList, Stages, UpdateLive, InTurn, Updated
    <3>2. Pending(e)' \in SUBSET Pending(e) /\ \A u \in Pending(e)' : delta'[u] = delta[u]
      BY DEF IInv, TypeOK, Pending, OneList, Stages, UpdateLive, InTurn, Updated
    <3> QED
      BY <3>1, <3>2, Undisturbed
  <2>2. CASE e = c
    <3>1. t \in Pending(c) /\ Pending(c)' = Pending(c) \ {t}
      BY DEF IInv, TypeOK, Pending, OneList, Stages, UpdateLive, InTurn, Updated
    <3>2. Settled(c) /\ value'[c] = value[c] + delta[t] /\ forced'[c] = forced[c] /\ delta' = delta
      BY <1>6, <2>2 DEF IInv, TypeOK, Settled, OneList, Stages, UpdateLive, InTurn, Updated
    <3> QED
      BY ZenonT(60), <2>2, <3>1, <3>2, Adds
  <2> QED
    BY <2>1, <2>2
<1> QED
  BY <1>1, <1>2, <1>3, <1>4, <1>5, <1>6 DEF IInv, PendingBounded

\* An admitted request finds the window elapsed.
LEMMA UpdateElapsedKeeps ==
  ASSUME IInv, NEW t \in Threads, NEW c \in Counters, UpdateElapsed(t, c)
  PROVE  IInv'
<1>1. TypeOK'
  BY CountersAssumption, DeltasAssumption DEF IInv, TypeOK, Counters, UpdateElapsed, InTurn, Elapsed, cells
<1>2. ReadersInside'
  BY DEF IInv, TypeOK, ReadersInside, Stages, UpdateElapsed, InTurn, Elapsed, cells
<1>3. Stages'
  BY DeltasAssumption DEF IInv, TypeOK, Stages, OneList, UpdateElapsed, InTurn, Elapsed, cells
<1>4. OneList'
  BY DEF IInv, TypeOK, OneList, Stages, UpdateElapsed, InTurn, Elapsed, cells
<1>5. FitsAlone'
  BY DEF IInv, TypeOK, FitsAlone, Pending, Stages, OneList, UpdateElapsed, InTurn, Elapsed, cells
<1>6. ASSUME NEW e \in Counters, Settled(e)'
      PROVE  Bound(e)'
  <2>1. Settled(e) /\ value'[e] = value[e] /\ forced'[e] = forced[e]
    BY <1>6 DEF IInv, TypeOK, Settled, OneList, Stages, UpdateElapsed, InTurn, Elapsed, cells
  <2>2. Pending(e)' \in SUBSET Pending(e) /\ \A u \in Pending(e)' : delta'[u] = delta[u]
    BY DEF IInv, TypeOK, Pending, OneList, Stages, UpdateElapsed, InTurn, Elapsed, cells
  <2> QED
    BY <2>1, <2>2, Undisturbed
<1> QED
  BY <1>1, <1>2, <1>3, <1>4, <1>5, <1>6 DEF IInv, PendingBounded

\* The compare_exchange succeeds: the cell is not settled until the store.
LEMMA OpenWindowKeeps ==
  ASSUME IInv, NEW t \in Threads, NEW c \in Counters, OpenWindow(t, c)
  PROVE  IInv'
<1>1. TypeOK'
  BY CountersAssumption, DeltasAssumption DEF IInv, TypeOK, Counters, OpenWindow, cells
<1>2. ReadersInside'
  BY DEF IInv, TypeOK, ReadersInside, Stages, OpenWindow, cells
<1>3. Stages'
  BY DeltasAssumption DEF IInv, TypeOK, Stages, OneList, OpenWindow, cells
<1>4. OneList'
  BY DEF IInv, TypeOK, OneList, Stages, OpenWindow, cells
<1>5. FitsAlone'
  BY ZenonT(60) DEF IInv, TypeOK, FitsAlone, Pending, Stages, OneList, OpenWindow, cells
<1>6. ASSUME NEW e \in Counters, Settled(e)'
      PROVE  Bound(e)'
  <2>1. Settled(e) /\ value'[e] = value[e] /\ forced'[e] = forced[e]
    BY <1>6 DEF IInv, TypeOK, Settled, OneList, Stages, OpenWindow, cells
  <2>2. Pending(e)' \in SUBSET Pending(e) /\ \A u \in Pending(e)' : delta'[u] = delta[u]
    BY DEF IInv, TypeOK, Pending, OneList, Stages, OpenWindow, cells
  <2> QED
    BY <2>1, <2>2, Undisturbed
<1> QED
  BY <1>1, <1>2, <1>3, <1>4, <1>5, <1>6 DEF IInv, PendingBounded

\* The compare_exchange fails and the request adds to the new window.
LEMMA LoseExchangeKeeps ==
  ASSUME IInv, NEW t \in Threads, NEW c \in Counters, LoseExchange(t, c)
  PROVE  IInv'
<1>1. TypeOK'
  BY CountersAssumption, DeltasAssumption DEF IInv, TypeOK, Counters, LoseExchange, Updated, cells
<1>2. ReadersInside'
  BY DEF IInv, TypeOK, ReadersInside, Stages, LoseExchange, Updated, cells
<1>3. Stages'
  BY DeltasAssumption DEF IInv, TypeOK, Stages, OneList, LoseExchange, Updated, cells
<1>4. OneList'
  BY DEF IInv, TypeOK, OneList, Stages, LoseExchange, Updated, cells
<1>5. FitsAlone'
  BY DEF IInv, TypeOK, FitsAlone, Pending, Stages, OneList, LoseExchange, Updated, cells
<1>6. ASSUME NEW e \in Counters, Settled(e)'
      PROVE  Bound(e)'
  <2>1. CASE e # c
    <3>1. Settled(e) /\ value'[e] = value[e] /\ forced'[e] = forced[e]
      BY <1>6, <2>1 DEF IInv, TypeOK, Settled, OneList, Stages, LoseExchange, Updated
    <3>2. Pending(e)' \in SUBSET Pending(e) /\ \A u \in Pending(e)' : delta'[u] = delta[u]
      BY DEF IInv, TypeOK, Pending, OneList, Stages, LoseExchange, Updated
    <3> QED
      BY <3>1, <3>2, Undisturbed
  <2>2. CASE e = c
    <3>1. t \in Pending(c) /\ Pending(c)' = Pending(c) \ {t}
      BY ZenonT(60) DEF IInv, TypeOK, Pending, OneList, Stages, LoseExchange, Updated
    <3>2. Settled(c) /\ value'[c] = value[c] + delta[t] /\ forced'[c] = forced[c] /\ delta' = delta
      BY <1>6, <2>2 DEF IInv, TypeOK, Settled, OneList, Stages, LoseExchange, Updated
    <3>3. Bound(c)'
      BY ZenonT(60), <3>1, <3>2, Adds
    <3> QED
      BY ZenonT(60), <2>2, <3>3
  <2> QED
    BY <2>1, <2>2
<1> QED
  BY <1>1, <1>2, <1>3, <1>4, <1>5, <1>6 DEF IInv, PendingBounded

\* The new window starts with the request that opened it.
LEMMA StoreKeeps ==
  ASSUME IInv, NEW t \in Threads, NEW c \in Counters, Store(t, c)
  PROVE  IInv'
<1>1. TypeOK'
  BY CountersAssumption, DeltasAssumption DEF IInv, TypeOK, Counters, Store, Updated, cells
<1>2. ReadersInside'
  BY DEF IInv, TypeOK, ReadersInside, Stages, Store, Updated, cells
<1>3. Stages'
  BY DeltasAssumption DEF IInv, TypeOK, Stages, OneList, Store, Updated, cells
<1>4. OneList'
  BY DEF IInv, TypeOK, OneList, Stages, Store, Updated, cells
<1>5. FitsAlone'
  BY DEF IInv, TypeOK, FitsAlone, Pending, Stages, OneList, Store, Updated, cells
<1>6. ASSUME NEW e \in Counters, Settled(e)'
      PROVE  Bound(e)'
  <2>1. CASE e # c
    <3>1. Settled(e) /\ value'[e] = value[e] /\ forced'[e] = forced[e]
      BY <1>6, <2>1 DEF IInv, TypeOK, Settled, OneList, Stages, Store, Updated
    <3>2. Pending(e)' \in SUBSET Pending(e) /\ \A u \in Pending(e)' : delta'[u] = delta[u]
      BY DEF IInv, TypeOK, Pending, OneList, Stages, Store, Updated
    <3> QED
      BY <3>1, <3>2, Undisturbed
  <2>2. CASE e = c
    <3>1. t \in Pending(c) /\ Pending(c)' = Pending(c) \ {t}
      BY DEF IInv, TypeOK, Pending, OneList, Stages, Store, Updated
    <3>2. delta[t] \in 1..MaxDelta /\ delta[t] <= MaxValue[c]
      BY <3>1, DeltasAssumption DEF IInv, TypeOK, Stages, FitsAlone, Store, Updated
    <3>3. value'[c] = delta[t] /\ forced'[c] = 0
      BY DEF IInv, TypeOK, Store, Updated
    <3> QED
      BY <2>2, <3>1, <3>2, <3>3, Facts, StartsOver
  <2> QED
    BY <2>1, <2>2
<1> QED
  BY <1>1, <1>2, <1>3, <1>4, <1>5, <1>6 DEF IInv, PendingBounded

\* A missing counter is created under the write lock.
LEMMA UpdateMissingKeeps ==
  ASSUME IInv, NEW t \in Threads, NEW c \in Counters, UpdateMissing(t, c)
  PROVE  IInv'
<1>1. TypeOK'
  BY CountersAssumption, DeltasAssumption DEF IInv, TypeOK, Counters, UpdateMissing, AddLocked, WriteLock, cells
<1>2. ReadersInside'
  BY ZenonT(60) DEF IInv, TypeOK, ReadersInside, Stages, UpdateMissing, AddLocked, WriteLock, cells
<1>3. Stages'
  BY DeltasAssumption DEF IInv, TypeOK, Stages, OneList, UpdateMissing, AddLocked, WriteLock, cells
<1>4. OneList'
  BY DEF IInv, TypeOK, OneList, Stages, UpdateMissing, AddLocked, WriteLock, cells
<1>5. FitsAlone'
  BY DEF IInv, TypeOK, FitsAlone, Pending, Stages, OneList, UpdateMissing, AddLocked, WriteLock, cells
<1>6. ASSUME NEW e \in Counters, Settled(e)'
      PROVE  Bound(e)'
  <2>1. CASE e # c
    <3>1. Settled(e) /\ value'[e] = value[e] /\ forced'[e] = forced[e]
      BY <1>6, <2>1 DEF IInv, TypeOK, Settled, OneList, Stages, UpdateMissing, AddLocked, WriteLock
    <3>2. Pending(e)' \in SUBSET Pending(e) /\ \A u \in Pending(e)' : delta'[u] = delta[u]
      BY DEF IInv, TypeOK, Pending, OneList, Stages, UpdateMissing, AddLocked, WriteLock
    <3> QED
      BY <3>1, <3>2, Undisturbed
  <2>2. CASE e = c
    <3>1. t \in Pending(c) /\ Pending(c)' = Pending(c) \ {t}
      BY ZenonT(60) DEF IInv, TypeOK, Pending, OneList, Stages, UpdateMissing, AddLocked, WriteLock
    <3>2. delta[t] \in 1..MaxDelta /\ delta[t] <= MaxValue[c]
      BY <3>1, DeltasAssumption DEF IInv, TypeOK, Stages, FitsAlone, UpdateMissing, AddLocked, WriteLock
    <3>3. CASE c \notin present \/ Elapsed(c, now)
      <4>1. value'[c] = delta[t] /\ forced'[c] = 0
        BY <3>3 DEF IInv, TypeOK, UpdateMissing, AddLocked
      <4> QED
        BY <2>2, <3>1, <3>2, <4>1, Facts, StartsOver
    <3>4. CASE ~(c \notin present \/ Elapsed(c, now))
      <4>1. value'[c] = value[c] + delta[t] /\ forced'[c] = forced[c] /\ delta' = delta
        BY <3>4 DEF IInv, TypeOK, UpdateMissing, AddLocked
      <4>2. Settled(c)
        BY <3>4 DEF IInv, TypeOK, Settled, Elapsed, ReadersInside, UpdateMissing, AddLocked, WriteLock
      <4> QED
        BY ZenonT(60), <2>2, <3>1, <4>1, <4>2, Adds
    <3> QED
      BY <3>3, <3>4
  <2> QED
    BY <2>1, <2>2
<1> QED
  BY <1>1, <1>2, <1>3, <1>4, <1>5, <1>6 DEF IInv, PendingBounded

\* A reported hit counts as forced.
LEMMA UpdateCounterKeeps ==
  ASSUME IInv, NEW t \in Threads, NEW c \in Counters, UpdateCounter(t, c)
  PROVE  IInv'
<1>1. TypeOK'
  BY CountersAssumption, DeltasAssumption DEF IInv, TypeOK, Counters, UpdateCounter, AddLocked, WriteLock, cells
<1>2. ReadersInside'
  BY DEF IInv, TypeOK, ReadersInside, Stages, UpdateCounter, AddLocked, WriteLock, cells
<1>3. Stages'
  BY DeltasAssumption DEF IInv, TypeOK, Stages, OneList, UpdateCounter, AddLocked, WriteLock, cells
<1>4. OneList'
  BY DEF IInv, TypeOK, OneList, Stages, UpdateCounter, AddLocked, WriteLock, cells
<1>5. FitsAlone'
  BY ZenonT(60) DEF IInv, TypeOK, FitsAlone, Pending, Stages, OneList, UpdateCounter, AddLocked, WriteLock, cells
<1>6. ASSUME NEW e \in Counters, Settled(e)'
      PROVE  Bound(e)'
  <2>1. CASE e # c
    <3>1. Settled(e) /\ value'[e] = value[e] /\ forced'[e] = forced[e]
      BY <1>6, <2>1 DEF IInv, TypeOK, Settled, OneList, Stages, UpdateCounter, AddLocked
    <3>2. Pending(e)' \in SUBSET Pending(e) /\ \A u \in Pending(e)' : delta'[u] = delta[u]
      BY ZenonT(60) DEF Pending, UpdateCounter
    <3> QED
      BY <3>1, <3>2, Undisturbed
  <2>2. CASE e = c
    <3>1. t \notin Pending(c) /\ Pending(c)' = Pending(c)
      BY ZenonT(60) DEF IInv, Pending, Stages, UpdateCounter
    <3>2. delta[t] \in Nat
      BY DeltasAssumption DEF IInv, TypeOK
    <3>3. CASE c \notin present \/ Elapsed(c, now)
      <4>1. value'[c] = delta[t] /\ forced'[c] = delta[t]
        BY <3>2, <3>3 DEF IInv, TypeOK, UpdateCounter, AddLocked
      <4>2. Pending(c)' \in SUBSET (Threads \ {t})
        BY ZenonT(60), <3>1, Facts
      <4>3. MaxValue[c] \in Nat
        BY ZenonT(60), Facts
      <4>4. value'[c] \in Nat /\ forced'[c] \in Nat /\ value'[c] <= MaxValue[c] + forced'[c]
        BY <3>2, <4>1, <4>3
      <4>5. Bound(c)'
        BY ZenonT(60), <4>2, <4>4, StartsOver
      <4> QED
        BY ZenonT(60), <2>2, <4>5
    <3>4. CASE ~(c \notin present \/ Elapsed(c, now))
      <4>1. value'[c] = value[c] + delta[t] /\ forced'[c] = forced[c] + delta[t] /\ delta' = delta
        BY <3>4 DEF IInv, TypeOK, UpdateCounter, AddLocked
      <4>2. Settled(c)
        BY <3>4 DEF IInv, TypeOK, Settled, Elapsed, ReadersInside, UpdateCounter, AddLocked, WriteLock
      <4>3. Bound(c)'
        BY ZenonT(60), <3>1, <3>2, <4>1, <4>2, Reported
      <4> QED
        BY ZenonT(60), <2>2, <4>3
    <3> QED
      BY <3>3, <3>4
  <2> QED
    BY <2>1, <2>2
<1> QED
  BY <1>1, <1>2, <1>3, <1>4, <1>5, <1>6 DEF IInv, PendingBounded

\* A denied request stops being pending.
LEMMA DenyKeeps ==
  ASSUME IInv, NEW t \in Threads, Deny(t)
  PROVE  IInv'
<1>1. TypeOK'
  BY CountersAssumption, DeltasAssumption DEF IInv, TypeOK, Counters, Deny, cells
<1>2. ReadersInside'
  BY DEF IInv, TypeOK, ReadersInside, Stages, Deny, cells
<1>3. Stages'
  BY DeltasAssumption DEF IInv, TypeOK, Stages, OneList, Deny, cells
<1>4. OneList'
  BY DEF IInv, TypeOK, OneList, Stages, Deny, cells
<1>5. FitsAlone'
  BY DEF IInv, TypeOK, FitsAlone, Pending, Stages, OneList, Deny, cells
<1>6. ASSUME NEW e \in Counters, Settled(e)'
      PROVE  Bound(e)'
  <2>1. Settled(e) /\ value'[e] = value[e] /\ forced'[e] = forced[e]
    BY <1>6 DEF IInv, TypeOK, Settled, OneList, Stages, Deny, cells
  <2>2. Pending(e)' \in SUBSET Pending(e) /\ \A u \in Pending(e)' : delta'[u] = delta[u]
    BY DEF IInv, TypeOK, Pending, OneList, Stages, Deny, cells
  <2> QED
    BY ZenonT(60), <2>1, <2>2, Undisturbed
<1> QED
  BY <1>1, <1>2, <1>3, <1>4, <1>5, <1>6 DEF IInv, PendingBounded

\* Admission changes no counter.
LEMMA AdmitKeeps ==
  ASSUME IInv, NEW t \in Threads, Admit(t)
  PROVE  IInv'
<1>1. TypeOK'
  BY ZenonT(60), CountersAssumption, DeltasAssumption DEF IInv, TypeOK, Counters, Admit, cells
<1>2. ReadersInside'
  BY DEF IInv, TypeOK, ReadersInside, Stages, Admit, cells
<1>3. Stages'
  BY DeltasAssumption DEF IInv, TypeOK, Stages, OneList, Admit, cells
<1>4. OneList'
  BY DEF IInv, TypeOK, OneList, Stages, Admit, cells
<1>5. FitsAlone'
  BY ZenonT(60) DEF IInv, TypeOK, FitsAlone, Pending, Stages, OneList, Admit, cells
<1>6. ASSUME NEW e \in Counters, Settled(e)'
      PROVE  Bound(e)'
  <2>1. Settled(e) /\ value'[e] = value[e] /\ forced'[e] = forced[e]
    BY <1>6 DEF IInv, TypeOK, Settled, OneList, Stages, Admit, cells
  <2>2. Pending(e)' \in SUBSET Pending(e) /\ \A u \in Pending(e)' : delta'[u] = delta[u]
    BY ZenonT(60) DEF IInv, TypeOK, Pending, OneList, Stages, Admit, cells
  <2> QED
    BY <2>1, <2>2, Undisturbed
<1> QED
  BY <1>1, <1>2, <1>3, <1>4, <1>5, <1>6 DEF IInv, PendingBounded

\* The read lock is dropped.
LEMMA ReadUnlockKeeps ==
  ASSUME IInv, NEW t \in Threads, ReadUnlock(t)
  PROVE  IInv'
<1>1. TypeOK'
  BY ZenonT(60), CountersAssumption, DeltasAssumption DEF IInv, TypeOK, Counters, ReadUnlock, cells
<1>2. ReadersInside'
  BY DEF IInv, TypeOK, ReadersInside, Stages, ReadUnlock, cells
<1>3. Stages'
  BY DeltasAssumption DEF IInv, TypeOK, Stages, OneList, ReadUnlock, cells
<1>4. OneList'
  BY DEF IInv, TypeOK, OneList, Stages, ReadUnlock, cells
<1>5. FitsAlone'
  BY ZenonT(60) DEF IInv, TypeOK, FitsAlone, Pending, Stages, OneList, ReadUnlock, cells
<1>6. ASSUME NEW e \in Counters, Settled(e)'
      PROVE  Bound(e)'
  <2>1. Settled(e) /\ value'[e] = value[e] /\ forced'[e] = forced[e]
    BY <1>6 DEF IInv, TypeOK, Settled, OneList, Stages, ReadUnlock, cells
  <2>2. Pending(e)' \in SUBSET Pending(e) /\ \A u \in Pending(e)' : delta'[u] = delta[u]
    BY ZenonT(60) DEF IInv, TypeOK, Pending, OneList, Stages, ReadUnlock, cells
  <2> QED
    BY <2>1, <2>2, Undisturbed
<1> QED
  BY <1>1, <1>2, <1>3, <1>4, <1>5, <1>6 DEF IInv, PendingBounded

\* A request starts with nothing pending.
LEMMA CheckAndUpdateKeeps ==
  ASSUME IInv, NEW t \in Threads, NEW cs \in Requests, NEW d \in Deltas, CheckAndUpdate(t, cs, d)
  PROVE  IInv'
<1>1. TypeOK'
  BY CountersAssumption, DeltasAssumption DEF IInv, TypeOK, Counters, CheckAndUpdate, Begin, cells
<1>2. ReadersInside'
  BY ZenonT(60) DEF IInv, TypeOK, ReadersInside, Stages, CheckAndUpdate, Begin, cells
<1>3. Stages'
  BY DeltasAssumption DEF IInv, TypeOK, Stages, OneList, CheckAndUpdate, Begin, cells
<1>4. OneList'
  BY DEF IInv, TypeOK, OneList, Stages, CheckAndUpdate, Begin, cells
<1>5. FitsAlone'
  BY DEF IInv, TypeOK, FitsAlone, Pending, Stages, OneList, CheckAndUpdate, Begin, cells
<1>6. ASSUME NEW e \in Counters, Settled(e)'
      PROVE  Bound(e)'
  <2>1. Settled(e) /\ value'[e] = value[e] /\ forced'[e] = forced[e]
    BY <1>6 DEF IInv, TypeOK, Settled, OneList, Stages, CheckAndUpdate, Begin, cells
  <2>2. Pending(e)' \in SUBSET Pending(e) /\ \A u \in Pending(e)' : delta'[u] = delta[u]
    BY DEF IInv, TypeOK, Pending, OneList, Stages, CheckAndUpdate, Begin, cells
  <2> QED
    BY Zenon, <2>1, <2>2, Undisturbed
<1> QED
  BY <1>1, <1>2, <1>3, <1>4, <1>5, <1>6 DEF IInv, PendingBounded

\* A report starts.
LEMMA UpdateCountersKeeps ==
  ASSUME IInv, NEW t \in Threads, NEW cs \in Requests, NEW d \in Deltas, UpdateCounters(t, cs, d)
  PROVE  IInv'
<1>1. TypeOK'
  BY CountersAssumption, DeltasAssumption DEF IInv, TypeOK, Counters, UpdateCounters, Begin, cells
<1>2. ReadersInside'
  BY DEF IInv, TypeOK, ReadersInside, Stages, UpdateCounters, Begin, cells
<1>3. Stages'
  BY DeltasAssumption DEF IInv, TypeOK, Stages, OneList, UpdateCounters, Begin, cells
<1>4. OneList'
  BY DEF IInv, TypeOK, OneList, Stages, UpdateCounters, Begin, cells
<1>5. FitsAlone'
  BY DEF IInv, TypeOK, FitsAlone, Pending, Stages, OneList, UpdateCounters, Begin, cells
<1>6. ASSUME NEW e \in Counters, Settled(e)'
      PROVE  Bound(e)'
  <2>1. Settled(e) /\ value'[e] = value[e] /\ forced'[e] = forced[e]
    BY <1>6 DEF IInv, TypeOK, Settled, OneList, Stages, UpdateCounters, Begin, cells
  <2>2. Pending(e)' \in SUBSET Pending(e) /\ \A u \in Pending(e)' : delta'[u] = delta[u]
    BY DEF IInv, TypeOK, Pending, OneList, Stages, UpdateCounters, Begin, cells
  <2> QED
    BY ZenonT(60), <2>1, <2>2, Undisturbed
<1> QED
  BY <1>1, <1>2, <1>3, <1>4, <1>5, <1>6 DEF IInv, PendingBounded

\* A new counter's window has elapsed already.
LEMMA AddCounterKeeps ==
  ASSUME IInv, NEW c \in Counters, AddCounter(c)
  PROVE  IInv'
<1>1. TypeOK'
  BY ZenonT(60), CountersAssumption, DeltasAssumption DEF IInv, TypeOK, Counters, AddCounter, WriteLock, cells
<1>2. ReadersInside'
  BY ZenonT(60) DEF IInv, TypeOK, ReadersInside, Stages, AddCounter, WriteLock, cells
<1>3. Stages'
  BY ZenonT(60), DeltasAssumption DEF IInv, TypeOK, Stages, OneList, AddCounter, WriteLock, cells
<1>4. OneList'
  BY DEF IInv, TypeOK, OneList, Stages, AddCounter, WriteLock, cells
<1>5. FitsAlone'
  BY ZenonT(60) DEF IInv, TypeOK, FitsAlone, Pending, Stages, OneList, AddCounter, WriteLock, cells
<1>6. ASSUME NEW e \in Counters, Settled(e)'
      PROVE  Bound(e)'
  <2>1. Settled(e) /\ value'[e] = value[e] /\ forced'[e] = forced[e]
    BY <1>6 DEF IInv, TypeOK, Settled, OneList, Stages, AddCounter, WriteLock, cells
  <2>2. Pending(e)' \in SUBSET Pending(e) /\ \A u \in Pending(e)' : delta'[u] = delta[u]
    BY ZenonT(60) DEF IInv, TypeOK, Pending, OneList, Stages, AddCounter, WriteLock, cells
  <2> QED
    BY ZenonT(60), <2>1, <2>2, Undisturbed
<1> QED
  BY <1>1, <1>2, <1>3, <1>4, <1>5, <1>6 DEF IInv, PendingBounded

\* Deleted and evicted counters have no window to bound.
LEMMA ForgetKeeps ==
  ASSUME IInv, NEW cs \in SUBSET Counters, Forget(cs)
  PROVE  IInv'
<1>1. TypeOK'
  BY ZenonT(60), CountersAssumption, DeltasAssumption DEF IInv, TypeOK, Counters, Forget, cells
<1>2. ReadersInside'
  BY ZenonT(60) DEF IInv, TypeOK, ReadersInside, Stages, Forget, cells
<1>3. Stages'
  BY DeltasAssumption DEF IInv, TypeOK, Stages, OneList, Forget, cells
<1>4. OneList'
  BY DEF IInv, TypeOK, OneList, Stages, Forget, cells
<1>5. FitsAlone'
  BY ZenonT(60) DEF IInv, TypeOK, FitsAlone, Pending, Stages, OneList, Forget, cells
<1>6. ASSUME NEW e \in Counters, Settled(e)'
      PROVE  Bound(e)'
  <2>1. Settled(e) /\ value'[e] = value[e] /\ forced'[e] = forced[e]
    BY <1>6 DEF IInv, TypeOK, Settled, OneList, Stages, Forget, cells
  <2>2. Pending(e)' \in SUBSET Pending(e) /\ \A u \in Pending(e)' : delta'[u] = delta[u]
    BY ZenonT(60) DEF IInv, TypeOK, Pending, OneList, Stages, Forget, cells
  <2> QED
    BY ZenonT(60), <2>1, <2>2, Undisturbed
<1> QED
  BY <1>1, <1>2, <1>3, <1>4, <1>5, <1>6 DEF IInv, PendingBounded

\* Time only closes windows.
LEMMA TickKeeps ==
  ASSUME IInv, Tick
  PROVE  IInv'
<1>1. TypeOK'
  BY CountersAssumption, DeltasAssumption DEF IInv, TypeOK, Counters, Tick, cells
<1>2. ReadersInside'
  BY ZenonT(60) DEF IInv, TypeOK, ReadersInside, Stages, Tick, cells
<1>3. Stages'
  BY ZenonT(60), DeltasAssumption DEF IInv, TypeOK, Stages, OneList, Tick, cells
<1>4. OneList'
  BY DEF IInv, TypeOK, OneList, Stages, Tick, cells
<1>5. FitsAlone'
  BY ZenonT(60) DEF IInv, TypeOK, FitsAlone, Pending, Stages, OneList, Tick, cells
<1>6. ASSUME NEW e \in Counters, Settled(e)'
      PROVE  Bound(e)'
  <2>1. Settled(e) /\ value'[e] = value[e] /\ forced'[e] = forced[e]
    BY <1>6 DEF IInv, TypeOK, Settled, OneList, Stages, Tick, cells
  <2>2. Pending(e)' \in SUBSET Pending(e) /\ \A u \in Pending(e)' : delta'[u] = delta[u]
    BY ZenonT(60) DEF IInv, TypeOK, Pending, OneList, Stages, Tick, cells
  <2> QED
    BY ZenonT(60), <2>1, <2>2, Undisturbed
<1> QED
  BY <1>1, <1>2, <1>3, <1>4, <1>5, <1>6 DEF IInv, PendingBounded

\* Every step keeps the invariant.
LEMMA NextIInv == IInv /\ [Next]_vars => IInv'
<1> SUFFICES ASSUME IInv, [Next]_vars PROVE IInv'
  OBVIOUS
<1>1. ASSUME NEW t \in Threads, NEW cs \in Requests, NEW d \in Deltas,
             CheckAndUpdate(t, cs, d) \/ UpdateCounters(t, cs, d)
      PROVE  IInv'
  BY <1>1, CheckAndUpdateKeeps, UpdateCountersKeeps
<1>2. ASSUME NEW t \in Threads, Step(t)
      PROVE  IInv'
  BY <1>2, AnnotatePresentKeeps, AnnotateNewKeeps, AnnotateMissingKeeps,
     UpdateLiveKeeps, UpdateElapsedKeeps, OpenWindowKeeps, LoseExchangeKeeps,
     StoreKeeps, UpdateMissingKeeps, UpdateCounterKeeps, DenyKeeps, AdmitKeeps,
     ReadUnlockKeeps DEF Step
<1>3. ASSUME NEW c \in Counters, AddCounter(c) \/ DeleteSimple(c) \/ Evict(c)
      PROVE  IInv'
  <2>1. {c} \in SUBSET Counters
    OBVIOUS
  <2> QED
    BY <1>3, <2>1, AddCounterKeeps, ForgetKeeps DEF DeleteSimple, Evict
<1>4. CASE DeleteQualified \/ Clear
  <2>1. Qualified \in SUBSET Counters /\ Simple \in SUBSET Counters
    BY DEF Counters
  <2> QED
    BY <1>4, <2>1, ForgetKeeps DEF DeleteQualified, Clear
<1>5. CASE Tick
  BY <1>5, TickKeeps
<1>6. CASE UNCHANGED vars
  <2>1. TypeOK' /\ ReadersInside' /\ Stages' /\ OneList'
    BY <1>6 DEF IInv, TypeOK, ReadersInside, Stages, OneList, vars
  <2>2. FitsAlone' /\ PendingBounded'
    BY ZenonT(60), <1>6 DEF IInv, FitsAlone, PendingBounded, Bound, Room, Pending, Settled, vars
  <2> QED
    BY <2>1, <2>2 DEF IInv
<1> QED
  BY <1>1, <1>2, <1>3, <1>4, <1>5, <1>6 DEF Next, Quiesce

\* The invariant holds in every state of the storage.
THEOREM Invariance == Spec => []IInv
<1> QED
  BY InitIInv, NextIInv, PTL DEF Spec

\* The state stays well typed.
THEOREM TypeCorrect == Spec => []TypeOK
<1>1. IInv => TypeOK
  BY DEF IInv
<1> QED
  BY Invariance, <1>1, PTL

(***************************************************************************)
(* However many threads serve requests, and whatever is deleted, evicted   *)
(* or reported meanwhile, the requests `check_and_update` admits take a    *)
(* running window over its limit by at most MaxDelta for each thread but   *)
(* one.                                                                    *)
(***************************************************************************)
THEOREM OvershootIsBounded == Spec => []BoundedOvershoot
<1>1. IInv => BoundedOvershoot
  <2> SUFFICES ASSUME IInv, NEW c \in Counters, Settled(c)
               PROVE  value[c] <= Room(c)
    BY DEF BoundedOvershoot, Room
  <2>1. value[c] \in Nat /\ Room(c) \in Int /\ Weight(Pending(c)) \in Nat
    <3>1. /\ value[c] \in Nat /\ Weight(Pending(c)) \in Nat
          /\ MaxValue[c] \in Nat /\ Weight(Threads) \in Nat /\ MaxDelta \in Nat
          /\ forced[c] \in Nat
          /\ Room(c) = MaxValue[c] + Weight(Threads) - MaxDelta + forced[c]
      BY ZenonT(60), Facts
    <3> QED
      BY <3>1
  <2>2. Bound(c)
    BY ZenonT(60), Facts
  <2>3. CASE value[c] + Weight(Pending(c)) <= Room(c)
    BY <2>1, <2>3
  <2>4. ASSUME NEW t \in Pending(c),
               value[c] + delta[t] + Weight(Pending(c) \ {t}) <= Room(c)
        PROVE  value[c] <= Room(c)
    <3>1. delta[t] \in Nat /\ Pending(c) \ {t} \in SUBSET Threads
      BY ZenonT(60), Facts
    <3>2. Weight(Pending(c) \ {t}) \in Nat
      BY <3>1, Weights
    <3> QED
      BY <2>1, <2>4, <3>1, <3>2
  <2> QED
    BY Zenon, <2>2, <2>3, <2>4 DEF Bound, Weight
<1> QED
  BY Invariance, <1>1, PTL

(***************************************************************************)
(* The guarantee the crate documents holds when one thread serves the      *)
(* requests: no running window is ever over its limit.                     *)
(***************************************************************************)
THEOREM OneThreadNeverOverLimit ==
  ASSUME Cardinality(Threads) = 1
  PROVE  Spec => []NeverOverLimit
<1>1. Overshoot = 0
  BY DeltasAssumption DEF Overshoot
<1>2. IInv /\ BoundedOvershoot => NeverOverLimit
  <2> SUFFICES ASSUME IInv, BoundedOvershoot, NEW c \in Counters, Settled(c)
               PROVE  value[c] <= MaxValue[c] + forced[c]
    BY ZenonT(60) DEF NeverOverLimit
  <2> QED
    BY <1>1, Facts DEF BoundedOvershoot
<1> QED
  BY Invariance, OvershootIsBounded, <1>2, PTL
=============================================================================
