-------------------------- MODULE ReservationsProofs --------------------------
(***************************************************************************)
(* Proofs about reservations, for any number of clients and counters: a    *)
(* hold never outlives the window of its counter, and, while no addition   *)
(* wraps around, what is used and held stays within the limit.             *)
(***************************************************************************)
EXTENDS Reservations, FiniteSetTheorems, TLAPS

\* A leaf that names no prover is given to the SMT solver, twice if it fails, and
\* then to Zenon.
USE SMTT(20), Z3T(20), ZenonT(20)

\* The smallest of some natural numbers is one of them.
LEMMA MinIsNat ==
  ASSUME NEW S \in SUBSET Nat, S # {}
  PROVE  Min(S) \in S /\ \A y \in S : Min(S) <= y
<1> DEFINE R == OpToRel(<, Nat)
<1>1. \E x \in S : \A y \in S : ~(<<y, x>> \in R)
  BY Zenon, NatLessThanWellFounded, WFMin
<1>2. \A x, y \in Nat : x < y => <<x, y>> \in R
  BY Zenon DEF OpToRel
<1> HIDE DEF R
<1>3. PICK x \in S : \A y \in S : ~(<<y, x>> \in R)
  BY <1>1
<1>4. \A y \in S : ~(y < x)
  BY Zenon, <1>2, <1>3
<1>5. \A y \in S : x =< y
  BY <1>4
<1> QED
  BY Zenon, <1>5 DEF Min

\* No reservation has been made.
LEMMA InitIInv == Init => IInv
<1> SUFFICES ASSUME Init PROVE IInv
  OBVIOUS
<1>0. NoCall \in Calls
  BY AmountsAssumption DEF NoCall, Calls, Zero
<1>1. TypeOK
  BY <1>0 DEF Init, TypeOK, Zero
<1>2. TouchedWithinWindow /\ HoldsWithinWindow
  BY DEF Init, TouchedWithinWindow, HoldsWithinWindow
<1> QED
  BY <1>1, <1>2 DEF IInv

\* RateLimiter::reserve starts: nothing is touched yet.
LEMMA ReserveKeeps ==
  ASSUME IInv, NEW t \in Clients, NEW cs \in Requests, NEW a \in Amounts, NEW l \in Ttls,
         Reserve(t, cs, a, l)
  PROVE  IInv'
<1> DEFINE h == Min({a} \cup {Cap[c] : c \in cs})
           m == IF l <= MaxTtl THEN l ELSE MaxTtl
           k == [id |-> calls + 1, req |-> cs, amount |-> a, hold |-> h, ttl |-> m,
                 when |-> now, read |-> Zero, left |-> Zero]
<1>1. h \in Nat
  <2>1. {a} \cup {Cap[c] : c \in cs} \in SUBSET Nat
    BY CountersAssumption, AmountsAssumption
  <2> QED
    BY <2>1, MinIsNat
<1>2. call' = [call EXCEPT ![t] = k]
  BY DEF Reserve
<1>m. m \in Nat
  BY AmountsAssumption
<1> HIDE DEF h, m
<1>3. k \in Calls /\ k.req = cs /\ k.when = now
  BY <1>1, <1>m, CountersAssumption, AmountsAssumption DEF Calls, Zero, IInv, TypeOK
<1> HIDE DEF k
<1>4. TypeOK'
  BY <1>2, <1>3, CountersAssumption DEF Reserve, IInv, TypeOK, cells, registry
<1>5. TouchedWithinWindow'
  BY <1>2, <1>3 DEF Reserve, IInv, TypeOK, TouchedWithinWindow, cells
<1>6. HoldsWithinWindow'
  BY DEF Reserve, IInv, HoldsWithinWindow, cells, registry
<1> QED
  BY <1>4, <1>5, <1>6 DEF IInv

\* `touch` moves a window forward, and measures it against a later clock.
LEMMA TouchKeeps ==
  ASSUME IInv, NEW t \in Clients, NEW c \in Counters, Touch(t, c)
  PROVE  IInv'
<1> DEFINE w    == call[t].when
           ends == IF Elapsed(c, w) THEN w + Window[c] ELSE expiry[c]
           v    == IF Elapsed(c, w) THEN 0 ELSE value[c]
           l    == IF ends > now THEN ends - now ELSE 0
           k    == [call[t] EXCEPT !.read[c] = v, !.left[c] = l]
<1>1. /\ pc[t] = "touch" /\ c \in todo[t]
      /\ todo' = [todo EXCEPT ![t] = @ \ {c}]
      /\ value' = [value EXCEPT ![c] = v]
      /\ expiry' = [expiry EXCEPT ![c] = ends]
      /\ UNCHANGED <<now, registry, pc, calls, strayed>>
  BY DEF Touch
<1>2. call[t] \in Calls /\ w \in Nat /\ w <= now /\ now \in Nat
  BY <1>1 DEF IInv, TypeOK, TouchedWithinWindow, Calls
<1>3. Window[c] \in Nat \ {0} /\ expiry[c] \in Nat /\ value[c] \in Nat
  BY CountersAssumption DEF IInv, TypeOK
<1>4. v \in Nat /\ ends \in Nat /\ l \in Nat /\ ends >= expiry[c] /\ w + l <= ends
  BY <1>2, <1>3 DEF Elapsed
<1>5. call' = [call EXCEPT ![t] = k]
  BY ZenonT(60) DEF Touch, IInv, TypeOK
<1> HIDE DEF v, ends, l
<1>6. /\ k \in Calls /\ k.req = call[t].req /\ k.when = w
      /\ k.left = [call[t].left EXCEPT ![c] = l]
  BY Zenon, <1>2, <1>4 DEF Calls
<1> HIDE DEF k
<1>7. TypeOK'
  BY <1>1, <1>4, <1>5, <1>6 DEF IInv, TypeOK, registry
<1>8. \A e \in Counters : expiry'[e] \in Nat /\ expiry[e] \in Nat /\ expiry'[e] >= expiry[e]
  BY <1>1, <1>4 DEF IInv, TypeOK
<1>9. TouchedWithinWindow'
  <2> SUFFICES ASSUME NEW u \in Clients, pc'[u] = "touch"
               PROVE  /\ call'[u].when <= now'
                      /\ todo'[u] \subseteq call'[u].req
                      /\ \A e \in call'[u].req \ todo'[u] :
                           call'[u].when + call'[u].left[e] <= expiry'[e]
    BY DEF TouchedWithinWindow
  <2>1. pc[u] = "touch" /\ call[u] \in Calls
    BY <1>1 DEF IInv, TypeOK
  <2>2. CASE u # t
    <3>1. call'[u] = call[u] /\ todo'[u] = todo[u] /\ now' = now
      BY <1>1, <1>5, <2>2 DEF IInv, TypeOK
    <3>2. \A e \in call[u].req \ todo[u] :
            /\ e \in Counters /\ call[u].when \in Nat /\ call[u].left[e] \in Nat
            /\ call[u].when + call[u].left[e] <= expiry[e]
      BY <2>1 DEF IInv, TouchedWithinWindow, Calls
    <3> QED
      BY <1>8, <2>1, <3>1, <3>2 DEF IInv, TouchedWithinWindow
  <2>3. CASE u = t
    <3>1. call'[t] = k /\ todo'[t] = todo[t] \ {c} /\ now' = now /\ expiry'[c] = ends
      BY <1>1, <1>5 DEF IInv, TypeOK
    <3>2. \A e \in call[t].req \ todo[t] :
            /\ e \in Counters /\ call[t].left[e] \in Nat
            /\ w + call[t].left[e] <= expiry[e]
      BY <1>1, <1>2 DEF IInv, TouchedWithinWindow, Calls
    <3>3. todo[t] \subseteq call[t].req /\ call[t].left \in [Counters -> Nat]
      BY <1>1, <1>2 DEF IInv, TouchedWithinWindow, Calls
    <3>4. \A e \in call[t].req \ (todo[t] \ {c}) : w + k.left[e] <= expiry'[e]
      <4> SUFFICES ASSUME NEW e \in call[t].req \ (todo[t] \ {c})
                   PROVE  w + k.left[e] <= expiry'[e]
        OBVIOUS
      <4>1. CASE e = c
        BY <1>4, <1>6, <3>1, <3>3, <4>1
      <4>2. CASE e # c
        <5>1. k.left[e] = call[t].left[e]
          BY <1>6, <3>2, <3>3, <4>2
        <5> QED
          BY <1>2, <1>8, <3>2, <4>2, <5>1
      <4> QED
        BY <4>1, <4>2
    <3> QED
      BY Zenon, <1>2, <1>6, <2>3, <3>1, <3>3, <3>4
  <2> QED
    BY <2>2, <2>3
<1>10. HoldsWithinWindow'
  <2> SUFFICES ASSUME NEW e \in Counters, NEW h \in entries'[e]
               PROVE  h.expires <= expiry'[e]
    BY DEF HoldsWithinWindow
  <2>1. h \in entries[e] /\ h.expires \in Nat /\ h.expires <= expiry[e]
    BY <1>1 DEF registry, IInv, TypeOK, HoldsWithinWindow, Entries
  <2> QED
    BY <1>8, <2>1
<1> QED
  BY <1>7, <1>9, <1>10 DEF IInv

\* A denied or abandoned call leaves the cells and the registry alone.
LEMMA ReturnKeeps ==
  ASSUME IInv, NEW t \in Clients, Deny(t) \/ Abandon(t)
  PROVE  IInv'
<1>1. Return(t) /\ UNCHANGED <<now, cells, registry, todo, calls, strayed>>
  BY DEF Deny, Abandon, Decide
<1>2. NoCall \in Calls
  BY AmountsAssumption DEF NoCall, Calls, Zero
<1>3. TypeOK'
  BY <1>1, <1>2 DEF Return, IInv, TypeOK, cells, registry
<1>4. TouchedWithinWindow' /\ HoldsWithinWindow'
  BY <1>1 DEF Return, IInv, TypeOK, TouchedWithinWindow, HoldsWithinWindow, cells, registry
<1> QED
  BY <1>3, <1>4 DEF IInv

\* Admission writes entries that expire within the window each touch has seen.
LEMMA AdmitKeeps ==
  ASSUME IInv, NEW t \in Clients, Admit(t)
  PROVE  IInv'
<1>1. /\ pc[t] = "touch" /\ todo[t] = {}
      /\ pc' = [pc EXCEPT ![t] = "held"]
      /\ UNCHANGED <<now, cells, call, todo, calls, strayed>>
  BY DEF Admit, Decide
<1>2. call[t] \in Calls
  BY DEF IInv, TypeOK
<1>3. \A c \in call[t].req : /\ c \in Counters
                             /\ Entry(t, c) \in Entries
                             /\ Entry(t, c).expires <= expiry[c]
                             /\ call[t].left[c] \in Nat
  <2> SUFFICES ASSUME NEW c \in call[t].req
               PROVE  /\ c \in Counters
                      /\ Entry(t, c) \in Entries
                      /\ Entry(t, c).expires <= expiry[c]
                      /\ call[t].left[c] \in Nat
    OBVIOUS
  <2>1. /\ c \in Counters /\ call[t].left[c] \in Nat /\ call[t].when \in Nat
        /\ call[t].ttl \in Nat /\ call[t].id \in Nat /\ call[t].hold \in Nat
    BY <1>2 DEF Calls
  <2>2. call[t].when + call[t].left[c] <= expiry[c] /\ expiry[c] \in Nat
    BY <1>1, <2>1 DEF IInv, TypeOK, TouchedWithinWindow
  <2>3. ExpiresAt(t, c) \in Nat /\ ExpiresAt(t, c) <= expiry[c]
    BY <2>1, <2>2 DEF ExpiresAt
  <2> QED
    BY <2>1, <2>3 DEF Entry, Entries
<1>4. \A c \in Counters : /\ entries'[c] \subseteq entries[c] \cup {Entry(t, c)}
                          /\ c \notin call[t].req => entries'[c] = entries[c]
                          /\ evictAt'[c] = IF c \in call[t].req THEN now + call[t].left[c]
                                                                ELSE evictAt[c]
  BY DEF Admit, LiveAt, Cached
<1>5. entries' \in [Counters -> SUBSET Entries]
  <2>1. \A c \in Counters : entries'[c] \in SUBSET Entries
    BY <1>3, <1>4 DEF IInv, TypeOK
  <2>2. DOMAIN entries' = Counters /\ entries' = [c \in Counters |-> entries'[c]]
    BY DEF Admit
  <2> QED
    BY <2>1, <2>2
<1>6. evictAt' \in [Counters -> Nat]
  BY <1>3 DEF Admit, IInv, TypeOK
<1>7. TypeOK'
  BY <1>1, <1>5, <1>6 DEF IInv, TypeOK, cells
<1>8. TouchedWithinWindow'
  BY <1>1 DEF IInv, TypeOK, TouchedWithinWindow, cells
<1>9. HoldsWithinWindow'
  <2> SUFFICES ASSUME NEW c \in Counters, NEW e \in entries'[c]
               PROVE  e.expires <= expiry[c]
    BY <1>1 DEF HoldsWithinWindow, cells
  <2> QED
    BY <1>3, <1>4 DEF IInv, HoldsWithinWindow
<1> QED
  BY <1>7, <1>8, <1>9 DEF IInv

\* An admission that holds nothing changes no entry.
LEMMA AdmitUnheldKeeps ==
  ASSUME IInv, NEW t \in Clients, AdmitUnheld(t)
  PROVE  IInv'
<1>1. /\ pc' = [pc EXCEPT ![t] = "held"]
      /\ UNCHANGED <<now, cells, registry, todo, calls, strayed>>
      /\ call' = [call EXCEPT ![t].id = 0]
  BY DEF AdmitUnheld, Decide
<1>2. [call[t] EXCEPT !.id = 0] \in Calls
  BY ZenonT(60) DEF IInv, TypeOK, Calls
<1>3. TypeOK'
  BY <1>1, <1>2 DEF IInv, TypeOK, cells, registry
<1>4. TouchedWithinWindow' /\ HoldsWithinWindow'
  BY <1>1 DEF IInv, TypeOK, TouchedWithinWindow, HoldsWithinWindow, cells, registry
<1> QED
  BY <1>3, <1>4 DEF IInv

\* A commit starts.
LEMMA CommitKeeps ==
  ASSUME IInv, NEW t \in Clients, NEW a \in Amounts, Commit(t, a)
  PROVE  IInv'
<1>1. call[t] \in Calls /\ [call[t] EXCEPT !.amount = a] \in Calls
  BY ZenonT(60), AmountsAssumption DEF IInv, TypeOK, Calls
<1>2. call[t].req \in SUBSET Counters
  BY <1>1 DEF Calls
<1>3. TypeOK'
  BY <1>1, <1>2 DEF Commit, IInv, TypeOK, cells, registry
<1>4. TouchedWithinWindow' /\ HoldsWithinWindow'
  BY DEF Commit, IInv, TypeOK, TouchedWithinWindow, HoldsWithinWindow, cells, registry
<1> QED
  BY <1>3, <1>4 DEF IInv

\* The update of a commit only moves a window forward.
LEMMA UpdateCounterKeeps ==
  ASSUME IInv, NEW t \in Clients, NEW c \in Counters, UpdateCounter(t, c)
  PROVE  IInv'
<1>1. /\ pc[t] = "commit"
      /\ todo' = [todo EXCEPT ![t] = @ \ {c}]
      /\ UNCHANGED <<now, registry, pc, call, calls>>
      /\ strayed' = strayed \cup Stray(t, c)
  BY DEF UpdateCounter
<1>2. Window[c] \in Nat /\ call[t].amount \in Nat /\ now \in Nat
  BY CountersAssumption, AmountsAssumption DEF IInv, TypeOK, Calls
<1>3. value' \in [Counters -> Nat] /\ expiry' \in [Counters -> Nat]
  BY <1>2 DEF UpdateCounter, IInv, TypeOK
<1>4. \A e \in Counters : expiry[e] \in Nat /\ expiry'[e] \in Nat /\ expiry'[e] >= expiry[e]
  BY <1>2, <1>3 DEF UpdateCounter, IInv, TypeOK, Elapsed
<1>s. Stray(t, c) \subseteq {"commit", "overtaking", "dropped"}
  BY Zenon DEF Stray
<1>5. TypeOK'
  BY Zenon, <1>1, <1>3, <1>s DEF IInv, TypeOK, registry
<1>6. TouchedWithinWindow'
  <2> SUFFICES ASSUME NEW u \in Clients, pc[u] = "touch"
               PROVE  /\ call[u].when <= now
                      /\ todo'[u] \subseteq call[u].req
                      /\ \A e \in call[u].req \ todo'[u] :
                           call[u].when + call[u].left[e] <= expiry'[e]
    BY <1>1 DEF TouchedWithinWindow
  <2>1. todo'[u] = todo[u] /\ call[u] \in Calls
    BY <1>1 DEF IInv, TypeOK
  <2>2. \A e \in call[u].req \ todo[u] :
          /\ e \in Counters /\ call[u].when \in Nat /\ call[u].left[e] \in Nat
          /\ call[u].when + call[u].left[e] <= expiry[e]
    BY <2>1 DEF IInv, TouchedWithinWindow, Calls
  <2> QED
    BY <1>4, <2>1, <2>2 DEF IInv, TouchedWithinWindow
<1>7. HoldsWithinWindow'
  <2> SUFFICES ASSUME NEW e \in Counters, NEW h \in entries[e]
               PROVE  h.expires <= expiry'[e]
    BY <1>1 DEF HoldsWithinWindow, registry
  <2>1. h.expires \in Nat /\ h.expires <= expiry[e]
    BY DEF IInv, TypeOK, HoldsWithinWindow, Entries
  <2> QED
    BY <1>4, <2>1
<1> QED
  BY <1>5, <1>6, <1>7 DEF IInv

\* `release` only removes entries.
LEMMA ReleaseKeeps ==
  ASSUME IInv, NEW t \in Clients, Release(t)
  PROVE  IInv'
<1>1. Return(t) /\ UNCHANGED <<now, cells, evictAt, todo, calls, strayed>>
  BY DEF Release
<1>2. \A c \in Counters : entries'[c] \subseteq entries[c]
  BY DEF Release, Cached
<1>3. entries' \in [Counters -> SUBSET Entries]
  <2>1. \A c \in Counters : entries'[c] \in SUBSET Entries
    BY <1>2 DEF IInv, TypeOK
  <2>2. entries' = [c \in Counters |-> entries'[c]]
    BY DEF Release
  <2> QED
    BY <2>1, <2>2
<1>4. NoCall \in Calls
  BY AmountsAssumption DEF NoCall, Calls, Zero
<1>5. TypeOK'
  BY <1>1, <1>3, <1>4 DEF Return, IInv, TypeOK, cells
<1>6. TouchedWithinWindow'
  BY <1>1 DEF Return, IInv, TypeOK, TouchedWithinWindow, cells
<1>7. HoldsWithinWindow'
  BY <1>1, <1>2 DEF IInv, HoldsWithinWindow, cells
<1> QED
  BY <1>5, <1>6, <1>7 DEF IInv

\* Time passes.
LEMMA TickKeeps ==
  ASSUME IInv, Tick
  PROVE  IInv'
<1>1. TypeOK'
  BY DEF Tick, IInv, TypeOK, cells, registry
<1>2. \A t \in Clients : call[t].when \in Nat
  BY DEF IInv, TypeOK, Calls
<1>3. TouchedWithinWindow'
  BY <1>2 DEF Tick, IInv, TypeOK, TouchedWithinWindow, cells
<1>4. HoldsWithinWindow'
  BY DEF Tick, IInv, HoldsWithinWindow, cells, registry
<1> QED
  BY <1>1, <1>3, <1>4 DEF IInv

\* Every step keeps the invariant.
LEMMA NextIInv == IInv /\ [Next]_vars => IInv'
<1> SUFFICES ASSUME IInv, [Next]_vars PROVE IInv'
  OBVIOUS
<1>1. CASE UNCHANGED vars
  <2>1. TypeOK'
    BY <1>1 DEF IInv, TypeOK, vars
  <2>2. TouchedWithinWindow' /\ HoldsWithinWindow'
    BY <1>1 DEF IInv, TouchedWithinWindow, HoldsWithinWindow, vars
  <2> QED
    BY <2>1, <2>2 DEF IInv
<1> QED
  BY <1>1, ReserveKeeps, TouchKeeps, ReturnKeeps, AdmitKeeps, AdmitUnheldKeeps,
     CommitKeeps, UpdateCounterKeeps, ReleaseKeeps, TickKeeps DEF Next, Quiesce

\* The invariant holds in every state.
THEOREM Invariance == Spec => []IInv
<1> QED
  BY InitIInv, NextIInv, PTL DEF Spec

\* The state stays well typed.
THEOREM TypeCorrect == Spec => []TypeOK
<1>1. IInv => TypeOK
  BY DEF IInv
<1> QED
  BY Invariance, <1>1, PTL

(***************************************************************************)
(* No entry of the registry outlives the window of its counter, whatever   *)
(* clock its reservation started from and however many windows have rolled *)
(* over between its touch and its admission.                               *)
(***************************************************************************)
THEOREM HoldsEndWithTheirWindow == Spec => []HoldsWithinWindow
<1>1. IInv => HoldsWithinWindow
  BY DEF IInv
<1> QED
  BY Invariance, <1>1, PTL

(***************************************************************************)
(* Sums of holds.                                                          *)
(***************************************************************************)

\* A non-empty set of subsets of a finite set has a minimal member.
LEMMA MinimalSubset ==
  ASSUME NEW S, IsFiniteSet(S), NEW B, B \subseteq SUBSET S, B # {}
  PROVE  \E T \in B : \A U \in B : U \subseteq T => U = T
<1> DEFINE R == StrictSubsetOrdering(S)
<1>1. IsWellFoundedOn(R, SUBSET S)
  BY Zenon, FS_StrictSubsetOrderingWellFounded, FS_FiniteSubsetsOfFinite
<1>2. \A U, T \in SUBSET S : U \subseteq T /\ U # T => <<U, T>> \in R
  BY DEF StrictSubsetOrdering
<1> HIDE DEF R
<1>3. PICK T \in B : \A U \in B : ~(<<U, T>> \in R)
  BY Zenon, <1>1, WFMin
<1> QED
  BY Zenon, <1>2, <1>3

\* The units that the elements of S hold, to be counted instead of added up.
Units(S) == {u \in S \X Nat : u[2] < u[1].amount}
Weighed(S) == IsFiniteSet(S) /\ \A x \in S : x.amount \in Nat

\* Each element contributes its amount.
LEMMA UnitsOfElement ==
  ASSUME NEW S, NEW x \in S, x.amount \in Nat, IsFiniteSet(Units(S \ {x}))
  PROVE  /\ IsFiniteSet(Units(S))
         /\ Cardinality(Units(S)) = x.amount + Cardinality(Units(S \ {x}))
<1> DEFINE I == 0..(x.amount - 1)
           X == {x} \X I
<1>1. IsFiniteSet(I) /\ Cardinality(I) = x.amount
  <2>1. 0 \in Int /\ x.amount - 1 \in Int
    OBVIOUS
  <2>2. /\ IsFiniteSet(I)
        /\ Cardinality(I) = IF 0 > x.amount - 1 THEN 0 ELSE (x.amount - 1) - 0 + 1
    BY Zenon, <2>1, FS_Interval
  <2> QED
    BY <2>2
<1>2. IsFiniteSet(X) /\ Cardinality(X) = x.amount
  <2>1. IsFiniteSet({x}) /\ Cardinality({x}) = 1
    BY Zenon, FS_Singleton
  <2>2. IsFiniteSet(X) /\ Cardinality(X) = Cardinality({x}) * Cardinality(I)
    BY Zenon, <1>1, <2>1, FS_Product
  <2> QED
    BY <1>1, <2>1, <2>2
<1>3. Units(S) = Units(S \ {x}) \cup X /\ Units(S \ {x}) \cap X = {}
  BY DEF Units
<1> HIDE DEF X
<1>4. Cardinality(Units(S \ {x}) \cap X) = 0
  BY Zenon, <1>3, FS_EmptySet
<1>5. /\ IsFiniteSet(Units(S))
      /\ Cardinality(Units(S))
           = Cardinality(Units(S \ {x})) + Cardinality(X) - Cardinality(Units(S \ {x}) \cap X)
  BY Zenon, <1>2, <1>3, FS_Union
<1> QED
  BY <1>2, <1>4, <1>5, FS_CardinalityType

\* A finite set holds finitely many units.
LEMMA UnitsFinite ==
  ASSUME NEW S, Weighed(S)
  PROVE  IsFiniteSet(Units(S)) /\ Cardinality(Units(S)) \in Nat
<1> DEFINE B == {s \in SUBSET S : ~IsFiniteSet(Units(s))}
<1> SUFFICES ASSUME B # {} PROVE FALSE
  BY FS_CardinalityType
<1>0. B \subseteq SUBSET S
  OBVIOUS
<1>1. PICK s \in B : \A u \in B : u \subseteq s => u = s
  <2> HIDE DEF B
  <2> QED
    BY <1>0, MinimalSubset DEF Weighed
<1>2. s # {}
  <2>1. Units({}) = {}
    BY DEF Units
  <2> QED
    BY <2>1, FS_EmptySet
<1>3. PICK x \in s : x.amount \in Nat
  BY <1>2 DEF Weighed
<1>4. s \ {x} \in SUBSET S /\ s \ {x} # s /\ s \ {x} \subseteq s
  OBVIOUS
<1>5. IsFiniteSet(Units(s \ {x}))
  BY Zenon, <1>1, <1>4
<1> QED
  BY <1>3, <1>5, UnitsOfElement

\* `Total` folds over the subsets of S; counting units solves its recursion.
Any(s) == CHOOSE x \in s : TRUE
Sums(f, S) ==
  f = [s \in SUBSET S |-> IF s = {} THEN 0 ELSE Any(s).amount + f[s \ {Any(s)}]]

\* The number of units satisfies the recursion.
LEMMA UnitsSolve ==
  ASSUME NEW S, Weighed(S)
  PROVE  Sums([s \in SUBSET S |-> Cardinality(Units(s))], S)
<1> DEFINE h == [s \in SUBSET S |-> Cardinality(Units(s))]
<1>1. ASSUME NEW s \in SUBSET S
      PROVE  h[s] = IF s = {} THEN 0 ELSE Any(s).amount + h[s \ {Any(s)}]
  <2>1. CASE s = {}
    <3>1. Units(s) = {}
      BY <2>1 DEF Units
    <3> QED
      BY <2>1, <3>1, FS_EmptySet
  <2>2. CASE s # {}
    <3>1. Any(s) \in s /\ Any(s).amount \in Nat /\ s \ {Any(s)} \in SUBSET S
      BY <2>2 DEF Any, Weighed
    <3>2. Weighed(s \ {Any(s)})
      BY FS_Subset DEF Weighed
    <3>3. Cardinality(Units(s)) = Any(s).amount + Cardinality(Units(s \ {Any(s)}))
      BY Zenon, <3>1, <3>2, UnitsFinite, UnitsOfElement
    <3> QED
      BY Zenon, <2>2, <3>1, <3>3
  <2> QED
    BY Zenon, <2>1, <2>2
<1> QED
  BY Zenon, <1>1 DEF Sums

\* The recursion has one solution.
LEMMA SumsUnique ==
  ASSUME NEW S, IsFiniteSet(S), NEW f, Sums(f, S), NEW g, Sums(g, S)
  PROVE  f[S] = g[S]
<1> DEFINE B == {s \in SUBSET S : f[s] # g[s]}
<1> SUFFICES ASSUME B # {} PROVE FALSE
  OBVIOUS
<1>0. B \subseteq SUBSET S
  OBVIOUS
<1>1. PICK s \in B : \A u \in B : u \subseteq s => u = s
  <2> HIDE DEF B
  <2> QED
    BY <1>0, MinimalSubset
<1>2. /\ f[s] = IF s = {} THEN 0 ELSE Any(s).amount + f[s \ {Any(s)}]
      /\ g[s] = IF s = {} THEN 0 ELSE Any(s).amount + g[s \ {Any(s)}]
  BY Zenon DEF Sums
<1>3. s # {} => s \ {Any(s)} \in SUBSET S /\ s \ {Any(s)} # s /\ s \ {Any(s)} \subseteq s
  BY DEF Any
<1>4. s # {} => f[s \ {Any(s)}] = g[s \ {Any(s)}]
  BY Zenon, <1>1, <1>3
<1> QED
  BY Zenon, <1>2, <1>4

\* So a sum is the number of units held.
LEMMA TotalIsUnits ==
  ASSUME NEW S, Weighed(S)
  PROVE  Total(S) = Cardinality(Units(S))
<1> DEFINE f == CHOOSE f : Sums(f, S)
           h == [s \in SUBSET S |-> Cardinality(Units(s))]
<1>1. Total(S) = f[S]
  BY Zenon DEF Total, MapThenSumSet, MapThenFoldSet, Sums, Any
<1>2. Sums(h, S) /\ Sums(f, S)
  BY Zenon, UnitsSolve
<1>3. h[S] = Cardinality(Units(S))
  OBVIOUS
<1> HIDE DEF f, h
<1>4. f[S] = h[S]
  BY <1>2, SumsUnique DEF Weighed
<1> QED
  BY Zenon, <1>1, <1>3, <1>4

\* Any element can be taken out of a sum.
LEMMA TotalElement ==
  ASSUME NEW S, Weighed(S), NEW x \in S
  PROVE  Weighed(S \ {x}) /\ Total(S) = x.amount + Total(S \ {x})
<1>1. Weighed(S \ {x})
  BY FS_Subset DEF Weighed
<1> QED
  BY Zenon, <1>1, TotalIsUnits, UnitsFinite, UnitsOfElement DEF Weighed

\* Leaving elements out makes a sum no larger.
LEMMA TotalSubset ==
  ASSUME NEW S, Weighed(S), NEW T \in SUBSET S
  PROVE  /\ Weighed(T) /\ Total(T) \in Nat /\ Total(S) \in Nat
         /\ Total(T) <= Total(S)
<1>1. Weighed(T)
  BY FS_Subset DEF Weighed
<1>2. Units(T) \in SUBSET Units(S)
  BY DEF Units
<1>3. /\ IsFiniteSet(Units(S)) /\ Cardinality(Units(S)) \in Nat
      /\ IsFiniteSet(Units(T)) /\ Cardinality(Units(T)) \in Nat
  BY <1>1, UnitsFinite
<1>4. Cardinality(Units(T)) <= Cardinality(Units(S))
  BY Zenon, <1>2, <1>3, FS_Subset
<1> QED
  BY <1>1, <1>3, <1>4, TotalIsUnits

(***************************************************************************)
(* Whose each entry is.                                                    *)
(***************************************************************************)

\* The registry is empty and nobody has an id.
LEMMA InitBooked == Init => Booked
BY FS_EmptySet DEF Init, Booked, EntryIds, CallIds, OwnIds, OwnEntries, NoCall

\* A step that adds no entry, and hands out no id, keeps the books if calls
\* keep what their entries say of them or give up their id.
LEMMA BookedShrinks ==
  ASSUME IInv, Booked, TypeOK', calls' = calls,
         \A c \in Counters : entries'[c] \subseteq entries[c],
         \A u \in Clients :
           /\ call'[u].id \in {0, call[u].id}
           /\ call'[u].id # 0 => /\ call'[u].req = call[u].req
                                 /\ pc'[u] = "touch" => pc[u] = "touch"
                                 /\ pc[u] # "touch" =>
                                      \A c \in Counters : Entry(u, c)' = Entry(u, c)
           /\ pc'[u] = "idle" => call'[u].id = 0
           /\ pc'[u] = "touch" => call'[u].id # 0 /\ call'[u].hold <= call'[u].amount
           /\ pc'[u] = "commit" => todo'[u] \subseteq call'[u].req
  PROVE  Booked'
<1>1. \A c \in Counters : /\ IsFiniteSet(entries'[c])
                          /\ \A e \in entries'[c] : e.id \in 1..calls' /\ e.id # 0
                          /\ \A e, f \in entries'[c] : e.id = f.id => e = f
  BY FS_Subset DEF Booked, EntryIds, IInv, TypeOK
<1>2. \A u \in Clients : call[u].id \in Nat /\ call[u].id <= calls /\ calls \in Nat
  BY DEF Booked, CallIds, IInv, TypeOK, Calls
<1>3. \A u \in Clients : call'[u].id <= calls'
  BY <1>2
<1>4. \A t, u \in Clients : call'[t].id = call'[u].id => t = u \/ call'[t].id = 0
  BY ZenonT(60) DEF Booked, OwnIds
<1>5. ASSUME NEW t \in Clients, NEW c \in Counters, NEW e \in entries'[c],
             e.id = call'[t].id
      PROVE  pc'[t] # "touch" /\ c \in call'[t].req /\ e = Entry(t, c)'
  <2>1. e \in entries[c] /\ e.id # 0 /\ e.id = call[t].id
    BY Zenon, <1>1, <1>5
  <2>2. pc[t] # "touch" /\ c \in call[t].req /\ e = Entry(t, c)
    BY Zenon, <2>1 DEF Booked, OwnEntries
  <2> QED
    BY Zenon, <1>5, <2>1, <2>2
<1> QED
  BY ZenonT(60), <1>1, <1>3, <1>4, <1>5 DEF Booked, EntryIds, CallIds, OwnIds, OwnEntries

\* The same, for a step in which one call gives up its id.
LEMMA SameOrGone ==
  ASSUME IInv, Booked, TypeOK', calls' = calls, NEW t \in Clients,
         \A c \in Counters : entries'[c] \subseteq entries[c],
         \A u \in Clients : u # t => pc'[u] = pc[u] /\ call'[u] = call[u] /\ todo'[u] = todo[u],
         pc'[t] \in {"idle", "held"}, call'[t].id = 0
  PROVE  Booked'
<1>1. ASSUME NEW u \in Clients, call'[u].id # 0
      PROVE  \A c \in Counters : Entry(u, c)' = Entry(u, c)
  BY <1>1 DEF Entry, ExpiresAt
<1>2. ASSUME NEW u \in Clients
      PROVE  /\ call'[u].id \in {0, call[u].id}
             /\ call'[u].id # 0 => call'[u].req = call[u].req /\ pc'[u] = pc[u]
             /\ pc'[u] = "idle" => call'[u].id = 0
             /\ pc'[u] = "touch" => call'[u].id # 0 /\ call'[u].hold <= call'[u].amount
             /\ pc'[u] = "commit" => todo'[u] \subseteq call'[u].req
  <2>1. CASE u = t
    BY <2>1
  <2>2. CASE u # t
    BY <2>2 DEF Booked, CallIds
  <2> QED
    BY <2>1, <2>2
<1> QED
  BY Zenon, <1>1, <1>2, BookedShrinks

\* `reserve` mints an id that no entry and no other call has.
LEMMA ReserveBooks ==
  ASSUME IInv, Booked, NEW t \in Clients, NEW cs \in Requests, NEW a \in Amounts,
         NEW l \in Ttls, Reserve(t, cs, a, l)
  PROVE  Booked'
<1> DEFINE h == Min({a} \cup {Cap[c] : c \in cs})
<1>1. h <= a
  <2>1. {a} \cup {Cap[c] : c \in cs} \in SUBSET Nat
    BY CountersAssumption, AmountsAssumption
  <2> QED
    BY <2>1, MinIsNat
<1> HIDE DEF h
<1>2. /\ calls' = calls + 1 /\ calls \in Nat
      /\ entries' = entries
      /\ \A u \in Clients : u # t => pc'[u] = pc[u] /\ call'[u] = call[u] /\ todo'[u] = todo[u]
      /\ pc'[t] = "touch" /\ call'[t].id = calls + 1
      /\ call'[t].hold <= call'[t].amount
  BY ZenonT(60), <1>1 DEF Reserve, registry, IInv, TypeOK, h
<1>3. \A u \in Clients : call[u].id \in Nat /\ call[u].id <= calls
  BY DEF Booked, CallIds, IInv, TypeOK, Calls
<1>4. \A c \in Counters : /\ IsFiniteSet(entries'[c])
                          /\ \A e \in entries'[c] : e.id \in 1..calls' /\ e.id # calls + 1
                          /\ \A e, f \in entries'[c] : e.id = f.id => e = f
  BY <1>2 DEF Booked, EntryIds
<1>5. \A u \in Clients : /\ call'[u].id <= calls'
                         /\ pc'[u] = "idle" => call'[u].id = 0
                         /\ pc'[u] = "touch" => call'[u].id # 0 /\ call'[u].hold <= call'[u].amount
                         /\ pc'[u] = "commit" => todo'[u] \subseteq call'[u].req
  <2> SUFFICES ASSUME NEW u \in Clients
               PROVE  /\ call'[u].id <= calls'
                      /\ pc'[u] = "idle" => call'[u].id = 0
                      /\ pc'[u] = "touch" => call'[u].id # 0 /\ call'[u].hold <= call'[u].amount
                      /\ pc'[u] = "commit" => todo'[u] \subseteq call'[u].req
    BY Zenon
  <2>1. CASE u = t
    BY <1>2, <2>1
  <2>2. CASE u # t
    BY <1>2, <1>3, <2>2 DEF Booked, CallIds
  <2> QED
    BY <2>1, <2>2
<1>6. \A u, v \in Clients : call'[u].id = call'[v].id => u = v \/ call'[u].id = 0
  BY <1>2, <1>3 DEF Booked, OwnIds
<1>7. ASSUME NEW u \in Clients, NEW c \in Counters, NEW e \in entries'[c],
             e.id = call'[u].id
      PROVE  pc'[u] # "touch" /\ c \in call'[u].req /\ e = Entry(u, c)'
  <2>1. u # t
    BY ZenonT(60), <1>2, <1>4, <1>7
  <2>2. call'[u] = call[u] /\ pc'[u] = pc[u] /\ e \in entries[c]
    BY <1>2, <2>1
  <2>3. Entry(u, c)' = Entry(u, c)
    BY ZenonT(60), <2>2 DEF Entry, ExpiresAt
  <2> QED
    BY Zenon, <1>7, <2>2, <2>3 DEF Booked, OwnEntries
<1> QED
  BY Zenon, <1>4, <1>5, <1>6, <1>7 DEF Booked, EntryIds, CallIds, OwnIds, OwnEntries

\* A touch changes neither the id nor the hold of the call.
LEMMA TouchBooks ==
  ASSUME IInv, Booked, TypeOK', NEW t \in Clients, NEW c \in Counters, Touch(t, c)
  PROVE  Booked'
<1>1. pc[t] = "touch" /\ call[t] \in Calls
  BY DEF Touch, IInv, TypeOK
<1>2. /\ calls' = calls /\ entries' = entries /\ pc' = pc
      /\ \A u \in Clients : u # t => call'[u] = call[u] /\ todo'[u] = todo[u]
      /\ call'[t].id = call[t].id /\ call'[t].req = call[t].req
      /\ call'[t].hold = call[t].hold /\ call'[t].amount = call[t].amount
  BY ZenonT(60), <1>1 DEF Touch, registry, IInv, TypeOK, Calls
<1>3. ASSUME NEW u \in Clients, pc[u] # "touch"
      PROVE  \A d \in Counters : Entry(u, d)' = Entry(u, d)
  BY ZenonT(60), <1>1, <1>2, <1>3 DEF Entry, ExpiresAt
<1>4. ASSUME NEW u \in Clients
      PROVE  /\ call'[u].id \in {0, call[u].id}
             /\ call'[u].req = call[u].req
             /\ pc'[u] = "idle" => call'[u].id = 0
             /\ pc'[u] = "touch" => call'[u].id # 0 /\ call'[u].hold <= call'[u].amount
             /\ pc'[u] = "commit" => todo'[u] \subseteq call'[u].req
  <2>1. CASE u = t
    BY ZenonT(60), <1>1, <1>2, <2>1 DEF Booked, CallIds
  <2>2. CASE u # t
    BY ZenonT(60), <1>2, <2>2 DEF Booked, CallIds
  <2> QED
    BY ZenonT(60), <2>1, <2>2
<1> QED
  BY Zenon, <1>2, <1>3, <1>4, BookedShrinks

\* A denied or abandoned call gives up its id.
LEMMA ReturnBooks ==
  ASSUME IInv, Booked, TypeOK', NEW t \in Clients, Deny(t) \/ Abandon(t)
  PROVE  Booked'
<1>1. /\ calls' = calls /\ entries' = entries
      /\ \A u \in Clients : u # t => pc'[u] = pc[u] /\ call'[u] = call[u] /\ todo'[u] = todo[u]
      /\ pc'[t] = "idle" /\ call'[t].id = 0
  BY DEF Deny, Abandon, Decide, Return, NoCall, registry, IInv, TypeOK
<1> QED
  BY ZenonT(60), <1>1, SameOrGone

\* So does one that is admitted with nothing to hold.
LEMMA AdmitUnheldBooks ==
  ASSUME IInv, Booked, TypeOK', NEW t \in Clients, AdmitUnheld(t)
  PROVE  Booked'
<1>1. /\ calls' = calls /\ entries' = entries
      /\ \A u \in Clients : u # t => pc'[u] = pc[u] /\ call'[u] = call[u] /\ todo'[u] = todo[u]
      /\ pc'[t] = "held" /\ call'[t].id = 0
  BY DEF AdmitUnheld, Decide, registry, IInv, TypeOK, Calls
<1> QED
  BY <1>1, SameOrGone

\* And one that is released, with its entries.
LEMMA ReleaseBooks ==
  ASSUME IInv, Booked, TypeOK', NEW t \in Clients, Release(t)
  PROVE  Booked'
<1>1. /\ calls' = calls
      /\ \A u \in Clients : u # t => pc'[u] = pc[u] /\ call'[u] = call[u] /\ todo'[u] = todo[u]
      /\ pc'[t] = "idle" /\ call'[t].id = 0
  BY DEF Release, Return, NoCall, IInv, TypeOK
<1>2. \A c \in Counters : entries'[c] \subseteq entries[c]
  BY DEF Release, Cached
<1> QED
  BY <1>1, <1>2, SameOrGone

\* A commit keeps what its entries say of it.
LEMMA CommitBooks ==
  ASSUME IInv, Booked, TypeOK', NEW t \in Clients, NEW a \in Amounts, Commit(t, a)
  PROVE  Booked'
<1>0. call[t] \in Calls
  BY DEF IInv, TypeOK
<1>1. /\ calls' = calls /\ entries' = entries /\ pc[t] = "held" /\ pc'[t] = "commit"
      /\ \A u \in Clients : u # t => pc'[u] = pc[u] /\ call'[u] = call[u] /\ todo'[u] = todo[u]
      /\ todo'[t] = call[t].req
  BY DEF Commit, registry, IInv, TypeOK
<1>2. /\ call'[t].id = call[t].id /\ call'[t].req = call[t].req
      /\ call'[t].hold = call[t].hold /\ call'[t].ttl = call[t].ttl
      /\ call'[t].when = call[t].when /\ call'[t].left = call[t].left
  BY <1>0 DEF Commit, IInv, TypeOK, Calls
<1>3. ASSUME NEW u \in Clients
      PROVE  \A c \in Counters : Entry(u, c)' = Entry(u, c)
  BY ZenonT(60), <1>1, <1>2 DEF Entry, ExpiresAt
<1>4. ASSUME NEW u \in Clients
      PROVE  /\ call'[u].id = call[u].id /\ call'[u].req = call[u].req
             /\ pc'[u] = "touch" => pc[u] = "touch"
             /\ pc'[u] = "idle" => call'[u].id = 0
             /\ pc'[u] = "touch" => call'[u].id # 0 /\ call'[u].hold <= call'[u].amount
             /\ pc'[u] = "commit" => todo'[u] \subseteq call'[u].req
  <2>1. CASE u = t
    BY ZenonT(60), <1>1, <1>2, <2>1
  <2>2. CASE u # t
    BY <1>1, <2>2 DEF Booked, CallIds
  <2> QED
    BY ZenonT(60), <2>1, <2>2
<1> QED
  BY Zenon, <1>1, <1>3, <1>4, BookedShrinks

\* A step that changes no call and no entry keeps the books.
LEMMA QuietBooks ==
  ASSUME IInv, Booked, UNCHANGED <<entries, calls, call, pc>>,
         \A t \in Clients : pc[t] = "commit" => todo'[t] \subseteq todo[t]
  PROVE  Booked'
<1>1. EntryIds' /\ CallIds' /\ OwnIds'
  BY DEF Booked, EntryIds, CallIds, OwnIds
<1>2. OwnEntries'
  BY DEF Booked, OwnEntries, Entry, ExpiresAt
<1> QED
  BY <1>1, <1>2 DEF Booked

\* An admission records entries under the call's own id.
LEMMA AdmitBooks ==
  ASSUME IInv, Booked, NEW t \in Clients, Admit(t)
  PROVE  Booked'
<1>1. /\ calls' = calls /\ call' = call /\ todo' = todo /\ pc[t] = "touch"
      /\ pc'[t] = "held" /\ \A u \in Clients : u # t => pc'[u] = pc[u]
  BY ZenonT(60) DEF Admit, Decide, IInv, TypeOK
<1>2. call[t].id \in 1..calls /\ call[t].id # 0
  BY <1>1 DEF Booked, CallIds, IInv, TypeOK, Calls
<1>3. \A u \in Clients, c \in Counters : Entry(u, c)' = Entry(u, c)
  BY <1>1 DEF Entry, ExpiresAt
<1>4. \A c \in Counters : /\ entries'[c] \subseteq entries[c] \cup {Entry(t, c)}
                          /\ c \notin call[t].req => entries'[c] = entries[c]
  BY DEF Admit, LiveAt, Cached
<1>5. \A c \in Counters : \A e \in entries[c] : e.id # call[t].id
  BY <1>1 DEF Booked, OwnEntries
<1>6. \A c \in Counters : Entry(t, c).id = call[t].id
  BY DEF Entry
<1>7. EntryIds'
  <2> SUFFICES ASSUME NEW c \in Counters
               PROVE  /\ IsFiniteSet(entries'[c])
                      /\ \A e \in entries'[c] : e.id \in 1..calls
                      /\ \A e, f \in entries'[c] : e.id = f.id => e = f
    BY <1>1 DEF EntryIds
  <2>1. IsFiniteSet(entries[c] \cup {Entry(t, c)})
    BY ZenonT(60), FS_AddElement DEF Booked, EntryIds
  <2>2. IsFiniteSet(entries'[c])
    BY <1>4, <2>1, FS_Subset
  <2>3. \A e \in entries'[c] : e.id \in 1..calls
    BY <1>2, <1>4, <1>6 DEF Booked, EntryIds
  <2>4. \A e, f \in entries'[c] : e.id = f.id => e = f
    BY ZenonT(60), <1>4, <1>5, <1>6 DEF Booked, EntryIds
  <2> QED
    BY <2>2, <2>3, <2>4
<1>8. CallIds' /\ OwnIds'
  BY <1>1 DEF Booked, CallIds, OwnIds
<1>9. OwnEntries'
  <2> SUFFICES ASSUME NEW u \in Clients, NEW c \in Counters, NEW e \in entries'[c],
                      e.id = call[u].id
               PROVE  pc'[u] # "touch" /\ c \in call[u].req /\ e = Entry(u, c)
    BY Zenon, <1>1, <1>3 DEF OwnEntries
  <2>1. CASE e \in entries[c]
    <3>1. u # t
      BY Zenon, <1>5, <2>1
    <3> QED
      BY Zenon, <1>1, <2>1, <3>1 DEF Booked, OwnEntries
  <2>2. CASE e \notin entries[c]
    <3>1. e = Entry(t, c) /\ c \in call[t].req /\ e.id = call[t].id
      BY Zenon, <1>4, <1>6, <2>2
    <3>2. u = t
      BY Zenon, <1>2, <3>1 DEF Booked, OwnIds
    <3> QED
      BY <1>1, <3>1, <3>2
  <2> QED
    BY <2>1, <2>2
<1> QED
  BY <1>7, <1>8, <1>9 DEF Booked

\* Every step keeps the books.
LEMMA NextBooked == IInv /\ Booked /\ [Next]_vars => Booked'
<1> SUFFICES ASSUME IInv, Booked, [Next]_vars PROVE Booked'
  OBVIOUS
<1>1. TypeOK'
  BY NextIInv DEF IInv
<1>2. CASE UNCHANGED vars
  BY <1>2, QuietBooks DEF vars
<1>3. CASE Tick
  BY <1>3, QuietBooks DEF Tick, registry
<1>4. ASSUME NEW t \in Clients, NEW c \in Counters, UpdateCounter(t, c)
      PROVE  Booked'
  BY <1>4, QuietBooks DEF UpdateCounter, registry, IInv, TypeOK
<1> QED
  BY <1>1, <1>2, <1>3, <1>4, ReserveBooks, TouchBooks, ReturnBooks, AdmitBooks, AdmitUnheldBooks,
     CommitBooks, ReleaseBooks DEF Next, Quiesce

(***************************************************************************)
(* The two limits.                                                         *)
(***************************************************************************)

\* Every set of entries has a sum.
LEMMA EntriesWeighed ==
  ASSUME IInv, Booked, NEW c \in Counters
  PROVE  /\ Weighed(entries[c])
         /\ Held(c) \subseteq entries[c] /\ Unapplied(c) \subseteq Held(c)
         /\ Weighed(Held(c)) /\ Total(Held(c)) \in Nat
         /\ Weighed(Unapplied(c)) /\ Total(Unapplied(c)) \in Nat
<1>1. Weighed(entries[c])
  BY DEF IInv, TypeOK, Booked, EntryIds, Weighed, Entries
<1>2. Held(c) \subseteq entries[c] /\ Unapplied(c) \subseteq Held(c)
  BY DEF Held, Unapplied, LiveAt, Cached
<1> QED
  BY <1>1, <1>2, TotalSubset

\* Sums of smaller numbers are smaller.
LEMMA SumBelow ==
  ASSUME NEW x \in Nat, NEW y \in Nat, NEW u \in Nat, NEW v \in Nat, NEW m \in Nat,
         x <= y, u <= v, y + v <= m
  PROVE  x + u <= m
  OBVIOUS

\* What is held is no more than what was compared with the limit.
LEMMA HoldBelow ==
  ASSUME NEW r \in Nat, NEW l \in Nat, NEW e \in Nat, NEW h \in Nat, NEW a \in Nat,
         NEW m \in Nat, e <= l + h, h <= a, r + l + a <= m
  PROVE  r + e <= m
  OBVIOUS

\* What an admission has compared with the limit.
LEMMA AdmitFits ==
  ASSUME IInv, Booked, NoWrap, NEW t \in Clients, Admit(t), NEW c \in call[t].req
  PROVE  LET es == LiveAt(Cached(c), call[t].when) \cup {Entry(t, c)}
         IN  /\ Weighed(es) /\ Total(es) \in Nat
             /\ call[t].read[c] \in Nat
             /\ call[t].read[c] + Total(es) <= MaxValue[c]
             /\ Held(c)' \subseteq es
<1> DEFINE ls == LiveAt(Cached(c), call[t].when)
           es == ls \cup {Entry(t, c)}
<1>1. pc[t] = "touch" /\ todo[t] = {} /\ Fits(t, c) /\ UNCHANGED <<now, call>>
  BY ZenonT(60) DEF Admit, Decide
<1>2. /\ c \in Counters /\ call[t].read[c] \in Nat /\ call[t].amount \in Nat
      /\ call[t].hold \in Nat /\ call[t].when \in Nat /\ call[t].when <= now /\ now \in Nat
      /\ call[t].hold <= call[t].amount /\ Word \in Nat \ {0} /\ MaxValue[c] \in Nat
  BY <1>1, CountersAssumption, AmountsAssumption
     DEF IInv, TypeOK, TouchedWithinWindow, Booked, CallIds, Calls
<1>3. Weighed(ls) /\ Total(ls) \in Nat
  <2>1. ls \subseteq entries[c]
    BY DEF LiveAt, Cached
  <2> QED
    BY ZenonT(60), <1>2, <2>1, EntriesWeighed, TotalSubset
<1>4. call[t].read[c] + Total(ls) + call[t].amount <= MaxValue[c]
  <2> DEFINE n == call[t].read[c] + Total(ls) + call[t].amount
  <2>1. n \in Nat /\ n < Word /\ n % Word <= MaxValue[c]
    BY <1>1, <1>2, <1>3 DEF NoWrap, Fits, Outstanding
  <2>2. n % Word = n
    <3> HIDE DEF n
    <3> QED
      BY <1>2, <2>1
  <2> QED
    BY ZenonT(60), <2>1, <2>2
<1>5. Entry(t, c).amount = call[t].hold
  BY DEF Entry
<1>6. Weighed(es)
  BY ZenonT(60), <1>2, <1>3, <1>5, FS_AddElement DEF Weighed
<1>7. Total(es) \in Nat /\ Total(es) <= Total(ls) + call[t].hold
  <2> DEFINE rest == es \ {Entry(t, c)}
  <2>1. Total(es) = call[t].hold + Total(rest) /\ Weighed(rest)
    BY ZenonT(60), <1>5, <1>6, TotalElement
  <2>2. rest \subseteq ls
    OBVIOUS
  <2>3. Total(rest) <= Total(ls) /\ Total(rest) \in Nat
    BY Zenon, <1>3, <2>2, TotalSubset
  <2> HIDE DEF rest, es, ls
  <2> QED
    BY <1>2, <1>3, <2>1, <2>3
<1>8. Held(c)' \subseteq es
  BY ZenonT(60), <1>1, <1>2 DEF Held, LiveAt, Cached, Admit
<1>9. call[t].read[c] + Total(es) <= MaxValue[c]
  <2> HIDE DEF es, ls
  <2> QED
    BY ZenonT(60), <1>2, <1>3, <1>4, <1>7, HoldBelow
<1> QED
  BY ZenonT(60), <1>2, <1>6, <1>7, <1>8, <1>9

\* No other step makes a hold count.
LEMMA HeldFades ==
  ASSUME IInv, [Next]_vars, NEW c \in Counters,
         \A t \in Clients : Admit(t) => c \notin call[t].req
  PROVE  Held(c)' \subseteq Held(c)
<1>1. CASE UNCHANGED <<entries, evictAt, now>>
  BY <1>1 DEF Held, LiveAt, Cached
<1>2. CASE Tick
  <2>1. \A e \in entries[c] : e.expires \in Nat
    BY DEF IInv, TypeOK, Entries
  <2> QED
    BY <1>2, <2>1 DEF Tick, registry, Held, LiveAt, Cached, IInv, TypeOK
<1>3. ASSUME NEW t \in Clients, Release(t) PROVE Held(c)' \subseteq Held(c)
  BY <1>3 DEF Release, Held, LiveAt, Cached
<1>4. ASSUME NEW t \in Clients, Admit(t) PROVE Held(c)' \subseteq Held(c)
  BY Zenon, <1>4 DEF Admit, Decide, Held, LiveAt, Cached, IInv, TypeOK
<1>5. ASSUME NEW t \in Clients, NEW d \in Counters, Touch(t, d) \/ UpdateCounter(t, d)
      PROVE  Held(c)' \subseteq Held(c)
  BY <1>1, <1>5 DEF Touch, UpdateCounter, registry
<1>6. ASSUME NEW t \in Clients, Deny(t) \/ AdmitUnheld(t) \/ Abandon(t)
      PROVE  Held(c)' \subseteq Held(c)
  BY <1>1, <1>6 DEF Deny, AdmitUnheld, Abandon, Decide, registry
<1>7. ASSUME NEW t \in Clients, NEW a \in Amounts,
             Commit(t, a) \/ \E cs \in Requests, l \in Ttls : Reserve(t, cs, a, l)
      PROVE  Held(c)' \subseteq Held(c)
  BY Zenon, <1>1, <1>7 DEF Commit, Reserve, registry
<1> QED
  BY Zenon, <1>1, <1>2, <1>3, <1>4, <1>5, <1>6, <1>7 DEF Next, Quiesce, vars

\* Holds stay within the limit as long as the sums they are compared with fit.
LEMMA NextHolds ==
  IInv /\ Booked /\ HoldsWithinLimit /\ NoWrap /\ [Next]_vars => HoldsWithinLimit'
<1> SUFFICES ASSUME IInv, Booked, HoldsWithinLimit, NoWrap, [Next]_vars, NEW c \in Counters
             PROVE  Total(Held(c)') <= MaxValue[c]
  BY DEF HoldsWithinLimit, Held
<1>0. MaxValue[c] \in Nat /\ Total(Held(c)) <= MaxValue[c]
  BY CountersAssumption DEF HoldsWithinLimit, Held
<1>1. CASE \A t \in Clients : Admit(t) => c \notin call[t].req
  <2>1. Held(c)' \subseteq Held(c)
    BY <1>1, HeldFades
  <2>2. Total(Held(c)') \in Nat /\ Total(Held(c)) \in Nat /\ Total(Held(c)') <= Total(Held(c))
    BY <2>1, EntriesWeighed, TotalSubset
  <2> QED
    BY <1>0, <2>2
<1>2. CASE \E t \in Clients : Admit(t) /\ c \in call[t].req
  <2>1. PICK t \in Clients : Admit(t) /\ c \in call[t].req
    BY <1>2
  <2> DEFINE es == LiveAt(Cached(c), call[t].when) \cup {Entry(t, c)}
  <2>2. /\ Weighed(es) /\ Total(es) \in Nat /\ call[t].read[c] \in Nat
        /\ call[t].read[c] + Total(es) <= MaxValue[c] /\ Held(c)' \subseteq es
    BY ZenonT(60), <2>1, AdmitFits
  <2> HIDE DEF es
  <2>3. Total(Held(c)') \in Nat /\ Total(Held(c)') <= Total(es)
    BY <2>2, TotalSubset
  <2> QED
    BY <1>0, <2>2, <2>3
<1> QED
  BY <1>1, <1>2

\* An update that has been applied stays applied while its entry counts.
LEMMA AppliedStays ==
  ASSUME IInv, Booked, [Next]_vars, NEW c \in Counters,
         NEW e \in entries[c], e \in entries'[c], Applied(e, c)
  PROVE  Applied(e, c)'
<1>1. PICK u \in Clients : pc[u] = "commit" /\ call[u].id = e.id /\ c \notin todo[u]
  BY DEF Applied
<1> SUFFICES pc'[u] = "commit" /\ call'[u].id = e.id /\ c \notin todo'[u]
  BY Zenon DEF Applied
<1>2. CASE UNCHANGED <<pc, call, todo>>
  BY <1>1, <1>2
<1>3. ASSUME NEW t \in Clients, NEW d \in Counters, Touch(t, d) \/ UpdateCounter(t, d)
      PROVE  pc'[u] = "commit" /\ call'[u].id = e.id /\ c \notin todo'[u]
  BY <1>1, <1>3 DEF Touch, UpdateCounter, IInv, TypeOK
<1>4. ASSUME NEW t \in Clients, Admit(t) \/ Deny(t) \/ AdmitUnheld(t) \/ Abandon(t)
      PROVE  pc'[u] = "commit" /\ call'[u].id = e.id /\ c \notin todo'[u]
  <2>1. t # u
    BY <1>1, <1>4 DEF Admit, Deny, AdmitUnheld, Abandon, Decide
  <2>2. pc'[u] = pc[u] /\ call'[u] = call[u] /\ todo'[u] = todo[u]
    BY <1>4, <2>1 DEF Admit, Deny, AdmitUnheld, Abandon, Decide, Return, IInv, TypeOK
  <2> QED
    BY <1>1, <2>2
<1>5. ASSUME NEW t \in Clients, NEW a \in Amounts,
             Commit(t, a) \/ \E cs \in Requests, l \in Ttls : Reserve(t, cs, a, l)
      PROVE  pc'[u] = "commit" /\ call'[u].id = e.id /\ c \notin todo'[u]
  <2>1. t # u
    BY Zenon, <1>1, <1>5 DEF Commit, Reserve
  <2>2. pc'[u] = pc[u] /\ call'[u] = call[u] /\ todo'[u] = todo[u]
    BY Zenon, <1>5, <2>1 DEF Commit, Reserve, IInv, TypeOK
  <2> QED
    BY <1>1, <2>2
<1>6. ASSUME NEW t \in Clients, Release(t)
      PROVE  pc'[u] = "commit" /\ call'[u].id = e.id /\ c \notin todo'[u]
  <2>1. c \in call[u].req
    BY Zenon, <1>1 DEF Booked, OwnEntries
  <2>2. t # u
    BY <1>1, <1>6, <2>1 DEF Release
  <2>3. pc'[u] = pc[u] /\ call'[u] = call[u] /\ todo'[u] = todo[u]
    BY ZenonT(60), <1>6, <2>2 DEF Release, Return, IInv, TypeOK
  <2> QED
    BY <1>1, <2>3
<1>7. CASE Tick
  BY ZenonT(60), <1>2, <1>7 DEF Tick
<1> QED
  BY Zenon, <1>2, <1>3, <1>4, <1>5, <1>6, <1>7 DEF Next, Quiesce, vars

\* Only an admission adds to what is held and not yet counted.
LEMMA UnappliedFades ==
  ASSUME IInv, Booked, [Next]_vars, NEW c \in Counters,
         \A t \in Clients : Admit(t) => c \notin call[t].req
  PROVE  Unapplied(c)' \subseteq Unapplied(c)
<1> SUFFICES ASSUME NEW e \in Unapplied(c)' PROVE e \in Unapplied(c)
  OBVIOUS
<1>1. e \in Held(c)' /\ ~Applied(e, c)' /\ e \in entries'[c]
  BY DEF Unapplied, Held, LiveAt, Cached
<1>2. e \in Held(c) /\ e \in entries[c]
  BY ZenonT(60), <1>1, HeldFades, EntriesWeighed
<1>3. ~Applied(e, c)
  BY ZenonT(60), <1>1, <1>2, AppliedStays
<1> QED
  BY <1>2, <1>3 DEF Unapplied

\* Only an update adds to a counter's value.
LEMMA CurrentFades ==
  ASSUME IInv, [Next]_vars, NEW c \in Counters,
         \A t \in Clients : ~UpdateCounter(t, c)
  PROVE  Current(c) \in Nat /\ Current(c)' \in Nat /\ Current(c)' <= Current(c)
<1>0. Current(c) \in Nat /\ value[c] \in Nat /\ expiry[c] \in Nat /\ now \in Nat
  BY DEF Current, IInv, TypeOK
<1>1. CASE UNCHANGED <<value, expiry, now>>
  BY <1>0, <1>1 DEF Current, Elapsed
<1>2. CASE Tick
  BY <1>0, <1>2 DEF Tick, cells, Current, Elapsed
<1>3. ASSUME NEW t \in Clients, NEW d \in Counters, UpdateCounter(t, d)
      PROVE  Current(c)' = Current(c)
  <2>1. d # c
    BY <1>3
  <2> QED
    BY ZenonT(60), <1>3, <2>1 DEF UpdateCounter, Current, Elapsed, IInv, TypeOK
<1>4. ASSUME NEW t \in Clients, NEW d \in Counters, Touch(t, d)
      PROVE  Current(c)' \in Nat /\ Current(c)' <= Current(c)
  <2>1. CASE d # c
    BY <1>0, <1>4, <2>1 DEF Touch, Current, Elapsed, IInv, TypeOK
  <2>2. CASE d = c /\ ~Elapsed(c, call[t].when)
    BY <1>0, <1>4, <2>2 DEF Touch, Current, Elapsed, IInv, TypeOK
  <2>3. CASE d = c /\ Elapsed(c, call[t].when)
    <3>1. value'[c] = 0
      BY <1>4, <2>3 DEF Touch, IInv, TypeOK
    <3> QED
      BY <1>0, <3>1 DEF Current
  <2> QED
    BY <2>1, <2>2, <2>3
<1>5. ASSUME NEW t \in Clients,
             Admit(t) \/ Deny(t) \/ AdmitUnheld(t) \/ Abandon(t) \/ Release(t)
      PROVE  Current(c)' \in Nat /\ Current(c)' <= Current(c)
  BY <1>1, <1>5 DEF Admit, Deny, AdmitUnheld, Abandon, Release, Decide, cells
<1>6. ASSUME NEW t \in Clients, NEW a \in Amounts,
             Commit(t, a) \/ \E cs \in Requests, l \in Ttls : Reserve(t, cs, a, l)
      PROVE  Current(c)' \in Nat /\ Current(c)' <= Current(c)
  BY Zenon, <1>1, <1>6 DEF Commit, Reserve, cells
<1>7. CASE Quiesce \/ UNCHANGED vars
  BY ZenonT(60), <1>1, <1>7 DEF Quiesce, vars, cells
<1>8. Current(c)' = Current(c) => Current(c)' \in Nat /\ Current(c)' <= Current(c)
  BY <1>0
<1> QED
  BY ZenonT(60), <1>0, <1>2, <1>3, <1>4, <1>5, <1>6, <1>7, <1>8 DEF Next

\* What has gone wrong is not forgotten.
LEMMA StrayedGrows == [Next]_vars => strayed \subseteq strayed'
<1> SUFFICES ASSUME [Next]_vars PROVE strayed \subseteq strayed'
  OBVIOUS
<1>1. ASSUME NEW t \in Clients, NEW c \in Counters, Touch(t, c) \/ UpdateCounter(t, c)
      PROVE  strayed \subseteq strayed'
  BY <1>1 DEF Touch, UpdateCounter
<1>2. ASSUME NEW t \in Clients,
             Admit(t) \/ Deny(t) \/ AdmitUnheld(t) \/ Abandon(t) \/ Release(t)
      PROVE  strayed' = strayed
  BY <1>2 DEF Admit, Deny, AdmitUnheld, Abandon, Release, Decide
<1>3. ASSUME NEW t \in Clients, NEW a \in Amounts,
             Commit(t, a) \/ \E cs \in Requests, l \in Ttls : Reserve(t, cs, a, l)
      PROVE  strayed' = strayed
  BY Zenon, <1>3 DEF Commit, Reserve
<1>4. CASE Tick \/ Quiesce \/ UNCHANGED vars
  BY <1>4 DEF Tick, Quiesce, vars
<1> QED
  BY <1>1, <1>2, <1>3, <1>4 DEF Next

\* What a commit that does not stray does to its counter.
LEMMA UpdateCovered ==
  ASSUME IInv, Booked, [Next]_vars, NEW t \in Clients, NEW c \in Counters,
         UpdateCounter(t, c), strayed' = {}
  PROVE  /\ strayed = {} /\ Touched(c) = {}
         /\ \A d \in Counters : d # c => Current(d)' = Current(d)
         /\ Current(c) \in Nat /\ Current(c)' = Current(c) + call[t].amount
         /\ Total(Unapplied(c)') \in Nat
         /\ Total(Unapplied(c)') + call[t].amount <= Total(Unapplied(c))
<1>1. /\ pc[t] = "commit" /\ c \in todo[t] /\ UNCHANGED <<now, pc, call>>
      /\ strayed = {} /\ Stray(t, c) = {} /\ c \notin todo'[t]
  BY Zenon DEF UpdateCounter, IInv, TypeOK
<1>2. /\ ~(call[t].amount > call[t].hold) /\ ~(ExpiresAt(t, c) <= now)
      /\ Touched(c) = {}
      /\ \E e \in Cached(c) : e.id = call[t].id
  BY Zenon, <1>1 DEF Stray
<1>3. /\ call[t].amount \in Nat /\ call[t].hold \in Nat /\ call[t].id \in Nat
      /\ ExpiresAt(t, c) \in Nat /\ now \in Nat /\ Window[c] \in Nat \ {0}
      /\ value[c] \in Nat /\ expiry[c] \in Nat
  BY CountersAssumption, AmountsAssumption DEF IInv, TypeOK, Calls, ExpiresAt
<1>4. PICK e \in Cached(c) : e.id = call[t].id
  BY ZenonT(60), <1>2
<1>5. e \in entries[c] /\ e.id # 0 /\ e = Entry(t, c)
  <2>1. e \in entries[c]
    BY ZenonT(60) DEF Cached
  <2>2. e.id \in 1..calls
    BY Zenon, <2>1 DEF Booked, EntryIds
  <2>3. e = Entry(t, c)
    BY Zenon, <1>4, <2>1 DEF Booked, OwnEntries
  <2> QED
    BY <2>1, <2>2, <2>3
<1>6. e.amount = call[t].hold /\ e.expires = ExpiresAt(t, c)
  BY Zenon, <1>5 DEF Entry
<1>7. e \in Unapplied(c)
  <2>1. e \in Held(c)
    BY <1>2, <1>3, <1>6 DEF Held, LiveAt
  <2>2. ~Applied(e, c)
    <3> SUFFICES ASSUME NEW u \in Clients, pc[u] = "commit", call[u].id = e.id, c \notin todo[u]
                 PROVE  FALSE
      BY Zenon DEF Applied
    <3>1. u = t
      BY Zenon, <1>4, <1>5 DEF Booked, OwnIds
    <3> QED
      BY ZenonT(60), <1>1, <3>1
  <2> QED
    BY <2>1, <2>2 DEF Unapplied
<1>8. Unapplied(c)' \subseteq Unapplied(c) \ {e}
  <2>1. \A u \in Clients : ~Admit(u)
    BY ZenonT(60), <1>1 DEF Admit, Decide, IInv, TypeOK
  <2>2. Unapplied(c)' \subseteq Unapplied(c)
    BY ZenonT(60), <2>1, UnappliedFades
  <2>3. Applied(e, c)'
    BY Zenon, <1>1, <1>4 DEF Applied
  <2>4. e \notin Unapplied(c)'
    BY <2>3 DEF Unapplied
  <2> QED
    BY <2>2, <2>4
<1>9. /\ Weighed(Unapplied(c) \ {e})
      /\ Total(Unapplied(c)) = call[t].hold + Total(Unapplied(c) \ {e})
  BY ZenonT(60), <1>6, <1>7, EntriesWeighed, TotalElement
<1>10. /\ Total(Unapplied(c)') \in Nat /\ Total(Unapplied(c) \ {e}) \in Nat
       /\ Total(Unapplied(c)') <= Total(Unapplied(c) \ {e})
  BY ZenonT(60), <1>8, <1>9, TotalSubset
<1>11. Total(Unapplied(c)') + call[t].amount <= Total(Unapplied(c))
  BY <1>2, <1>3, <1>9, <1>10
<1>12. /\ Current(c) \in Nat /\ Current(c)' = Current(c) + call[t].amount
       /\ \A d \in Counters : d # c => Current(d)' = Current(d)
  BY <1>1, <1>3 DEF UpdateCounter, Current, Elapsed, IInv, TypeOK
<1> QED
  BY ZenonT(60), <1>1, <1>2, <1>10, <1>11, <1>12

\* The values that undecided calls have read stay bounds of the counters'.
LEMMA NextReads ==
  IInv /\ Booked /\ ReadsCurrent /\ [Next]_vars => ReadsCurrent'
<1> SUFFICES ASSUME IInv, Booked, ReadsCurrent, [Next]_vars, strayed' = {},
                    NEW u \in Clients, pc'[u] = "touch", NEW c \in call'[u].req \ todo'[u]
             PROVE  Current(c)' <= call'[u].read[c]
  BY ZenonT(60) DEF ReadsCurrent
<1>0. IInv'
  BY NextIInv
<1>1. c \in Counters /\ call'[u].read[c] \in Nat /\ strayed = {}
  <2>1. c \in Counters /\ call'[u].read[c] \in Nat
    BY <1>0 DEF IInv, TypeOK, Calls
  <2>2. strayed \subseteq strayed'
    BY Zenon, StrayedGrows
  <2> QED
    BY <2>1, <2>2
<1>2. CASE /\ pc[u] = "touch" /\ call[u].req \ todo[u] = call'[u].req \ todo'[u]
           /\ call'[u].read = call[u].read
  <2>1. Current(c) <= call[u].read[c] /\ c \in call[u].req \ todo[u]
    BY ZenonT(60), <1>1, <1>2 DEF ReadsCurrent
  <2>2. \A t \in Clients : ~UpdateCounter(t, c)
    <3> SUFFICES ASSUME NEW t \in Clients, UpdateCounter(t, c) PROVE FALSE
      OBVIOUS
    <3>1. Touched(c) = {}
      BY ZenonT(60), <1>1, UpdateCovered
    <3> QED
      BY ZenonT(60), <1>2, <2>1, <3>1 DEF Touched
  <2>3. Current(c) \in Nat /\ Current(c)' \in Nat /\ Current(c)' <= Current(c)
    BY ZenonT(60), <1>1, <2>2, CurrentFades
  <2> QED
    BY <1>1, <1>2, <2>1, <2>3
<1>3. ASSUME NEW d \in Counters, Touch(u, d) PROVE Current(c)' <= call'[u].read[c]
  <2> DEFINE v == IF Elapsed(d, call[u].when) THEN 0 ELSE value[d]
  <2>1. /\ call[u] \in Calls /\ pc[u] = "touch" /\ d \in todo[u] /\ v \in Nat
        /\ value'[d] = v /\ todo'[u] = todo[u] \ {d}
    BY <1>3 DEF Touch, IInv, TypeOK
  <2>2. call'[u].req = call[u].req /\ call'[u].read = [call[u].read EXCEPT ![d] = v]
    BY <1>3, <2>1 DEF Touch, IInv, TypeOK, Calls
  <2>3. CASE c = d
    <3>1. call'[u].read[c] = v
      BY ZenonT(60), <2>1, <2>2, <2>3 DEF Calls
    <3> QED
      BY <2>1, <2>3, <3>1 DEF Current
  <2>4. CASE c # d
    <3>1. call'[u].read[c] = call[u].read[c]
      BY ZenonT(60), <1>1, <2>1, <2>2, <2>4 DEF Calls
    <3>2. c \in call[u].req \ todo[u] /\ call[u].read[c] \in Nat
      BY ZenonT(60), <1>1, <2>1, <2>2, <2>4 DEF Calls
    <3>3. Current(c) <= call[u].read[c]
      BY ZenonT(60), <1>1, <2>1, <3>2 DEF ReadsCurrent
    <3>4. \A t \in Clients : ~UpdateCounter(t, c)
      <4> SUFFICES ASSUME NEW t \in Clients, UpdateCounter(t, c) PROVE FALSE
        OBVIOUS
      <4>1. t # u /\ c \in todo[t] /\ c \notin todo'[t]
        BY ZenonT(60), <2>1 DEF UpdateCounter, IInv, TypeOK
      <4>2. todo'[t] = todo[t]
        BY <1>3, <4>1 DEF Touch, IInv, TypeOK
      <4> QED
        BY <4>1, <4>2
    <3>5. Current(c) \in Nat /\ Current(c)' \in Nat /\ Current(c)' <= Current(c)
      BY ZenonT(60), <1>1, <3>4, CurrentFades
    <3> QED
      BY <3>1, <3>2, <3>3, <3>5
  <2> QED
    BY <2>3, <2>4
<1>4. ASSUME NEW cs \in Requests, NEW a \in Amounts, NEW l \in Ttls, Reserve(u, cs, a, l)
      PROVE  FALSE
  BY ZenonT(60), <1>4 DEF Reserve, IInv, TypeOK
<1>5. ASSUME NEW t \in Clients, t # u,
             \/ \E cs \in Requests, a \in Amounts, l \in Ttls : Reserve(t, cs, a, l)
             \/ \E a \in Amounts : Commit(t, a)
             \/ \E d \in Counters : Touch(t, d) \/ UpdateCounter(t, d)
      PROVE  pc'[u] = pc[u] /\ call'[u] = call[u] /\ todo'[u] = todo[u]
  <2>1. ASSUME NEW cs \in Requests, NEW a \in Amounts, NEW l \in Ttls, Reserve(t, cs, a, l)
        PROVE  pc'[u] = pc[u] /\ call'[u] = call[u] /\ todo'[u] = todo[u]
    BY ZenonT(60), <1>5, <2>1 DEF Reserve, IInv, TypeOK
  <2>2. ASSUME NEW a \in Amounts, Commit(t, a)
        PROVE  pc'[u] = pc[u] /\ call'[u] = call[u] /\ todo'[u] = todo[u]
    BY <1>5, <2>2 DEF Commit, IInv, TypeOK
  <2>3. ASSUME NEW d \in Counters, Touch(t, d) \/ UpdateCounter(t, d)
        PROVE  pc'[u] = pc[u] /\ call'[u] = call[u] /\ todo'[u] = todo[u]
    BY <1>5, <2>3 DEF Touch, UpdateCounter, IInv, TypeOK
  <2> QED
    BY ZenonT(60), <1>5, <2>1, <2>2, <2>3
<1>6. ASSUME NEW t \in Clients, t # u,
             Deny(t) \/ AdmitUnheld(t) \/ Admit(t) \/ Abandon(t) \/ Release(t)
      PROVE  pc'[u] = pc[u] /\ call'[u] = call[u] /\ todo'[u] = todo[u]
  BY <1>6 DEF Deny, AdmitUnheld, Admit, Decide, Abandon, Release, Return, IInv, TypeOK
<1>7. /\ ~Deny(u) /\ ~AdmitUnheld(u) /\ ~Admit(u) /\ ~Abandon(u) /\ ~Release(u)
      /\ \A a \in Amounts : ~Commit(u, a)
      /\ \A d \in Counters : ~UpdateCounter(u, d)
  BY DEF Deny, AdmitUnheld, Admit, Abandon, Release, Return, Commit, UpdateCounter, IInv, TypeOK
<1>8. CASE UNCHANGED <<pc, call, todo>>
  BY <1>2, <1>8
<1>9. CASE Tick \/ Quiesce \/ UNCHANGED vars
  BY ZenonT(60), <1>8, <1>9 DEF Tick, Quiesce, vars
<1>10. ASSUME pc'[u] = pc[u] /\ call'[u] = call[u] /\ todo'[u] = todo[u]
       PROVE  Current(c)' <= call'[u].read[c]
  BY ZenonT(60), <1>2, <1>10
<1> QED
  BY ZenonT(60), <1>3, <1>4, <1>5, <1>6, <1>7, <1>9, <1>10 DEF Next

\* Commits that do not stray move usage from the holds to the value.
LEMMA NextUsage ==
  IInv /\ Booked /\ ReadsCurrent /\ UsageUnlessStrayed /\ NoWrap /\ [Next]_vars
    => UsageUnlessStrayed'
<1> SUFFICES ASSUME IInv, Booked, ReadsCurrent, UsageUnlessStrayed, NoWrap, [Next]_vars,
                    strayed' = {}, NEW c \in Counters
             PROVE  Current(c)' + Total(Unapplied(c)') <= MaxValue[c]
  BY DEF UsageUnlessStrayed, Usage
<1>1. strayed = {}
  <2>1. strayed \subseteq strayed'
    BY Zenon, StrayedGrows
  <2> QED
    BY <2>1
<1>2. /\ MaxValue[c] \in Nat /\ Current(c) \in Nat /\ Total(Unapplied(c)) \in Nat
      /\ Current(c) + Total(Unapplied(c)) <= MaxValue[c]
  BY ZenonT(60), <1>1, CountersAssumption, EntriesWeighed
     DEF UsageUnlessStrayed, Usage, Current, IInv, TypeOK
<1>3. CASE \E t \in Clients : UpdateCounter(t, c)
  <2>1. PICK t \in Clients : UpdateCounter(t, c)
    BY <1>3
  <2>2. /\ Current(c)' = Current(c) + call[t].amount
        /\ Total(Unapplied(c)') \in Nat /\ call[t].amount \in Nat
        /\ Total(Unapplied(c)') + call[t].amount <= Total(Unapplied(c))
    BY <2>1, UpdateCovered, AmountsAssumption DEF IInv, TypeOK, Calls
  <2> QED
    BY <1>2, <2>2
<1>4. CASE \E t \in Clients : Admit(t) /\ c \in call[t].req
  <2>1. PICK t \in Clients : Admit(t) /\ c \in call[t].req
    BY ZenonT(60), <1>4
  <2> DEFINE es == LiveAt(Cached(c), call[t].when) \cup {Entry(t, c)}
  <2>2. /\ Weighed(es) /\ Total(es) \in Nat /\ call[t].read[c] \in Nat
        /\ call[t].read[c] + Total(es) <= MaxValue[c] /\ Held(c)' \subseteq es
    BY ZenonT(60), <2>1, AdmitFits
  <2> HIDE DEF es
  <2>3. Current(c)' = Current(c) /\ Current(c) <= call[t].read[c]
    <3>1. pc[t] = "touch" /\ todo[t] = {} /\ UNCHANGED <<now, value, expiry>>
      BY ZenonT(60), <2>1 DEF Admit, Decide, cells
    <3> QED
      BY ZenonT(60), <1>1, <2>1, <3>1 DEF ReadsCurrent, Current, Elapsed
  <2>4. Unapplied(c)' \subseteq es
    BY ZenonT(60), <2>2 DEF Unapplied
  <2>5. Total(Unapplied(c)') \in Nat /\ Total(Unapplied(c)') <= Total(es)
    BY ZenonT(60), <2>2, <2>4, TotalSubset
  <2>6. Current(c) + Total(Unapplied(c)') <= MaxValue[c]
    BY ZenonT(60), <1>2, <2>2, <2>3, <2>5, SumBelow
  <2> QED
    BY ZenonT(60), <2>3, <2>6
<1>5. CASE /\ \A t \in Clients : ~UpdateCounter(t, c)
           /\ \A t \in Clients : Admit(t) => c \notin call[t].req
  <2>1. Current(c)' \in Nat /\ Current(c)' <= Current(c)
    BY <1>5, CurrentFades
  <2>2. Unapplied(c)' \subseteq Unapplied(c)
    BY <1>5, UnappliedFades
  <2>3. Total(Unapplied(c)') \in Nat /\ Total(Unapplied(c)') <= Total(Unapplied(c))
    BY ZenonT(60), <2>2, EntriesWeighed, TotalSubset
  <2> QED
    BY <1>2, <2>1, <2>3
<1> QED
  BY Zenon, <1>3, <1>4, <1>5

\* Initially nothing is held or used.
LEMMA InitLimits == Init => HoldsWithinLimit /\ ReadsCurrent /\ UsageUnlessStrayed
<1> SUFFICES ASSUME Init PROVE HoldsWithinLimit /\ ReadsCurrent /\ UsageUnlessStrayed
  OBVIOUS
<1>1. IInv /\ Booked
  BY InitIInv, InitBooked
<1>2. ASSUME NEW c \in Counters
      PROVE  /\ Total(Held(c)) = 0 /\ Total(Unapplied(c)) = 0 /\ Current(c) = 0
             /\ MaxValue[c] \in Nat
  <2>1. Held(c) = {} /\ Unapplied(c) = {} /\ Current(c) = 0 /\ MaxValue[c] \in Nat
    BY CountersAssumption DEF Init, Held, Unapplied, Current, LiveAt, Cached, Zero
  <2>2. Weighed({}) /\ Units({}) = {}
    BY FS_EmptySet DEF Weighed, Units
  <2>3. Total({}) = 0
    BY Zenon, <2>2, TotalIsUnits, FS_EmptySet
  <2> QED
    BY <2>1, <2>3
<1>3. HoldsWithinLimit
  BY <1>2 DEF HoldsWithinLimit, Held
<1>4. ReadsCurrent
  BY ZenonT(60) DEF Init, ReadsCurrent
<1>5. UsageUnlessStrayed
  BY <1>2 DEF UsageUnlessStrayed, Usage
<1> QED
  BY <1>3, <1>4, <1>5

(***************************************************************************)
(* Concurrent reservations never hold more than the limit between them, as *)
(* long as no sum that `reserve` compares with a limit wraps around a u64: *)
(* the registry decides and records under the admission lock, and the old  *)
(* clock a call decides with makes it count more entries, never fewer.     *)
(***************************************************************************)
THEOREM HoldsStayWithinLimit == Spec /\ []NoWrap => []HoldsWithinLimit
<1> QED
  BY Invariance, InitBooked, NextBooked, InitLimits, NextHolds, PTL DEF Spec

(***************************************************************************)
(* The promise of `reserve`, until a commit strays (late, above its hold,  *)
(* overtaking an undecided call, or after its entry was dropped) and while *)
(* no sum wraps: what a counter has counted in its window and what is held *)
(* on it stay within its limit.                                            *)
(***************************************************************************)
THEOREM ReservedUsageWithinLimit == Spec /\ []NoWrap => []UsageUnlessStrayed
<1> QED
  BY Invariance, InitBooked, NextBooked, InitLimits, NextReads, NextUsage, PTL DEF Spec
=============================================================================
