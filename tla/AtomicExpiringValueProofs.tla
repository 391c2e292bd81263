---------------------- MODULE AtomicExpiringValueProofs ----------------------
(***************************************************************************)
(* The window counter is right for every set of threads, every window      *)
(* length and every amount: the proofs of the invariants and of the action *)
(* property of AtomicExpiringValue.                                        *)
(***************************************************************************)
EXTENDS AtomicExpiringValue, TLAPS

\* The state `update` starts from, a counter that never existed, satisfies the
\* inductive invariant.
LEMMA InitIInv == Init => IInv
<1> SUFFICES ASSUME Init PROVE IInv
  OBVIOUS
<1>1. TypeOK
  BY Zenon DEF Init, TypeOK
<1>2. Resetting = {} /\ ExchangeSawElapsed
  BY DEF Init, Resetting, ExchangeSawElapsed
<1>3. value = credit /\ value <= credit
  BY DEF Init
<1> QED
  BY <1>1, <1>2, <1>3
  DEF IInv, ResetsBehind, OneOpenerPerWindow, NoOvercount, UnracedReset, ExactUnlessRaced

\* Every instruction of `update` keeps the variables typed.
LEMMA NextTypeOK == TypeOK /\ [Next]_vars => TypeOK'
<1> SUFFICES ASSUME TypeOK, [Next]_vars PROVE TypeOK'
  OBVIOUS
<1> USE TtlAssumption, DeltasAssumption DEF TypeOK
<1>1. ASSUME NEW t \in Threads, NEW d \in Deltas, Call(t, d) PROVE TypeOK'
  BY <1>1 DEF Call
<1>2. ASSUME NEW t \in Threads, LoadExpiry(t) PROVE TypeOK'
  BY <1>2 DEF LoadExpiry
<1>3. ASSUME NEW t \in Threads, OpenWindow(t) PROVE TypeOK'
  BY <1>3 DEF OpenWindow
<1>4. ASSUME NEW t \in Threads, LoseExchange(t) PROVE TypeOK'
  BY <1>4 DEF LoseExchange
<1>5. ASSUME NEW t \in Threads, Store(t) PROVE TypeOK'
  BY <1>5 DEF Store
<1>6. ASSUME NEW t \in Threads, FetchAdd(t) PROVE TypeOK'
  BY <1>6 DEF FetchAdd
<1>7. CASE Tick
  BY <1>7 DEF Tick
<1>8. CASE Quiesce \/ UNCHANGED vars
  BY <1>8 DEF Quiesce, vars
<1> QED
  BY <1>1, <1>2, <1>3, <1>4, <1>5, <1>6, <1>7, <1>8 DEF Next, Step

\* Every instruction of `update` preserves the inductive invariant.
LEMMA NextIInv == IInv /\ [Next]_vars => IInv'
<1> SUFFICES ASSUME IInv, [Next]_vars PROVE IInv'
  OBVIOUS
<1>0. TypeOK /\ TypeOK'
  BY NextTypeOK DEF IInv
<1> USE <1>0, TtlAssumption, DeltasAssumption
    DEF IInv, TypeOK, ExchangeSawElapsed, ResetsBehind, Resetting, Opened,
        OneOpenerPerWindow, NoOvercount, UnracedReset, ExactUnlessRaced, ResetPending
<1>1. ASSUME NEW t \in Threads, NEW d \in Deltas, Call(t, d) PROVE IInv'
  BY <1>1 DEF Call
<1>2. ASSUME NEW t \in Threads, LoadExpiry(t) PROVE IInv'
  BY <1>2 DEF LoadExpiry, Expired
<1>3. ASSUME NEW t \in Threads, OpenWindow(t) PROVE IInv'
  <2>1. expiry < expiry' /\ expiry' = when[t] + Ttl /\ credit' = 0
    BY <1>3 DEF OpenWindow
  <2>2. Resetting' = Resetting \cup {t} /\ t \notin Resetting
    BY <1>3 DEF OpenWindow
  <2>3. ExchangeSawElapsed' /\ ResetsBehind' /\ OneOpenerPerWindow'
    BY <1>3, <2>1, <2>2 DEF OpenWindow
  <2>4. ResetPending'
    BY <1>3, <2>1, <2>2 DEF OpenWindow
  <2>5. UnracedReset'
    BY Zenon, <1>3, <2>1, <2>2 DEF OpenWindow
  <2> QED
    BY <2>3, <2>4, <2>5
<1>4. ASSUME NEW t \in Threads, LoseExchange(t) PROVE IInv'
  BY <1>4 DEF LoseExchange
<1>5. ASSUME NEW t \in Threads, Store(t) PROVE IInv'
  <2>1. Resetting' = Resetting \ {t} /\ t \in Resetting
    BY <1>5 DEF Store
  <2>2. ExchangeSawElapsed' /\ ResetsBehind' /\ OneOpenerPerWindow' /\ NoOvercount'
    BY <1>5, <2>1 DEF Store
  <2>3. ~raced => Resetting' = {} /\ credit = 0
    BY <2>1
  <2>4. UnracedReset' /\ ExactUnlessRaced'
    BY <1>5, <2>3 DEF Store
  <2> QED
    BY <2>2, <2>4
<1>6. ASSUME NEW t \in Threads, FetchAdd(t) PROVE IInv'
  <2>1. Resetting' = Resetting
    BY <1>6 DEF FetchAdd
  <2>2. ResetPending' = ResetPending
    BY <1>6, <2>1 DEF FetchAdd
  <2>3. ExchangeSawElapsed' /\ ResetsBehind' /\ OneOpenerPerWindow'
    BY <1>6, <2>1 DEF FetchAdd
  <2>4. value' = value + delta[t] /\ credit' = credit + delta[t]
    BY <1>6 DEF FetchAdd
  <2>5. NoOvercount'
    BY <2>2, <2>4
  <2>6. CASE Resetting = {}
    <3>1. ~ResetPending /\ raced' = raced
      BY <1>6, <2>6 DEF FetchAdd
    <3> QED
      BY <2>1, <2>3, <2>4, <2>5, <2>6, <3>1
  <2>7. CASE Resetting # {}
    <3>1. raced'
      BY Zenon, <1>6, <2>7 DEF FetchAdd
    <3> QED
      BY <2>3, <2>5, <3>1
  <2> QED
    BY <2>6, <2>7
<1>7. CASE Tick
  BY <1>7 DEF Tick
<1>8. CASE Quiesce \/ UNCHANGED vars
  BY <1>8 DEF Quiesce, vars
<1> QED
  BY <1>1, <1>2, <1>3, <1>4, <1>5, <1>6, <1>7, <1>8 DEF Next, Step

\* The inductive invariant holds in every reachable state.
THEOREM Invariance == Spec => []IInv
BY InitIInv, NextIInv, PTL DEF Spec

\* The variables of the counter and of every `update` in progress keep their
\* types, for any number of threads.
THEOREM TypeCorrect == Spec => []TypeOK
BY Invariance, PTL DEF IInv

\* Two updates never reset the value for the same window: the compare_exchange
\* of `update_if_expired` elects one opener, whatever the number of threads.
THEOREM WindowsHaveOneOpener == Spec => []OneOpenerPerWindow
BY Invariance, PTL DEF IInv

\* Once the opener of a window has stored its delta, the value never exceeds
\* what `update` was given since the window opened.
THEOREM CounterNeverOvercounts == Spec => []NoOvercount
BY Invariance, PTL DEF IInv

\* A hit is lost only if it overlaps a window reset.
THEOREM LossOnlyAtReset == Spec => []ExactUnlessRaced
BY Invariance, PTL DEF IInv

\* The expiry never moves backwards under `update`.
THEOREM WindowsMoveForward == Spec => ExpiryMonotone
<1>1. ASSUME IInv, [Next]_vars PROVE expiry' >= expiry
  <2> USE <1>1, TtlAssumption DEF IInv, TypeOK
  <2>1. ASSUME NEW t \in Threads, OpenWindow(t) PROVE expiry' >= expiry
    BY <2>1 DEF OpenWindow, ExchangeSawElapsed
  <2>2. CASE UNCHANGED expiry
    BY <2>2
  <2> QED
    BY <2>1, <2>2
    DEF Next, Step, Call, LoadExpiry, LoseExchange, Store, FetchAdd, Tick, Quiesce, vars
<1> QED
  BY <1>1, Invariance, PTL DEF Spec, ExpiryMonotone
=============================================================================
