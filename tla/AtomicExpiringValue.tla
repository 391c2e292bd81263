------------------------- MODULE AtomicExpiringValue -------------------------
(***************************************************************************)
(* The lock-free fixed-window counter every in-process storage is built    *)
(* on: a `value` and an `expiry`, two separate atomics, updated by many    *)
(* threads.  One action per atomic instruction of `update`                 *)
(* (storage/atomic_expiring_value.rs), so that every interleaving of two   *)
(* updates that meet at a window boundary is explored.                     *)
(*                                                                         *)
(* Time is a natural number that only grows.  A thread's `when` is the     *)
(* clock as its caller read it, and may be old by the time it is used.     *)
(***************************************************************************)
EXTENDS Integers

CONSTANTS
  Threads,   \* the threads that update the counter
  Ttl,       \* the length of the limit's window
  Deltas,    \* the amounts a caller may add
  MaxNow,    \* bound: the last instant explored
  MaxCalls   \* bound: how many updates are started

ASSUME TtlAssumption == Ttl \in Nat \ {0}
ASSUME DeltasAssumption == Deltas \subseteq Nat
ASSUME BoundsAssumption == MaxNow \in Nat /\ MaxCalls \in Nat

VARIABLES
  now,     \* the system clock
  value,   \* AtomicExpiringValue.value
  expiry,  \* AtomicExpiryTime.expiry
  pc,      \* the next atomic instruction of each thread's `update`
  delta,   \* the arguments of that call ...
  when,
  seen,    \* ... and the expiry it loaded
  calls,   \* updates started so far
  credit,  \* history: amounts written since the window was opened
  raced    \* history: a write of this window met a pending window reset

vars == <<now, value, expiry, pc, delta, when, seen, calls, credit, raced>>

Expired(e, w) == e <= w

Init ==
  /\ now = 0
  /\ value = 0
  /\ expiry = 0          \* Default: value 0, UNIX_EPOCH
  /\ pc = [t \in Threads |-> "idle"]
  /\ delta = [t \in Threads |-> 0]
  /\ when = [t \in Threads |-> 0]
  /\ seen = [t \in Threads |-> 0]
  /\ calls = 0
  /\ credit = 0
  /\ raced = FALSE

(***************************************************************************)
(* The threads about to reset `value` for the window they have opened.     *)
(***************************************************************************)
Resetting == {t \in Threads : pc[t] = "store"}

(***************************************************************************)
(* Faulty variants of the steps below, one plausible defect each.  They    *)
(* are not part of Next: each shows that a property can fail.              *)
(***************************************************************************)
\* A plain store of the expiry instead of the compare_exchange.
OpenWindowBlindly(t) ==
  /\ pc[t] = "exchange"
  /\ expiry' = when[t] + Ttl
  /\ pc' = [pc EXCEPT ![t] = "store"]
  /\ credit' = 0
  /\ raced' = (Resetting # {})
  /\ UNCHANGED <<now, value, delta, when, seen, calls>>

\* The new window starts from the old window's value.
StoreOnTop(t) ==
  /\ pc[t] = "store"
  /\ value' = value + delta[t]
  /\ credit' = credit + delta[t]
  /\ pc' = [pc EXCEPT ![t] = "idle"]
  /\ UNCHANGED <<now, expiry, delta, when, seen, calls, raced>>

\* The new window starts from zero, without the hit that opened it.
StoreZero(t) ==
  /\ pc[t] = "store"
  /\ value' = 0
  /\ credit' = credit + delta[t]
  /\ pc' = [pc EXCEPT ![t] = "idle"]
  /\ UNCHANGED <<now, expiry, delta, when, seen, calls, raced>>
-----------------------------------------------------------------------------
\* update(delta, ttl, when) is called.
Call(t, d) ==
  /\ pc[t] = "idle"
  /\ calls < MaxCalls
  /\ calls' = calls + 1
  /\ pc' = [pc EXCEPT ![t] = "load"]
  /\ delta' = [delta EXCEPT ![t] = d]
  /\ when' = [when EXCEPT ![t] = now]
  /\ UNCHANGED <<now, value, expiry, seen, credit, raced>>

\* update_if_expired: load the expiry and compare it with `when`.
LoadExpiry(t) ==
  /\ pc[t] = "load"
  /\ seen' = [seen EXCEPT ![t] = expiry]
  /\ pc' = [pc EXCEPT ![t] = IF Expired(expiry, when[t]) THEN "exchange" ELSE "add"]
  /\ UNCHANGED <<now, value, expiry, delta, when, calls, credit, raced>>

\* update_if_expired: the compare_exchange that opens the next window.
OpenWindow(t) ==
  /\ pc[t] = "exchange"
  /\ expiry = seen[t]
  /\ expiry' = when[t] + Ttl
  /\ pc' = [pc EXCEPT ![t] = "store"]
  /\ credit' = 0
  /\ raced' = (Resetting # {})
  /\ UNCHANGED <<now, value, delta, when, seen, calls>>

\* The compare_exchange fails: another thread has opened a window.
LoseExchange(t) ==
  /\ pc[t] = "exchange"
  /\ expiry # seen[t]
  /\ pc' = [pc EXCEPT ![t] = "add"]
  /\ UNCHANGED <<now, value, expiry, delta, when, seen, calls, credit, raced>>

\* update: the window is ours, value.store(delta).
Store(t) ==
  /\ pc[t] = "store"
  /\ value' = delta[t]
  /\ credit' = credit + delta[t]
  /\ pc' = [pc EXCEPT ![t] = "idle"]
  /\ UNCHANGED <<now, expiry, delta, when, seen, calls, raced>>

\* update: the window is live, value.fetch_add(delta).
FetchAdd(t) ==
  /\ pc[t] = "add"
  /\ value' = value + delta[t]
  /\ credit' = credit + delta[t]
  /\ raced' = (raced \/ Resetting # {})
  /\ pc' = [pc EXCEPT ![t] = "idle"]
  /\ UNCHANGED <<now, expiry, delta, when, seen, calls>>

Tick ==
  /\ now < MaxNow
  /\ now' = now + 1
  /\ UNCHANGED <<value, expiry, pc, delta, when, seen, calls, credit, raced>>

\* The callers may stop at any time they have no update running.
Quiesce ==
  /\ \A t \in Threads : pc[t] = "idle"
  /\ UNCHANGED vars

Step(t) ==
  \/ LoadExpiry(t)
  \/ OpenWindow(t)
  \/ LoseExchange(t)
  \/ Store(t)
  \/ FetchAdd(t)

Next ==
  \/ \E t \in Threads, d \in Deltas : Call(t, d)
  \/ \E t \in Threads : Step(t)
  \/ Tick
  \/ Quiesce

Spec == Init /\ [][Next]_vars
-----------------------------------------------------------------------------
TypeOK ==
  /\ now \in Nat /\ value \in Nat /\ expiry \in Nat
  /\ pc \in [Threads -> {"idle", "load", "exchange", "store", "add"}]
  /\ delta \in [Threads -> Nat]
  /\ when \in [Threads -> Nat]
  /\ seen \in [Threads -> Nat]
  /\ calls \in Nat
  /\ credit \in Nat
  /\ raced \in BOOLEAN

\* The window a thread has opened and is about to reset the value for.
Opened(t) == when[t] + Ttl

\* The thread that opened the current window has not stored its delta yet.
ResetPending == \E t \in Resetting : Opened(t) = expiry

(***************************************************************************)
(* However many updates find the window elapsed, each window is opened by  *)
(* one of them only: two threads never reset the value for the same window *)
(* (the compare_exchange of `update_if_expired`).  Were they to, the       *)
(* second reset would erase the first caller's hits.                       *)
(***************************************************************************)
OneOpenerPerWindow ==
  \A t, u \in Resetting : t # u => Opened(t) # Opened(u)

(***************************************************************************)
(* The counter never over-counts: once the opener of the current window    *)
(* has stored its delta, `value` is at most what was added since the       *)
(* window opened, so no hit of an earlier window denies a request in this  *)
(* one - even though `expiry` and `value` are separate atomics.            *)
(***************************************************************************)
NoOvercount == ~ResetPending => value <= credit

(***************************************************************************)
(* A hit is lost only to a reset it overlapped.  If no write of this       *)
(* window landed while some thread was between its compare_exchange and    *)
(* its store, the counter is exact.                                        *)
(***************************************************************************)
ExactUnlessRaced == (~ResetPending /\ ~raced) => value = credit

(***************************************************************************)
(* The window only moves forward: an update that took its `when` long ago  *)
(* cannot bring back a window that is over.                                *)
(***************************************************************************)
ExpiryMonotone == [][expiry' >= expiry]_vars

(***************************************************************************)
(* The strengthening that makes the three invariants inductive.            *)
(***************************************************************************)
\* A thread that goes on to the compare_exchange saw its window elapsed.
ExchangeSawElapsed ==
  \A t \in Threads : pc[t] = "exchange" => seen[t] <= when[t]

\* A pending reset belongs to this window or to one that is over.
ResetsBehind == \A t \in Resetting : Opened(t) <= expiry

\* Until a write races, only the opener of this window can be resetting, and
\* nothing has been credited before its store.
UnracedReset ==
  ~raced => \A t \in Resetting : /\ Opened(t) = expiry
                                /\ credit = 0
                                /\ \A u \in Resetting : u = t

(***************************************************************************)
(* The inductive invariant of the counter: the typing, the three           *)
(* invariants above and the facts about pending resets they rest on.       *)
(***************************************************************************)
IInv ==
  /\ TypeOK
  /\ ExchangeSawElapsed
  /\ ResetsBehind
  /\ OneOpenerPerWindow
  /\ NoOvercount
  /\ UnracedReset
  /\ ExactUnlessRaced
=============================================================================
