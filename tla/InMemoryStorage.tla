--------------------------- MODULE InMemoryStorage ---------------------------
(***************************************************************************)
(* The in-memory counter storage (storage/in_memory.rs).                   *)
(*                                                                         *)
(* Counters of limits without variables live in `simple_limits`, a map     *)
(* behind an RwLock; counters of limits with variables live in             *)
(* `qualified_counters`, a concurrent cache that hands out shared handles. *)
(* `check_and_update` holds the read lock only, so requests interleave     *)
(* between reading their counters and adding to them; the threads of this  *)
(* module interleave at every access to a counter.  Operations that take   *)
(* the write lock are one step, which may happen when no reader is inside. *)
(*                                                                         *)
(* Reservations (`reserve`, `release_reservation`) are in module           *)
(* Reservations.                                                           *)
(***************************************************************************)
EXTENDS Integers, FiniteSets

CONSTANTS
  Threads,    \* the threads that serve requests
  Simple,     \* counters of limits without variables
  Qualified,  \* counters of one limit with variables
  Requests,   \* the sets of counters a request may apply to
  MaxValue,   \* max_value of each counter's limit
  Window,     \* seconds of each counter's limit
  Deltas,     \* the amounts a request may add ...
  MaxDelta,   \* ... and an upper bound of theirs
  MaxNow,     \* bound: the last instant explored
  MaxCalls    \* bound: how many operations are started

Counters == Simple \cup Qualified

ASSUME ThreadsAssumption == IsFiniteSet(Threads)
ASSUME CountersAssumption ==
  /\ Simple \cap Qualified = {}
  /\ Requests \subseteq SUBSET (Simple \cup Qualified)
  /\ MaxValue \in [Simple \cup Qualified -> Nat]
  /\ Window \in [Simple \cup Qualified -> Nat \ {0}]
ASSUME DeltasAssumption == MaxDelta \in Nat \ {0} /\ Deltas \subseteq 1..MaxDelta
ASSUME BoundsAssumption == MaxNow \in Nat /\ MaxCalls \in Nat

VARIABLES
  now,      \* the system clock
  present,  \* the counters that have a cell in the map or in the cache
  value,    \* the cells: AtomicExpiringValue.value ...
  expiry,   \* ... and .expiry
  readers,  \* the threads that hold simple_limits' read lock
  pc,       \* where each thread is in its operation
  delta,    \* the amount its request adds ...
  when,     \* ... and the clock as it was read at the start
  todo,     \* the counters of the request it has not come to yet
  apply,    \* simple_to_update and qualified_to_update
  missing,  \* missing_simple
  limited,  \* the threads whose first_limited is set
  cur,      \* the counter whose window it is opening, as a singleton ...
  seen,     \* ... and the expiry it loaded from it
  calls,    \* operations started so far
  forced    \* history: unconditional additions to each cell's window

vars == <<now, present, value, expiry, readers, pc, delta, when, todo, apply,
          missing, limited, cur, seen, calls, forced>>

Init ==
  /\ now = 0
  /\ present = {}
  /\ value = [c \in Counters |-> 0]
  /\ expiry = [c \in Counters |-> 0]
  /\ readers = {}
  /\ pc = [t \in Threads |-> "idle"]
  /\ delta = [t \in Threads |-> 0]
  /\ when = [t \in Threads |-> 0]
  /\ todo = [t \in Threads |-> {}]
  /\ apply = [t \in Threads |-> {}]
  /\ missing = [t \in Threads |-> {}]
  /\ limited = {}
  /\ cur = [t \in Threads |-> {}]
  /\ seen = [t \in Threads |-> 0]
  /\ calls = 0
  /\ forced = [c \in Counters |-> 0]

cells == <<present, value, expiry, forced>>
-----------------------------------------------------------------------------
\* AtomicExpiringValue::value: a window that has elapsed counts for nothing.
Elapsed(c, w) == expiry[c] <= w
Current(c) == IF c \notin present \/ Elapsed(c, now) THEN 0 ELSE value[c]

\* Faulty variant of Exceeds: the hit in hand is not counted.
ExceededAlready(c, d) == Current(c) > MaxValue[c]

\* is_within_limits, `annotate`, `evaluate`: would d more exceed the limit?
Exceeds(c, d) == Current(c) + d > MaxValue[c]

\* The write lock can be taken: no thread is inside with the read lock.
WriteLock == readers = {}

Begin(t) == pc[t] = "idle" /\ calls < MaxCalls /\ calls' = calls + 1

\* check_and_update is called: read the clock, take the read lock.
CheckAndUpdate(t, cs, d) ==
  /\ Begin(t)
  /\ pc' = [pc EXCEPT ![t] = "annotate"]
  /\ readers' = readers \cup {t}
  /\ delta' = [delta EXCEPT ![t] = d]
  /\ when' = [when EXCEPT ![t] = now]
  /\ todo' = [todo EXCEPT ![t] = cs]
  /\ limited' = limited \ {t}
  /\ UNCHANGED <<now, cells, apply, missing, cur, seen>>

\* First pass: `annotate` one counter; the first one exceeded denies.
Annotate(t, c) ==
  /\ pc[t] = "annotate"
  /\ c \in todo[t]
  /\ todo' = [todo EXCEPT ![t] = @ \ {c}]
  /\ limited' = IF Exceeds(c, delta[t]) THEN limited \cup {t} ELSE limited
  /\ UNCHANGED <<now, readers, pc, delta, when, cur, seen, calls>>

AnnotatePresent(t, c) ==
  /\ Annotate(t, c)
  /\ c \in present
  /\ apply' = [apply EXCEPT ![t] = @ \cup {c}]
  /\ UNCHANGED <<cells, missing>>

\* A qualified counter is created on a miss, whatever the outcome will be.
AnnotateNew(t, c) ==
  /\ Annotate(t, c)
  /\ c \in Qualified \ present
  /\ present' = present \cup {c}
  /\ value' = [value EXCEPT ![c] = 0]
  /\ expiry' = [expiry EXCEPT ![c] = when[t] + Window[c]]
  /\ forced' = [forced EXCEPT ![c] = 0]
  /\ apply' = [apply EXCEPT ![t] = @ \cup {c}]
  /\ UNCHANGED missing

\* A simple counter that was deleted meanwhile is left for the end.
AnnotateMissing(t, c) ==
  /\ Annotate(t, c)
  /\ c \in Simple \ present
  /\ missing' = [missing EXCEPT ![t] = @ \cup {c}]
  /\ UNCHANGED <<cells, apply>>

\* Denied: the read lock is dropped and nothing is added.
Deny(t) ==
  /\ pc[t] = "annotate"
  /\ todo[t] = {}
  /\ t \in limited
  /\ pc' = [pc EXCEPT ![t] = "idle"]
  /\ readers' = readers \ {t}
  /\ apply' = [apply EXCEPT ![t] = {}]
  /\ missing' = [missing EXCEPT ![t] = {}]
  /\ UNCHANGED <<now, cells, delta, when, todo, limited, cur, seen, calls>>

Admit(t) ==
  /\ pc[t] = "annotate"
  /\ todo[t] = {}
  /\ t \notin limited
  /\ pc' = [pc EXCEPT ![t] = "apply"]
  /\ UNCHANGED <<now, cells, readers, delta, when, todo, apply, missing,
                 limited, cur, seen, calls>>

\* Second pass: `update` the simple counters, then the qualified ones.
InTurn(t, c) ==
  /\ pc[t] = "apply"
  /\ c \in apply[t]
  /\ c \in Qualified => apply[t] \cap Simple = {}

\* The `update` of c by t ends and leaves v in the cell.
Updated(t, c, v) ==
  /\ value' = [value EXCEPT ![c] = v]
  /\ apply' = [apply EXCEPT ![t] = @ \ {c}]
  /\ cur' = [cur EXCEPT ![t] = {}]
  /\ pc' = [pc EXCEPT ![t] = "apply"]
  /\ UNCHANGED <<now, present, expiry, readers, delta, when, todo, missing,
                 limited, seen, calls>>

\* update: the window is live at `when`, fetch_add.
UpdateLive(t, c) ==
  /\ InTurn(t, c)
  /\ ~Elapsed(c, when[t])
  /\ Updated(t, c, value[c] + delta[t])
  /\ UNCHANGED forced

\* update_if_expired: the window has elapsed at `when`.
UpdateElapsed(t, c) ==
  /\ InTurn(t, c)
  /\ Elapsed(c, when[t])
  /\ pc' = [pc EXCEPT ![t] = "exchange"]
  /\ cur' = [cur EXCEPT ![t] = {c}]
  /\ seen' = [seen EXCEPT ![t] = expiry[c]]
  /\ UNCHANGED <<now, cells, readers, delta, when, todo, apply, missing,
                 limited, calls>>

OpenWindow(t, c) ==
  /\ pc[t] = "exchange"
  /\ c \in cur[t]
  /\ expiry[c] = seen[t]
  /\ expiry' = [expiry EXCEPT ![c] = when[t] + Window[c]]
  /\ pc' = [pc EXCEPT ![t] = "store"]
  /\ UNCHANGED <<now, present, value, forced, readers, delta, when, todo,
                 apply, missing, limited, cur, seen, calls>>

\* Another thread opened a window first: fetch_add after all.
LoseExchange(t, c) ==
  /\ pc[t] = "exchange"
  /\ c \in cur[t]
  /\ expiry[c] # seen[t]
  /\ Updated(t, c, value[c] + delta[t])
  /\ UNCHANGED forced

Store(t, c) ==
  /\ pc[t] = "store"
  /\ c \in cur[t]
  /\ Updated(t, c, delta[t])
  /\ forced' = [forced EXCEPT ![c] = 0]

\* Faulty variant of ReadUnlock: the lock is kept for the missing counters.
ReadUnlockAtEnd(t) ==
  /\ pc[t] = "apply"
  /\ apply[t] = {}
  /\ readers' = IF missing[t] = {} THEN readers \ {t} ELSE readers
  /\ pc' = [pc EXCEPT ![t] = IF missing[t] = {} THEN "idle" ELSE "missing"]
  /\ UNCHANGED <<now, cells, delta, when, todo, apply, missing, limited, cur,
                 seen, calls>>

\* The read lock is dropped before update_counter asks for the write lock.
ReadUnlock(t) ==
  /\ pc[t] = "apply"
  /\ apply[t] = {}
  /\ readers' = readers \ {t}
  /\ pc' = [pc EXCEPT ![t] = IF missing[t] = {} THEN "idle" ELSE "missing"]
  /\ UNCHANGED <<now, cells, delta, when, todo, apply, missing, limited, cur,
                 seen, calls>>

\* update_counter's effect on the cell, all of it under the write lock.
AddLocked(c, d) ==
  LET fresh == c \notin present \/ Elapsed(c, now) IN
  /\ WriteLock
  /\ present' = present \cup {c}
  /\ value' = [value EXCEPT ![c] = IF fresh THEN d ELSE @ + d]
  /\ expiry' = [expiry EXCEPT ![c] = IF fresh THEN now + Window[c] ELSE @]

\* check_and_update's last loop: create a counter that was missing.
UpdateMissing(t, c) ==
  /\ pc[t] = "missing"
  /\ c \in missing[t]
  /\ AddLocked(c, delta[t])
  /\ forced' = [forced EXCEPT ![c] = IF c \notin present \/ Elapsed(c, now) THEN 0 ELSE @]
  /\ missing' = [missing EXCEPT ![t] = @ \ {c}]
  /\ pc' = [pc EXCEPT ![t] = IF missing[t] = {c} THEN "idle" ELSE "missing"]
  /\ UNCHANGED <<now, readers, delta, when, todo, apply, limited, cur, seen, calls>>

\* update_counters: the limiter reports hits, whatever the limits are.
UpdateCounters(t, cs, d) ==
  /\ Begin(t)
  /\ pc' = [pc EXCEPT ![t] = "report"]
  /\ delta' = [delta EXCEPT ![t] = d]
  /\ todo' = [todo EXCEPT ![t] = cs]
  /\ UNCHANGED <<now, cells, readers, when, apply, missing, limited, cur, seen>>

UpdateCounter(t, c) ==
  /\ pc[t] = "report"
  /\ c \in todo[t]
  /\ AddLocked(c, delta[t])
  /\ forced' = [forced EXCEPT ![c] = delta[t] +
                  (IF c \notin present \/ Elapsed(c, now) THEN 0 ELSE @)]
  /\ todo' = [todo EXCEPT ![t] = @ \ {c}]
  /\ pc' = [pc EXCEPT ![t] = IF todo[t] = {c} THEN "idle" ELSE "report"]
  /\ UNCHANGED <<now, readers, delta, when, apply, missing, limited, cur, seen, calls>>
-----------------------------------------------------------------------------
\* add_counter: a limit without variables is added; its counter starts as the
\* default value does, at 0 and with the epoch as expiry.
AddCounter(c) ==
  /\ WriteLock
  /\ c \in Simple \ present
  /\ present' = present \cup {c}
  /\ value' = [value EXCEPT ![c] = 0]
  /\ expiry' = [expiry EXCEPT ![c] = 0]
  /\ forced' = [forced EXCEPT ![c] = 0]
  /\ UNCHANGED <<now, readers, pc, delta, when, todo, apply, missing, limited,
                 cur, seen, calls>>

(***************************************************************************)
(* The cells of cs leave the storage.  A thread that has a handle on one   *)
(* goes on to update a cell that nothing can reach any more: that update   *)
(* is dropped here.                                                        *)
(***************************************************************************)
Forget(cs) ==
  /\ present' = present \ cs
  /\ value' = [c \in Counters |-> IF c \in cs THEN 0 ELSE value[c]]
  /\ expiry' = [c \in Counters |-> IF c \in cs THEN 0 ELSE expiry[c]]
  /\ forced' = [c \in Counters |-> IF c \in cs THEN 0 ELSE forced[c]]
  /\ apply' = [t \in Threads |-> apply[t] \ cs]
  /\ cur' = [t \in Threads |-> cur[t] \ cs]
  /\ pc' = [t \in Threads |-> IF cur[t] \cap cs # {} THEN "apply" ELSE pc[t]]
  /\ UNCHANGED <<now, readers, delta, when, todo, missing, limited, seen, calls>>

\* delete_counters_of_limit, for a limit without and with variables; clear.
DeleteSimple(c) == WriteLock /\ c \in Simple \cap present /\ Forget({c})
DeleteQualified == Qualified \cap present # {} /\ Forget(Qualified)
Clear == WriteLock /\ Simple \cap present # {} /\ Forget(Simple)

\* The cache is full and lets a counter go.
Evict(c) == c \in Qualified \cap present /\ Forget({c})

Tick ==
  /\ now < MaxNow
  /\ now' = now + 1
  /\ UNCHANGED <<cells, readers, pc, delta, when, todo, apply, missing,
                 limited, cur, seen, calls>>

\* The callers may stop at any time no operation is running.
Quiesce == (\A t \in Threads : pc[t] = "idle") /\ UNCHANGED vars

Step(t) ==
  \/ \E c \in Counters :
       \/ AnnotatePresent(t, c)
       \/ AnnotateNew(t, c)
       \/ AnnotateMissing(t, c)
       \/ UpdateLive(t, c)
       \/ UpdateElapsed(t, c)
       \/ OpenWindow(t, c)
       \/ LoseExchange(t, c)
       \/ Store(t, c)
       \/ UpdateMissing(t, c)
       \/ UpdateCounter(t, c)
  \/ Deny(t)
  \/ Admit(t)
  \/ ReadUnlock(t)

Next ==
  \/ \E t \in Threads, cs \in Requests, d \in Deltas :
       CheckAndUpdate(t, cs, d) \/ UpdateCounters(t, cs, d)
  \/ \E t \in Threads : Step(t)
  \/ \E c \in Counters : AddCounter(c) \/ DeleteSimple(c) \/ Evict(c)
  \/ DeleteQualified
  \/ Clear
  \/ Tick
  \/ Quiesce

Spec == Init /\ [][Next]_vars
FairSpec == Spec /\ \A t \in Threads : WF_vars(Step(t))
-----------------------------------------------------------------------------
TypeOK ==
  /\ now \in Nat
  /\ present \subseteq Counters
  /\ value \in [Counters -> Nat]
  /\ expiry \in [Counters -> Nat]
  /\ forced \in [Counters -> Nat]
  /\ readers \subseteq Threads
  /\ pc \in [Threads -> {"idle", "annotate", "apply", "exchange", "store",
                         "missing", "report"}]
  /\ delta \in [Threads -> 0..MaxDelta]
  /\ when \in [Threads -> Nat]
  /\ todo \in [Threads -> SUBSET Counters]
  /\ apply \in [Threads -> SUBSET Counters]
  /\ missing \in [Threads -> SUBSET Simple]
  /\ limited \subseteq Threads
  /\ cur \in [Threads -> SUBSET Counters]
  /\ seen \in [Threads -> Nat]
  /\ calls \in Nat

\* The window of c is running, and no thread is about to reset its value.
Settled(c) ==
  /\ c \in present /\ expiry[c] > now
  /\ ~\E t \in Threads : pc[t] = "store" /\ c \in cur[t]

(***************************************************************************)
(* What the documentation of the crate says of this storage: it never goes *)
(* over a limit.  Hits that are reported rather than requested             *)
(* (`update_counter`) are not subject to the limit and are set apart.      *)
(***************************************************************************)
NeverOverLimit ==
  \A c \in Counters : Settled(c) => value[c] <= MaxValue[c] + forced[c]

Overshoot == MaxDelta * (Cardinality(Threads) - 1)

(***************************************************************************)
(* What the code does guarantee: the requests that run at the same time    *)
(* can each be admitted against the same value, so a running window holds  *)
(* at most the limit plus what all threads but one add at once.            *)
(***************************************************************************)
BoundedOvershoot ==
  \A c \in Counters : Settled(c) => value[c] <= MaxValue[c] + Overshoot + forced[c]

(***************************************************************************)
(* The strengthening that makes BoundedOvershoot inductive.                *)
(***************************************************************************)
\* The read lock is held from the first pass to the end of the second.
ReadersInside ==
  \A t \in Threads : pc[t] \in {"annotate", "apply", "exchange", "store"} => t \in readers

\* What each stage of an operation has left to do.
Stages ==
  \A t \in Threads :
    /\ pc[t] \in {"idle", "report"} => apply[t] = {} /\ missing[t] = {}
    /\ pc[t] = "missing" => apply[t] = {}
    /\ pc[t] \in {"apply", "exchange", "store", "missing"} => t \notin limited
    /\ pc[t] \notin {"exchange", "store"} => cur[t] = {}
    /\ pc[t] # "idle" => delta[t] > 0

\* A counter is on one of the lists of a request, and one window is opened
\* at a time.
OneList ==
  \A t \in Threads :
    /\ apply[t] \cap missing[t] = {}
    /\ (apply[t] \cup missing[t]) \cap todo[t] = {}
    /\ cur[t] \subseteq apply[t]
    /\ \A c, e \in cur[t] : c = e

\* The requests that have found room in c and have not added to it yet.
Pending(c) == {t \in Threads \ limited : c \in apply[t] \cup missing[t]}

\* A request that found room asks for no more than the whole limit.
FitsAlone == \A c \in Counters : \A t \in Pending(c) : delta[t] <= MaxValue[c]

\* The bound with what is still to be added already counted: MaxDelta for each
\* pending request, except that one of them, the last to find room, may have to be
\* counted with its own amount.
Room(c) == MaxValue[c] + Overshoot + forced[c]
Bound(c) ==
  \/ value[c] + MaxDelta * Cardinality(Pending(c)) <= Room(c)
  \/ \E t \in Pending(c) :
       value[c] + delta[t] + MaxDelta * Cardinality(Pending(c) \ {t}) <= Room(c)
PendingBounded == \A c \in Counters : Settled(c) => Bound(c)

(***************************************************************************)
(* The inductive invariant of the storage.                                 *)
(***************************************************************************)
IInv ==
  /\ TypeOK
  /\ ReadersInside
  /\ Stages
  /\ OneList
  /\ FitsAlone
  /\ PendingBounded

(***************************************************************************)
(* No operation gets stuck: every request is answered and every report is  *)
(* recorded, although threads that hold the read lock go on to ask for the *)
(* write lock.                                                             *)
(***************************************************************************)
OperationsFinish == \A t \in Threads : pc[t] # "idle" ~> pc[t] = "idle"
=============================================================================
