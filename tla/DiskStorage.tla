----------------------------- MODULE DiskStorage -----------------------------
(***************************************************************************)
(* The storage that keeps counters in RocksDB                              *)
(* (storage/disk/rocksdb_storage.rs, expiring_value.rs).                   *)
(*                                                                         *)
(* A write is a merge operand; RocksDB keeps the operands of a key and     *)
(* folds them with the merge operator when the key is read, or when it     *)
(* compacts, at any time it likes.  The operator reads the clock then, so  *)
(* what a key holds depends on when its operands were folded.  A write     *)
(* reads the key first and is left out when it would exceed the limit;     *)
(* other threads get in between.                                           *)
(*                                                                         *)
(* The clock counts fractions of a second; an expiry is stored in seconds. *)
(***************************************************************************)
EXTENDS Integers, SequencesExt

CONSTANTS
  Threads,   \* the server's threads
  Counters,  \* counters of one namespace, each of a limit of its own
  Requests,  \* the sets of counters a request may apply to
  MaxValue,  \* max_value of each counter's limit
  Seconds,   \* seconds of each counter's limit
  Amounts,   \* the amounts a request may add ...
  MaxAmount, \* ... and an upper bound of theirs
  Second,    \* how many instants a second has
  MaxNow,    \* bound: the last instant explored
  MaxCalls,  \* bound: how many operations are started
  MaxFolds   \* bound: compactions and restarts

ASSUME CountersAssumption ==
  /\ IsFiniteSet(Threads) /\ Requests \subseteq (SUBSET Counters) \ {{}}
  /\ MaxValue \in [Counters -> Nat] /\ Seconds \in [Counters -> Nat \ {0}]
ASSUME AmountsAssumption == MaxAmount \in Nat /\ Amounts \subseteq 1..MaxAmount
ASSUME BoundsAssumption ==
  Second \in Nat \ {0} /\ MaxNow \in Nat /\ MaxCalls \in Nat /\ MaxFolds \in Nat

VARIABLES
  now,     \* the clock
  db,      \* the operands of each key, the oldest first
  limits,  \* the limits in the registry, by their counter
  pc,      \* where each thread is in its operation
  call,    \* the arguments and locals of that operation
  todo,    \* the counters it has not come to yet
  calls,   \* operations started so far
  folds,   \* compactions and restarts so far
  hits,    \* history: the hits written to each counter, since it was deleted
  marks    \* history: what happened that a property is about

vars == <<now, db, limits, pc, call, todo, calls, folds, hits, marks>>

NoCall == [kind |-> "none", cs |-> {}, amount |-> 0, when |-> 0, limited |-> FALSE, key |-> {}]

Init ==
  /\ now = 1             \* any time but the epoch
  /\ db = [c \in Counters |-> <<>>]
  /\ limits = Counters
  /\ pc = [t \in Threads |-> "idle"]
  /\ call = [t \in Threads |-> NoCall]
  /\ todo = [t \in Threads |-> {}]
  /\ calls = 0 /\ folds = 0
  /\ hits = [c \in Counters |-> {}]
  /\ marks = {}
-----------------------------------------------------------------------------
\* ExpiringValue.

Default == [value |-> 0, expiry |-> 0]
ValueAt(v, w) == IF v.expiry <= w THEN 0 ELSE v.value

\* The stored form of an expiry has no fraction of a second.
Encode(e) == (e \div Second) * Second

\* Faulty variant of Merge: the later operand replaces the earlier.
MergeReplacing(v, o, w) == o

Merge(v, o, w) ==
  IF v.expiry > w THEN [value |-> v.value + o.value, expiry |-> v.expiry] ELSE o

\* The merge operator over a run of operands, evaluated at w.
Fold(ops, w) == FoldLeft(LAMBDA v, o : Merge(v, o, w), Default, ops)

\* What `get` returns now, and what it is worth.
Stored(c) == Fold(db[c], now)
Reading(c) == ValueAt(Stored(c), now)
-----------------------------------------------------------------------------
Begin(t) == pc[t] = "idle" /\ calls < MaxCalls /\ calls' = calls + 1
Goto(t, l) == pc' = [pc EXCEPT ![t] = l]
Return(t) ==
  /\ Goto(t, "idle")
  /\ call' = [call EXCEPT ![t] = NoCall]
  /\ todo' = [todo EXCEPT ![t] = {}]

\* An operation on the counters cs begins: check_and_update evaluates them first,
\* update_counter (`report`) and the touch of `reserve` write at once.
Call(t, k, cs, a) ==
  /\ Begin(t)
  /\ Goto(t, IF k = "check" THEN "evaluate" ELSE "get")
  /\ call' = [call EXCEPT ![t] = [NoCall EXCEPT !.kind = k, !.cs = cs, !.amount = a]]
  /\ todo' = [todo EXCEPT ![t] = cs]
  /\ UNCHANGED <<now, db, limits, folds, hits, marks>>

CheckAndUpdate(t, cs, a) == Call(t, "check", cs, a)
UpdateCounter(t, c, a) == Call(t, "report", {c}, a)
Reserve(t, cs) == Call(t, "touch", cs, 0)

\* evaluate: one `get` for each counter.
Evaluate(t, c) ==
  LET limited == call[t].limited \/ MaxValue[c] < Reading(c) + call[t].amount
      last    == todo[t] = {c} IN
  /\ pc[t] = "evaluate" /\ c \in todo[t]
  /\ IF last /\ limited
     THEN Return(t)
     ELSE /\ Goto(t, IF last THEN "get" ELSE "evaluate")
          /\ call' = [call EXCEPT ![t].limited = limited]
          /\ todo' = [todo EXCEPT ![t] = IF last THEN call[t].cs ELSE @ \ {c}]
  /\ UNCHANGED <<now, db, limits, calls, folds, hits, marks>>

\* On to the next counter, or done.
Proceed(t, c) ==
  IF todo[t] = {c} THEN Return(t)
  ELSE /\ Goto(t, "get")
       /\ call' = [call EXCEPT ![t].key = {}]
       /\ todo' = [todo EXCEPT ![t] = @ \ {c}]

\* Faulty variant of Fits: the amount is not part of the comparison.
FitsAlready(c, a) == Reading(c) <= MaxValue[c]
Fits(c, a) == Reading(c) + a <= MaxValue[c]

\* insert_or_update reads the clock and the key ...
Get(t, c) ==
  /\ pc[t] = "get" /\ c \in todo[t]
  /\ Fits(c, call[t].amount)
  /\ Goto(t, "merge")
  /\ call' = [call EXCEPT ![t].when = now, ![t].key = {c}]
  /\ UNCHANGED <<now, db, limits, todo, calls, folds, hits, marks>>

\* ... and writes nothing at all when the limit would be exceeded ...
Skip(t, c) ==
  /\ pc[t] = "get" /\ c \in todo[t]
  /\ ~Fits(c, call[t].amount)
  /\ Proceed(t, c)
  /\ marks' = IF call[t].kind = "report" THEN marks \cup {"unreported"} ELSE marks
  /\ UNCHANGED <<now, db, limits, calls, folds, hits>>

Operand(t, c) ==
  [value |-> call[t].amount, expiry |-> Encode(call[t].when + Seconds[c] * Second)]

\* ... otherwise it appends an operand.  A hit counts in the window the key is in
\* by then; a thread that was held up writes an operand that ends before that.
MergeKey(t, c) ==
  LET ops   == Append(db[c], Operand(t, c))
      until == Fold(ops, now).expiry
      hit   == [nr |-> Cardinality(hits[c]), amount |-> call[t].amount, at |-> now, until |-> until]
  IN
  /\ pc[t] = "merge" /\ call[t].key = {c}
  /\ db' = [db EXCEPT ![c] = ops]
  /\ hits' = [hits EXCEPT ![c] = IF hit.amount > 0 THEN @ \cup {hit} ELSE @]
  /\ marks' = IF Operand(t, c).expiry < until \/ until <= now
              THEN marks \cup {"delayed"} ELSE marks
  /\ Proceed(t, c)
  /\ UNCHANGED <<now, limits, calls, folds>>
-----------------------------------------------------------------------------
\* Listing and deleting.

\* get_counters goes through all entries of the namespace and expects each to be
\* of one of the limits it was given.
Foreign(ls) == \E c \in Counters \ ls : db[c] # <<>>
Listing(ls) == {c \in ls : Stored(c).expiry > now}

GetCounters(t) ==
  /\ Begin(t)
  /\ marks' = IF Foreign(limits) THEN marks \cup {"panic"} ELSE marks
  /\ UNCHANGED <<now, db, limits, pc, call, todo, folds, hits>>

\* Storage::delete_limit: delete_counters lists the counters of that one limit
\* and deletes them, then the limit leaves the registry.
DeleteLimit(t, c) ==
  /\ Begin(t)
  /\ c \in limits
  /\ IF Foreign({c})
     THEN marks' = marks \cup {"panic"} /\ UNCHANGED <<pc, call, todo, limits>>
     ELSE /\ Goto(t, "delete")
          /\ call' = [call EXCEPT ![t] = [NoCall EXCEPT !.kind = "delete", !.cs = {c}]]
          /\ todo' = [todo EXCEPT ![t] = Listing({c})]
          /\ UNCHANGED <<limits, marks>>
  /\ UNCHANGED <<now, db, folds, hits>>

\* clear goes through a snapshot of the keys.
Clear(t) ==
  /\ Begin(t)
  /\ Goto(t, "delete")
  /\ call' = [call EXCEPT ![t] = [NoCall EXCEPT !.kind = "clear"]]
  /\ todo' = [todo EXCEPT ![t] = {c \in Counters : db[c] # <<>>}]
  /\ UNCHANGED <<now, db, limits, folds, hits, marks>>

Delete(t, c) ==
  /\ pc[t] = "delete" /\ c \in todo[t]
  /\ db' = [db EXCEPT ![c] = <<>>]
  /\ hits' = [hits EXCEPT ![c] = {}]
  /\ todo' = [todo EXCEPT ![t] = @ \ {c}]
  /\ UNCHANGED <<now, limits, pc, call, calls, folds, marks>>

Deleted(t) ==
  /\ pc[t] = "delete" /\ todo[t] = {}
  /\ limits' = limits \ call[t].cs
  /\ Return(t)
  /\ UNCHANGED <<now, db, calls, folds, hits, marks>>
-----------------------------------------------------------------------------
\* The database and the environment.

\* A compaction folds two operands, or drops a folded value that is worth nothing
\* (the filter of OptimizeFor::Space).
Compact(c) ==
  /\ folds < MaxFolds
  /\ folds' = folds + 1
  /\ \/ \E i \in 1..(Len(db[c]) - 1) :
          db' = [db EXCEPT ![c] =
            ReplaceAt(RemoveAt(@, i + 1), i, Fold(<<@[i], @[i + 1]>>, now))]
     \/ /\ Len(db[c]) = 1 /\ Reading(c) = 0
        /\ db' = [db EXCEPT ![c] = <<>>]
  /\ UNCHANGED <<now, limits, pc, call, todo, calls, hits, marks>>

\* The process stops and RocksDbStorage::open finds what was written; the limits
\* come from the configuration again.
Restart ==
  /\ folds < MaxFolds
  /\ folds' = folds + 1
  /\ pc' = [t \in Threads |-> "idle"]
  /\ call' = [t \in Threads |-> NoCall]
  /\ todo' = [t \in Threads |-> {}]
  /\ limits' = Counters
  /\ UNCHANGED <<now, db, calls, hits, marks>>

\* Hits that no window can count any more are forgotten by the history.
Tick ==
  /\ now < MaxNow
  /\ now' = now + 1
  /\ hits' = [c \in Counters |-> {h \in hits[c] : h.at + Seconds[c] * Second > now + 1}]
  /\ UNCHANGED <<db, limits, pc, call, todo, calls, folds, marks>>

Quiesce == (\A t \in Threads : pc[t] = "idle") /\ UNCHANGED vars

Next ==
  \/ \E t \in Threads :
       \/ \E cs \in Requests : cs \subseteq limits /\
            (Reserve(t, cs) \/ \E a \in Amounts : CheckAndUpdate(t, cs, a))
       \/ \E c \in limits, a \in Amounts : UpdateCounter(t, c, a)
       \/ \E c \in Counters :
            \/ Evaluate(t, c) \/ Get(t, c) \/ Skip(t, c) \/ MergeKey(t, c)
            \/ DeleteLimit(t, c) \/ Delete(t, c)
       \/ GetCounters(t) \/ Clear(t) \/ Deleted(t)
  \/ \E c \in Counters : Compact(c)
  \/ Restart
  \/ Tick
  \/ Quiesce

Spec == Init /\ [][Next]_vars
-----------------------------------------------------------------------------
Values == [value : Nat, expiry : Nat]
\* The types; a thread writes to a key of its request that it has not done yet.
TypeOK ==
  /\ now \in Nat
  /\ \A c \in Counters : db[c] \in Seq(Values)
  /\ limits \subseteq Counters
  /\ pc \in [Threads -> {"idle", "evaluate", "get", "merge", "delete"}]
  /\ call \in [Threads -> [kind : STRING, cs : SUBSET Counters, amount : Nat, when : Nat,
                           limited : BOOLEAN, key : SUBSET Counters]]
  /\ todo \in [Threads -> SUBSET Counters]
  /\ \A t \in Threads : call[t].key \subseteq todo[t] /\ (pc[t] = "merge" <=> call[t].key # {})
  /\ calls \in Nat /\ folds \in Nat
  /\ \A c \in Counters : \A h \in hits[c] : h.amount \in Nat /\ h.at <= now
  /\ marks \subseteq {"unreported", "delayed", "panic"}

Sum(hs) == MapThenSumSet(LAMBDA h : h.amount, hs)

(***************************************************************************)
(* Each write is compared with what the key was worth when it was read, so *)
(* however reads, writes and compactions interleave, a key exceeds its     *)
(* limit by at most what all threads but one write at once.                *)
(***************************************************************************)
BoundedOvershoot ==
  \A c \in Counters : Reading(c) <= MaxValue[c] + MaxAmount * (Cardinality(Threads) - 1)


(***************************************************************************)
(* A hit that was written counts until the end of the window it was        *)
(* written in, over compactions and restarts, unless a thread was held up  *)
(* between reading the clock and writing and another opened that window.   *)
(***************************************************************************)
HitsKept ==
  "delayed" \notin marks =>
    \A c \in Counters : Reading(c) >= Sum({h \in hits[c] : h.until > now})

(***************************************************************************)
(* A commit "unconditionally applies `actual_amount`" to its counters, as  *)
(* the documentation of commit_reservation says.                           *)
(***************************************************************************)
ReportsApplied == "unreported" \notin marks

(***************************************************************************)
(* The entries get_counters finds are of the limits it was given: it       *)
(* expects each of them to get its `expires_in` from one.                  *)
(***************************************************************************)
ListingNeverPanics == "panic" \notin marks
=============================================================================
