------------------------- MODULE CachedRedisStorage -------------------------
(***************************************************************************)
(* Several Limitador instances that share one Redis, each with a local     *)
(* cache of the counters (limitador/src/storage/redis/redis_cached.rs and  *)
(* the CountersCache of counters_cache.rs): what check, check_and_update,  *)
(* update_counter and reserve decide on cached, cold and evicted counters, *)
(* and what the flushes of the instances make of it in Redis.              *)
(*                                                                         *)
(* The module looks at one window of the counters, in which no ttl runs    *)
(* out.  One access to a cached value is one step; module CachedCounter    *)
(* takes these apart, with the window's end, and module Batcher the queue. *)
(* Redis runs a script at once, and everything between two awaits of the   *)
(* flush task is a step.                                                   *)
(***************************************************************************)
EXTENDS Integers, Sequences, FiniteSetsExt

CONSTANTS
    Instances,    \* the Limitador processes
    Tasks,        \* the tasks that serve requests
    At,           \* the instance of each task
    Counters,
    Requests,     \* the sets of counters a request may apply to
    MaxValue,     \* max_value of the limits
    Deltas,       \* the amounts of the requests
    MaxCalls,     \* bound on the calls
    MaxFaults     \* bound on evictions, failures of Redis and deletions

ASSUME TasksAssumption == At \in [Tasks -> Instances]
ASSUME RequestsAssumption == Requests \subseteq (SUBSET Counters) \ {{}}
ASSUME AmountsAssumption == MaxValue \in Nat /\ Deltas \subseteq Nat \ {0}

VARIABLES
    redis,        \* the counters' values in Redis
    cell,         \* the CachedCounterValue of each instance and counter
    cached,       \* the counters in each instance's cache ...
    queued,       \* ... and in its batcher; a cell lives while it is in one
    flush,        \* each instance's flush task
    partitioned,  \* each instance's flag, the datastore_partitioned gauge
    holds,        \* each instance's LocalReservationRegistry
    call,         \* each task's call
    denial,       \* the request this step denies
    calls,        \* how many calls have been made
    faults,       \* how many faults have happened
    admitted,     \* history: the hits that check_and_update let pass ...
    reported,     \* ... and those of update_counter
    starts,       \* history: how often a cell was started from nothing
    latest,       \* history: the instance whose flush was the last, or None
    marks         \* history: why Redis may not hold what was counted

localVars == <<cell, cached, queued>>
ghosts == <<admitted, reported, starts, latest, marks>>
vars == <<redis, localVars, flush, partitioned, holds, call, denial, calls,
          faults, ghosts>>

None == "None"
Blank == [value |-> 0, initial |-> 0]
Idle == [op |-> None, on |-> {}, delta |-> 0, todo |-> {}, found |-> <<>>]
NoDenial == [op |-> None]
NoFlush == [pc |-> "waiting", batch |-> {}, sent |-> <<>>, got |-> <<>>]
Zero == [c \in Counters |-> 0]

Init ==
    /\ redis = Zero
    /\ cell = [i \in Instances |-> [c \in Counters |-> Blank]]
    /\ cached = [i \in Instances |-> {}] /\ queued = [i \in Instances |-> {}]
    /\ flush = [i \in Instances |-> NoFlush]
    /\ partitioned = [i \in Instances |-> FALSE]
    /\ holds = [i \in Instances |-> {}]
    /\ call = [t \in Tasks |-> Idle]
    /\ denial = NoDenial
    /\ calls = 0 /\ faults = 0
    /\ admitted = Zero /\ reported = Zero /\ starts = Zero
    /\ latest = [c \in Counters |-> None] /\ marks = {}

Fault == faults < MaxFaults /\ faults' = faults + 1

-----------------------------------------------------------------------------
(* Calls.                                                                  *)

(* Faulty variant of Get: what is only queued is not found.                *)
GetCached(i, c) == c \in cached[i]

(* CountersCache::get finds a counter in the cache, or in the batcher ...  *)
Get(i, c) == c \in cached[i] \cup queued[i]

(* ... and puts the latter back into the cache.                            *)
Recache(i, on) == cached' = [cached EXCEPT ![i] = @ \cup (on \cap queued[i])]

(* annotate_cached: the counters it finds, with their values.              *)
AnnotateCached(i, on) == [c \in {d \in on : Get(i, d)} |-> cell[i][c].value]

(* CachedCounterValue::is_limited, and the checks on missing counters.     *)
Fits(value, delta) == value + delta <= MaxValue

(* The value of c, out of those found or, when it is missing, from `miss`. *)
Value(found, c, miss) == IF c \in DOMAIN found THEN found[c] ELSE miss


(* check_assuming_fresh_misses: a missing counter is taken for a new one.  *)
Fresh == 0

Answers(t, result, op, on, delta) ==
    /\ denial' = IF result # "Limited" THEN NoDenial
                 ELSE [op |-> op, on |-> on, delta |-> delta, at |-> At[t]]
    /\ call' = [call EXCEPT ![t] = Idle]

Arrives(t) == call[t] = Idle /\ calls < MaxCalls /\ calls' = calls + 1

(* check_and_update: denied, or admitted and about to increase.            *)
CheckAndUpdate(t, on, delta) ==
    LET found == AnnotateCached(At[t], on)
    IN  /\ Arrives(t) /\ Recache(At[t], on)
        /\ IF \A c \in on : Fits(Value(found, c, Fresh), delta)
           THEN /\ call' = [call EXCEPT ![t] =
                     [Idle EXCEPT !.op = "increase", !.on = on, !.delta = delta, !.todo = on]]
                /\ denial' = NoDenial
           ELSE Answers(t, "Limited", "check_and_update", on, delta)
        /\ UNCHANGED <<redis, cell, queued, flush, partitioned, holds, faults, ghosts>>

(* CountersCache::increase_by, with the batcher's add: a cell neither      *)
(* cached nor queued starts at 0.                                          *)
IncreaseBy(i, c, delta) ==
    /\ cell' = [cell EXCEPT ![i][c] =
          [IF Get(i, c) THEN @ ELSE Blank EXCEPT !.value = @ + delta]]
    /\ cached' = [cached EXCEPT ![i] = @ \cup {c}]
    /\ queued' = [queued EXCEPT ![i] = @ \cup {c}]
    /\ starts' = [starts EXCEPT ![c] = IF Get(i, c) THEN @ ELSE @ + 1]

(* The counters of an admitted call, one after the other.                  *)
Increase(t) ==
    /\ call[t].op = "increase"
    /\ \E c \in call[t].todo :
         /\ IncreaseBy(At[t], c, call[t].delta)
         /\ admitted' = [admitted EXCEPT ![c] = @ + call[t].delta]
         /\ IF call[t].todo = {c}
            THEN Answers(t, "Ok", "check_and_update", call[t].on, call[t].delta)
            ELSE denial' = NoDenial /\ call' = [call EXCEPT ![t].todo = @ \ {c}]
    /\ UNCHANGED <<redis, flush, partitioned, holds, calls, faults, reported,
                   latest, marks>>

(* update_counter                                                          *)
UpdateCounter(t, c, delta) ==
    /\ Arrives(t) /\ IncreaseBy(At[t], c, delta)
    /\ reported' = [reported EXCEPT ![c] = @ + delta]
    /\ denial' = NoDenial
    /\ UNCHANGED <<redis, flush, partitioned, holds, call, faults, admitted,
                   latest, marks>>

(* check and reserve look for the cached counters, and then await Redis    *)
(* for the missing ones.                                                   *)
Look(t, op, on, delta) ==
    /\ Arrives(t) /\ Recache(At[t], on)
    /\ call' = [call EXCEPT ![t] =
          [Idle EXCEPT !.op = op, !.on = on, !.delta = delta,
                       !.found = AnnotateCached(At[t], on)]]
    /\ denial' = NoDenial
    /\ UNCHANGED <<redis, cell, queued, flush, partitioned, holds, faults, ghosts>>

(* values_and_window_ttls, for the counters that are missing.              *)
ReadMisses(found, c) == Value(found, c, redis[c])

(* check_reading_misses                                                    *)
CheckReadingMisses(t) ==
    LET fits == \A c \in call[t].on : Fits(ReadMisses(call[t].found, c), call[t].delta)
    IN  /\ call[t].op = "check"
        /\ Answers(t, IF fits THEN "Ok" ELSE "Limited", "check", call[t].on, call[t].delta)
        /\ UNCHANGED <<redis, localVars, flush, partitioned, holds, calls, faults, ghosts>>

(* LocalReservationRegistry::outstanding                                   *)
Outstanding(i, c) ==
    FoldSet(LAMBDA h, sum : sum + h.amount, 0, {h \in holds[i] : c \in h.on})

(* What a reservation finds used or held of a counter.                     *)
Claimed(t, c) == ReadMisses(call[t].found, c) + Outstanding(At[t], c)

Reserve(t) ==
    LET fits == \A c \in call[t].on : Fits(Claimed(t, c), call[t].delta)
    IN  /\ call[t].op = "reserve"
        /\ Answers(t, IF fits THEN "Ok" ELSE "Limited", "reserve", call[t].on, call[t].delta)
        /\ holds' = [holds EXCEPT ![At[t]] =
              IF fits
              THEN @ \cup {[id |-> <<t, calls>>, on |-> call[t].on, amount |-> call[t].delta]}
              ELSE @]
        /\ UNCHANGED <<redis, localVars, flush, partitioned, calls, faults, ghosts>>

(* Reading the missing counters fails.                                     *)
ReadFails(t) ==
    /\ call[t].op \in {"check", "reserve"} /\ call[t].on # DOMAIN call[t].found
    /\ Fault /\ Answers(t, "Error", call[t].op, call[t].on, call[t].delta)
    /\ UNCHANGED <<redis, localVars, flush, partitioned, holds, calls, ghosts>>

(* release_reservation, or a hold's end.                                   *)
ReleaseReservation(i) ==
    /\ \E h \in holds[i] : holds' = [holds EXCEPT ![i] = @ \ {h}]
    /\ denial' = NoDenial
    /\ UNCHANGED <<redis, localVars, flush, partitioned, call, calls, faults, ghosts>>

-----------------------------------------------------------------------------
(* The flush task.                                                         *)

Pending(i, c) == cell[i][c].value - cell[i][c].initial

(* Cells that are neither cached nor queued are gone.                      *)
Swept(i, cells) ==
    [cell EXCEPT ![i] = [c \in Counters |->
        IF c \in cached'[i] \cup queued'[i] THEN cells[c] ELSE Blank]]
Forgotten(i) ==
    latest' = [c \in Counters |->
        IF latest[c] = i /\ c \notin cached'[i] \cup queued'[i] THEN None ELSE latest[c]]

(* consume and the first half of update_counters: the writes are taken.    *)
(* Module Batcher says which; the flush of an empty queue changes nothing  *)
(* (see PartitionHonest).                                                  *)
Take(i) ==
    /\ flush[i].pc = "waiting"
    /\ \E batch \in SUBSET queued[i] :
         /\ batch # {}
         /\ flush' = [flush EXCEPT ![i] =
               [pc |-> "sent", batch |-> batch, got |-> <<>>,
                sent |-> [c \in {d \in batch : Pending(i, d) > 0} |->
                             [delta |-> Pending(i, c), last |-> cell[i][c].value]]]]
         /\ cell' = [cell EXCEPT ![i] = [c \in Counters |->
               IF c \in batch THEN [cell[i][c] EXCEPT !.initial = cell[i][c].value]
               ELSE cell[i][c]]]
    /\ denial' = NoDenial
    /\ UNCHANGED <<redis, cached, queued, partitioned, holds, call, calls, faults, ghosts>>

Sent(i) == DOMAIN flush[i].sent

(* BATCH_UPDATE_COUNTERS                                                   *)
Incrby(i) ==
    redis' = [c \in Counters |->
        redis[c] + IF c \in Sent(i) THEN flush[i].sent[c].delta ELSE 0]

BatchUpdateCounters(i) ==
    /\ flush[i].pc = "sent" /\ Incrby(i)
    /\ flush' = [flush EXCEPT ![i].pc = "answered",
                              ![i].got = [c \in Sent(i) |-> redis'[c]]]
    /\ latest' = [c \in Counters |-> IF c \in Sent(i) THEN i ELSE latest[c]]
    /\ denial' = NoDenial
    /\ UNCHANGED <<localVars, partitioned, holds, call, calls, faults, admitted,
                   reported, starts, marks>>

(* Redis fails: before the script runs or after, or beyond recovery.       *)
RedisFails(i) ==
    /\ flush[i].pc = "sent" /\ Fault
    /\ \/ /\ flush' = [flush EXCEPT ![i].pc = "failed"]
          /\ UNCHANGED <<redis, marks>>
       \/ /\ Sent(i) # {} /\ Incrby(i)
          /\ flush' = [flush EXCEPT ![i].pc = "failed"]
          /\ marks' = marks \cup {"answer"}
       \/ /\ flush' = [flush EXCEPT ![i] = [NoFlush EXCEPT !.pc = "panicked"]]
          /\ marks' = marks \cup {"panicked"} /\ UNCHANGED redis
    /\ denial' = NoDenial
    /\ UNCHANGED <<localVars, partitioned, holds, call, calls, admitted, reported,
                   starts, latest>>

(* Faulty variant of Remote: the answer is taken for what others wrote.    *)
RemoteAll(i, c) == flush[i].got[c]

(* The second half of update_counters: what others have written.           *)
Remote(i, c) == Max({flush[i].got[c] - flush[i].sent[c].last, 0})

(* Faulty variant of Removable: the whole batch leaves the queue.          *)
RemovableAll(i) == flush[i].batch

(* The counters of the batch that the end of consume removes.              *)
Removable(i) == {c \in flush[i].batch : Pending(i, c) = 0}

(* apply_remote_delta: to the cell at hand, or to a new one.               *)
ApplyRemoteDelta(i, c) ==
    IF c \in cached[i] \cup queued'[i]
    THEN [value |-> cell[i][c].value + Remote(i, c),
          initial |-> cell[i][c].initial + Remote(i, c)]
    ELSE [value |-> flush[i].got[c], initial |-> flush[i].got[c]]

Flushed(i) ==
    /\ flush[i].pc = "answered"
    /\ flush' = [flush EXCEPT ![i] = NoFlush]
    /\ partitioned' = [partitioned EXCEPT ![i] = FALSE]
    /\ queued' = [queued EXCEPT ![i] = @ \ Removable(i)]
    /\ cached' = [cached EXCEPT ![i] = @ \cup Sent(i)]
    /\ cell' = Swept(i, [c \in Counters |->
          IF c \in Sent(i) THEN ApplyRemoteDelta(i, c) ELSE cell[i][c]])
    /\ starts' = [c \in Counters |->
          starts[c] + IF c \in Sent(i) \ (cached[i] \cup queued'[i]) THEN 1 ELSE 0]
    /\ Forgotten(i) /\ denial' = NoDenial
    /\ UNCHANGED <<redis, holds, call, calls, faults, admitted, reported, marks>>

(* revert_writes: not when they are all there ever were.                   *)
RevertWrites(i, c) ==
    [cell[i][c] EXCEPT !.initial = IF @ > flush[i].sent[c].delta
                                   THEN @ - flush[i].sent[c].delta ELSE @]

(* Faulty variant of AfterFailure: the batch leaves the queue all the same. *)
AfterFailureNone(i) == queued[i] \ flush[i].batch

(* consume passes a flush's error on before it removes anything.           *)
AfterFailure(i) == queued[i]

(* A transient error: the batch stays queued, return_pending_writes.       *)
FlushFails(i) ==
    LET kept == {c \in Sent(i) : cell[i][c].initial <= flush[i].sent[c].delta}
    IN  /\ flush[i].pc = "failed"
        /\ flush' = [flush EXCEPT ![i] = NoFlush]
        /\ partitioned' = [partitioned EXCEPT ![i] = TRUE]
        /\ cached' = [cached EXCEPT ![i] = @ \cup Sent(i)]
        /\ queued' = [queued EXCEPT ![i] = AfterFailure(i)]
        /\ cell' = [cell EXCEPT ![i] = [c \in Counters |->
              IF c \in Sent(i) THEN RevertWrites(i, c) ELSE cell[i][c]]]
        /\ marks' = IF kept = {} THEN marks ELSE marks \cup {"kept"}
        /\ denial' = NoDenial
        /\ UNCHANGED <<redis, holds, call, calls, faults, admitted, reported,
                       starts, latest>>

-----------------------------------------------------------------------------
(* The cache evicts a counter; whatever it has pending is still queued.    *)
Evict(i, c) ==
    /\ c \in cached[i] /\ Fault
    /\ cached' = [cached EXCEPT ![i] = @ \ {c}] /\ UNCHANGED queued
    /\ cell' = Swept(i, cell[i]) /\ Forgotten(i)
    /\ denial' = NoDenial
    /\ UNCHANGED <<redis, flush, partitioned, holds, call, calls, admitted,
                   reported, starts, marks>>

(* delete_counters of a limit and clear, which leave the caches alone.     *)
Forget(gone) ==
    /\ Fault
    /\ redis' = [c \in Counters |-> IF c \in gone THEN 0 ELSE redis[c]]
    /\ marks' = marks \cup {"deleted"} /\ denial' = NoDenial
    /\ UNCHANGED <<localVars, flush, partitioned, holds, call, calls, admitted,
                   reported, starts, latest>>
DeleteCounters == \E c \in Counters : Forget({c})
Clear == Forget(Counters)

-----------------------------------------------------------------------------
FlushTask(i) ==
    Take(i) \/ BatchUpdateCounters(i) \/ Flushed(i) \/ FlushFails(i)

Serve(t) ==
    \/ \E on \in Requests, delta \in Deltas :
         \/ CheckAndUpdate(t, on, delta)
         \/ \E op \in {"check", "reserve"} : Look(t, op, on, delta)
    \/ \E c \in Counters, delta \in Deltas : UpdateCounter(t, c, delta)
    \/ Increase(t) \/ CheckReadingMisses(t) \/ Reserve(t) \/ ReadFails(t)

(* Nothing is left to do.                                                  *)
Quiesce ==
    /\ calls = MaxCalls /\ \A t \in Tasks : call[t] = Idle
    /\ \A i \in Instances : queued[i] = {} \/ flush[i].pc = "panicked"
    /\ UNCHANGED vars

Next ==
    \/ \E t \in Tasks : Serve(t)
    \/ \E i \in Instances :
         \/ FlushTask(i) \/ RedisFails(i) \/ ReleaseReservation(i)
         \/ \E c \in Counters : Evict(i, c)
    \/ DeleteCounters \/ Clear \/ Quiesce

Spec == Init /\ [][Next]_vars

-----------------------------------------------------------------------------
(* Properties.                                                             *)

Total(c) == admitted[c] + reported[c]

(* The types.  A flush task never takes back more than it took.            *)
TypeOK ==
    /\ redis \in [Counters -> Nat]
    /\ cell \in [Instances -> [Counters -> [value : Nat, initial : Nat]]]
    /\ \A i \in Instances :
         /\ cached[i] \cup queued[i] \subseteq Counters
         /\ \A c \in Counters : cell[i][c].initial <= cell[i][c].value
         /\ flush[i].pc \in {"waiting", "sent", "answered", "failed", "panicked"}
         /\ Sent(i) \subseteq flush[i].batch /\ flush[i].batch \subseteq queued[i]
    /\ partitioned \in [Instances -> BOOLEAN]
    /\ calls \in 0..MaxCalls /\ faults \in 0..MaxFaults
    /\ marks \subseteq {"answer", "kept", "panicked", "deleted"}

(* "We can go over limits", and by how much: every time a counter starts   *)
(* cold in an instance, one more max_value can pass, and the concurrent    *)
(* requests of an instance exceed it by one delta for each but one.        *)
BoundedOvershoot ==
    LET tasks == Max({Cardinality({t \in Tasks : At[t] = i}) : i \in Instances})
    IN  \A c \in Counters :
            admitted[c] <= starts[c] * (MaxValue + (tasks - 1) * Max(Deltas))


(* Every hit of every instance is in Redis, in flight or pending, once.    *)
CountedOnce ==
    LET InFlight(i, c) == IF flush[i].pc \in {"sent", "failed"} /\ c \in Sent(i)
                          THEN flush[i].sent[c].delta ELSE 0
    IN  marks = {} => \A c \in Counters :
            redis[c] + FoldSet(LAMBDA i, sum : sum + Pending(i, c) + InFlight(i, c),
                               0, Instances) = Total(c)

(* "A wrong guess is corrected in full by the very next flush": the        *)
(* instance that flushed a counter last knows what is in Redis, and has on *)
(* top of it just what it has pending.                                     *)
CorrectedByFlush ==
    marks = {} => \A i \in Instances, c \in Counters :
        latest[c] = i /\ c \notin Sent(i) => cell[i][c].initial = redis[c]

(* A partition is resolved only by an answer of Redis: while it lasts      *)
(* there is something queued, and no flush is an empty one.                *)
PartitionHonest == \A i \in Instances : partitioned[i] => queued[i] # {}
=============================================================================
