---------------------------- MODULE CachedCounter ----------------------------
(***************************************************************************)
(* One counter of the Redis storage with a local cache, in one Limitador   *)
(* instance: CachedCounterValue, Batcher and CountersCache                 *)
(* (storage/redis/counters_cache.rs) and the flush task of                 *)
(* storage/redis/redis_cached.rs, with Redis and the other instances as    *)
(* the environment.                                                        *)
(*                                                                         *)
(* A cached value is a cell shared by reference: the cache holds one, the  *)
(* batcher's queue holds one, normally the same.  Requests add to a cell   *)
(* and queue it; the flusher takes the writes of the queued cell, sends    *)
(* them to Redis and folds the answer back, or hands the writes back when  *)
(* Redis fails.  One step is one access to shared memory; the window       *)
(* counter's own `update` is a single step here and is taken apart in      *)
(* AtomicExpiringValue.                                                    *)
(***************************************************************************)
EXTENDS Integers, FiniteSetsExt

CONSTANTS
  Threads,    \* the request tasks
  Flusher,    \* the flush task
  None,       \* no cell, no lock holder
  Cells,      \* identities of cached values
  Deltas,     \* the amounts a request may add
  MaxValue,   \* max_value of the limit
  Window,     \* seconds of the limit
  MaxNow,     \* bound: the last instant explored
  MaxCalls,   \* bound: requests, and writes of other instances
  MaxFaults   \* bound: evictions, failed flushes and deletions

ASSUME ProcsAssumption == Flusher \notin Threads /\ None \notin Threads \cup {Flusher}
ASSUME CellsAssumption == Cells \subseteq Nat /\ None \notin Cells
ASSUME AmountsAssumption == Deltas \subseteq Nat /\ MaxValue \in Nat /\ Window \in Nat \ {0}
ASSUME BoundsAssumption == MaxNow \in Nat /\ MaxCalls \in Nat /\ MaxFaults \in Nat

VARIABLES
  now,       \* the clock
  redis,     \* the counter's key: its value and when it expires
  cell,      \* each cell: value, expiry and initial_value
  cache,     \* the cell CountersCache has for the counter
  queue,     \* the cell Batcher.updates has for it
  shard,     \* who holds the queue's entry locked across steps
  pc,        \* where each task is
  reg,       \* its local variables
  calls,     \* requests so far
  faults,    \* faults so far
  hits,      \* history: hits this instance counted ...
  remote,    \* ... and those others wrote
  marks      \* history: what happened that may cost or double hits

vars == <<now, redis, cell, cache, queue, shard, pc, reg, calls, faults,
          hits, remote, marks>>
history == <<hits, remote>>

Procs == Threads \cup {Flusher}

\* The locals of a task: its Arc, the amount it adds or took, and what it read.
NoReg == [arc |-> None, amount |-> 0, start |-> 0, val |-> 0, ends |-> 0]
Blank == [value |-> 0, expiry |-> 0, initial |-> 0]

Init ==
  /\ now = 0
  /\ redis = [value |-> 0, expiry |-> 0]
  /\ cell = [c \in Cells |-> Blank]
  /\ cache = None
  /\ queue = None
  /\ shard = None
  /\ pc = [p \in Procs |-> "idle"]
  /\ reg = [p \in Procs |-> NoReg]
  /\ calls = 0 /\ faults = 0 /\ hits = 0 /\ remote = 0
  /\ marks = {}
-----------------------------------------------------------------------------
\* Helpers on cells.

\* value_at(now): what a cell is worth, nothing once its window has elapsed.
Worth(c) == IF cell[c].expiry <= now THEN 0 ELSE cell[c].value

\* checked_sub(..).unwrap_or(value): the writes above `start`, or everything
\* when the value has fallen below it.
Above(v, start) == IF v >= start THEN v - start ELSE v

\* no_pending_writes
NoPending(c) == Above(Worth(c), cell[c].initial) = 0

\* A new Arc: the least cell nobody refers to.
Held == {cache, queue} \cup {reg[p].arc : p \in Procs}
Fresh(c) == c \notin Held /\ \A b \in Cells \ Held : c <= b

Mark(b, m) == marks' = IF b THEN marks \cup {m} ELSE marks
Goto(p, l) == pc' = [pc EXCEPT ![p] = l]
Return(p) == Goto(p, "idle") /\ reg' = [reg EXCEPT ![p] = NoReg]
-----------------------------------------------------------------------------
\* Requests.

\* update_counter, called for a report or a commit.
UpdateCounter(t, d) ==
  /\ pc[t] = "idle" /\ calls < MaxCalls
  /\ calls' = calls + 1
  /\ Goto(t, "fetch")
  /\ reg' = [reg EXCEPT ![t].amount = d]
  /\ UNCHANGED <<now, redis, cell, cache, queue, shard, faults, history, marks>>

\* CountersCache::get, which also brings a queued cell back into the cache.
Get == IF cache # None THEN cache ELSE queue

\* check_and_update: a miss counts as a fresh counter; a request that fits goes
\* on to increase_by.
CheckAndUpdate(t, d) ==
  /\ pc[t] = "idle" /\ calls < MaxCalls
  /\ cache = None => shard = None
  /\ calls' = calls + 1
  /\ cache' = Get
  /\ IF (IF Get = None THEN 0 ELSE Worth(Get)) + d <= MaxValue
     THEN Goto(t, "fetch") /\ reg' = [reg EXCEPT ![t].amount = d]
     ELSE UNCHANGED <<pc, reg>>
  /\ UNCHANGED <<now, redis, cell, queue, shard, faults, history, marks>>

\* increase_by: the cached cell, else the queued one, else a new one that is to
\* be loaded from Redis as soon as possible.
Fetch(t) ==
  /\ pc[t] = "fetch"
  /\ cache = None => shard = None
  /\ IF Get # None
     THEN /\ cache' = Get
          /\ UNCHANGED cell
     ELSE \E c \in Cells :
          /\ Fresh(c)
          /\ cache' = c
          /\ cell' = [cell EXCEPT ![c] = [value |-> 0, expiry |-> now + Window, initial |-> 0]]
  /\ reg' = [reg EXCEPT ![t].arc = cache']
  /\ Goto(t, "update")
  /\ UNCHANGED <<now, redis, queue, shard, calls, faults, history, marks>>

\* Where a task goes once `delta` has returned: on to the batcher, or home when
\* it was merging into the queued cell.
AfterDelta(t) ==
  IF shard = t THEN Return(t) /\ shard' = None
               ELSE Goto(t, "add") /\ UNCHANGED <<reg, shard>>

\* CachedCounterValue::delta: add to the window counter.
Update(t) ==
  LET c == reg[t].arc
      elapsed == cell[c].expiry <= now
      v == IF elapsed THEN reg[t].amount ELSE cell[c].value + reg[t].amount
  IN
  /\ pc[t] = "update"
  /\ cell' = [cell EXCEPT ![c].value = v,
                          ![c].expiry = IF elapsed THEN now + Window ELSE @]
  /\ hits' = IF shard = t THEN hits ELSE hits + reg[t].amount
  /\ IF v = reg[t].amount
     THEN Goto(t, "reset") /\ UNCHANGED <<reg, shard>>
     ELSE AfterDelta(t)
  /\ UNCHANGED <<now, redis, cache, queue, calls, faults, remote, marks>>

\* ... and forget the initial value when the count just started.
ResetInitial(t) ==
  /\ pc[t] = "reset"
  /\ cell' = [cell EXCEPT ![reg[t].arc].initial = 0]
  /\ Mark(cell[reg[t].arc].initial # 0, "reset")
  /\ AfterDelta(t)
  /\ UNCHANGED <<now, redis, cache, queue, calls, faults, history>>

\* Faulty variant of Add: merges whatever is queued, the same cell included.
AddWithoutPtrEq(t) ==
  /\ pc[t] = "add"
  /\ shard = None
  /\ IF queue = None
     THEN /\ queue' = reg[t].arc
          /\ Return(t)
          /\ UNCHANGED shard
     ELSE /\ shard' = t
          /\ Goto(t, "load")
          /\ UNCHANGED <<queue, reg>>
  /\ UNCHANGED <<now, redis, cell, cache, calls, faults, history, marks>>

\* Batcher::add.  Another cell of the same counter is already queued: its
\* entry stays locked while this one's writes are moved over.
Add(t) ==
  /\ pc[t] = "add"
  /\ shard = None
  /\ IF queue \in {None, reg[t].arc}
     THEN /\ queue' = reg[t].arc
          /\ Return(t)
          /\ UNCHANGED shard
     ELSE /\ shard' = t
          /\ Goto(t, "load")
          /\ UNCHANGED <<queue, reg>>
  /\ UNCHANGED <<now, redis, cell, cache, calls, faults, history, marks>>
-----------------------------------------------------------------------------
\* pending_writes_and_value, by the flusher on the queued cell and by a request
\* that merges: two loads and an exchange.

LoadInitial(p) ==
  /\ pc[p] = "load"
  /\ reg' = [reg EXCEPT ![p].start = cell[reg[p].arc].initial]
  /\ Goto(p, "value")
  /\ UNCHANGED <<now, redis, cell, cache, queue, shard, calls, faults, history, marks>>

LoadValue(p) ==
  /\ pc[p] = "value"
  /\ reg' = [reg EXCEPT ![p].val = Worth(reg[p].arc)]
  /\ Goto(p, "exchange")
  /\ UNCHANGED <<now, redis, cell, cache, queue, shard, calls, faults, history, marks>>

\* What the caller does with the writes: the flusher sends them, a request adds
\* them to the queued cell.
Taken(p, writes, v) ==
  IF p = Flusher
  THEN /\ reg' = [reg EXCEPT ![p].amount = writes, ![p].val = v]
       /\ Goto(p, "send")
  ELSE /\ reg' = [reg EXCEPT ![p].amount = writes, ![p].arc = queue]
       /\ Goto(p, "update")

\* The flusher is between the two additions of add_from_authority.
HalfFolded(c) == pc[Flusher] = "addinitial" /\ reg[Flusher].arc = c

Exchange(p) ==
  LET c == reg[p].arc IN
  /\ pc[p] = "exchange"
  /\ cell[c].initial = reg[p].start
  /\ cell' = [cell EXCEPT ![c].initial = reg[p].val]
  /\ Taken(p, Above(reg[p].val, reg[p].start), reg[p].val)
  /\ Mark(p # Flusher /\ HalfFolded(c), "merge")
  /\ UNCHANGED <<now, redis, cache, queue, shard, calls, faults, hits, remote>>

\* The exchange fails because a new window reset the initial value: the writes
\* wait for the next flush.  Any other value is a panic of the caller.
LoseExchange(p) ==
  /\ pc[p] = "exchange"
  /\ cell[reg[p].arc].initial # reg[p].start
  /\ IF cell[reg[p].arc].initial = 0
     THEN Taken(p, 0, 0) /\ UNCHANGED <<shard, marks>>
     ELSE /\ Goto(p, "panic")
          /\ reg' = [reg EXCEPT ![p] = NoReg]
          /\ shard' = IF shard = p THEN None ELSE shard
          /\ Mark(TRUE, "merge")
  /\ UNCHANGED <<now, redis, cell, cache, queue, calls, faults, hits, remote>>
-----------------------------------------------------------------------------
\* The flusher.

\* Batcher::consume picks the queued cell, when woken or after its interval.
Consume ==
  /\ pc[Flusher] = "idle"
  /\ queue # None /\ shard = None
  /\ reg' = [reg EXCEPT ![Flusher].arc = queue]
  /\ Goto(Flusher, "load")
  /\ UNCHANGED <<now, redis, cell, cache, queue, shard, calls, faults, history, marks>>

\* BATCH_UPDATE_COUNTERS for one key: incrby, and a TTL when it has none.
Incrby(d) ==
  [value |-> d + (IF redis.expiry <= now THEN 0 ELSE redis.value),
   expiry |-> IF redis.expiry <= now THEN now + Window ELSE redis.expiry]

\* update_counters with an answer: what Redis has beyond our value is remote.
SendOk ==
  LET r == reg[Flusher]
      answer == Incrby(r.amount)
  IN
  /\ pc[Flusher] = "send"
  /\ IF r.amount = 0
     THEN UNCHANGED <<redis, reg>>
     ELSE /\ redis' = answer
          /\ reg' = [reg EXCEPT ![Flusher].val = answer.value,
                                ![Flusher].start = IF answer.value >= r.val
                                                   THEN answer.value - r.val ELSE 0,
                                ![Flusher].ends = answer.expiry]
  /\ Goto(Flusher, "remove")
  /\ UNCHANGED <<now, cell, cache, queue, shard, calls, faults, history, marks>>

\* A transient error: the script never ran, or it did and the answer was lost.
\* The writes go back.
SendFails(lost) ==
  /\ pc[Flusher] = "send" /\ faults < MaxFaults
  /\ faults' = faults + 1
  /\ lost => reg[Flusher].amount > 0
  /\ redis' = IF lost THEN Incrby(reg[Flusher].amount) ELSE redis
  /\ Mark(lost, "answer")
  /\ IF reg[Flusher].amount = 0
     THEN Return(Flusher)
     ELSE Goto(Flusher, "return") /\ UNCHANGED reg
  /\ UNCHANGED <<now, cell, cache, queue, shard, calls, history>>

\* Any other error ends the flush task.
SendPanics ==
  /\ pc[Flusher] = "send" /\ faults < MaxFaults
  /\ faults' = faults + 1
  /\ Mark(TRUE, "redis")
  /\ Goto(Flusher, "dead")
  /\ UNCHANGED <<now, redis, cell, cache, queue, shard, reg, calls, history>>

\* Faulty variant of Remove: whatever was sent leaves the queue.
RemoveAlways ==
  /\ pc[Flusher] = "remove"
  /\ shard = None
  /\ queue' = None
  /\ IF reg[Flusher].amount = 0
     THEN Return(Flusher)
     ELSE Goto(Flusher, "fold") /\ UNCHANGED reg
  /\ UNCHANGED <<now, redis, cell, cache, shard, calls, faults, history, marks>>

\* consume: a counter without pending writes leaves the queue.
Remove ==
  /\ pc[Flusher] = "remove"
  /\ shard = None
  /\ queue' = IF NoPending(queue) THEN None ELSE queue
  /\ IF reg[Flusher].amount = 0
     THEN Return(Flusher)
     ELSE Goto(Flusher, "fold") /\ UNCHANGED reg
  /\ UNCHANGED <<now, redis, cell, cache, shard, calls, faults, history, marks>>

\* apply_remote_delta: nothing once the window ended, else the cached or the
\* queued cell takes the remote writes; with neither, the cache gets a new cell
\* with the value of Redis.
Fold ==
  LET r == reg[Flusher] IN
  /\ pc[Flusher] = "fold"
  /\ cache = None => shard = None
  /\ IF r.ends <= now
     THEN Return(Flusher) /\ UNCHANGED <<cache, cell>>
     ELSE IF Get # None
     THEN /\ cache' = Get
          /\ reg' = [reg EXCEPT ![Flusher].arc = Get]
          /\ Goto(Flusher, "expiry")
          /\ UNCHANGED cell
     ELSE \E c \in Cells :
          /\ Fresh(c)
          /\ cache' = c
          /\ cell' = [cell EXCEPT ![c] =
               [value |-> r.val, expiry |-> now + Window, initial |-> r.val]]
          /\ Return(Flusher)
  /\ UNCHANGED <<now, redis, queue, shard, calls, faults, history, marks>>

\* add_from_authority: expiry, value and initial value, one after the other.
SetExpiry ==
  /\ pc[Flusher] = "expiry"
  /\ cell' = [cell EXCEPT ![reg[Flusher].arc].expiry = reg[Flusher].ends]
  /\ Goto(Flusher, "addvalue")
  /\ UNCHANGED <<now, redis, cache, queue, shard, reg, calls, faults, history, marks>>

AddValue ==
  /\ pc[Flusher] = "addvalue"
  /\ cell' = [cell EXCEPT ![reg[Flusher].arc].value = @ + reg[Flusher].start]
  /\ Goto(Flusher, "addinitial")
  /\ UNCHANGED <<now, redis, cache, queue, shard, reg, calls, faults, history, marks>>

\* Faulty variant of AddInitial: the remote writes look like our own.
AddInitialNot ==
  /\ pc[Flusher] = "addinitial"
  /\ Return(Flusher)
  /\ UNCHANGED <<now, redis, cell, cache, queue, shard, calls, faults, history, marks>>

AddInitial ==
  /\ pc[Flusher] = "addinitial"
  /\ cell' = [cell EXCEPT ![reg[Flusher].arc].initial = @ + reg[Flusher].start]
  /\ Return(Flusher)
  /\ UNCHANGED <<now, redis, cache, queue, shard, calls, faults, history, marks>>

\* return_pending_writes and revert_writes: only an initial value above the
\* writes is lowered.
ReturnWrites ==
  LET newer == cell[Get].initial IN
  /\ pc[Flusher] = "return"
  /\ cache = None => shard = None
  /\ cache' = Get
  /\ IF newer > reg[Flusher].amount
     THEN /\ reg' = [reg EXCEPT ![Flusher].arc = Get, ![Flusher].start = newer]
          /\ Goto(Flusher, "revert")
          /\ Mark(Get # reg[Flusher].arc, "revert")
     ELSE /\ Return(Flusher)
          /\ Mark(TRUE, "revert")
  /\ UNCHANGED <<now, redis, cell, queue, shard, calls, faults, history>>

Revert ==
  LET r == reg[Flusher] IN
  /\ pc[Flusher] = "revert"
  /\ IF cell[r.arc].initial = r.start
     THEN /\ cell' = [cell EXCEPT ![r.arc].initial = @ - r.amount]
          /\ UNCHANGED marks
     ELSE /\ Mark(TRUE, "revert")
          /\ UNCHANGED cell
  /\ Return(Flusher)
  /\ UNCHANGED <<now, redis, cache, queue, shard, calls, faults, hits, remote>>
-----------------------------------------------------------------------------
\* The environment.

\* Another instance writes to Redis.
RemoteWrite(d) ==
  /\ calls < MaxCalls
  /\ calls' = calls + 1
  /\ redis' = Incrby(d)
  /\ remote' = remote + d
  /\ UNCHANGED <<now, cell, cache, queue, shard, pc, reg, faults, hits, marks>>

\* delete_counters and clear go straight to Redis.
DeleteCounters ==
  /\ faults < MaxFaults
  /\ faults' = faults + 1
  /\ redis' = [value |-> 0, expiry |-> 0]
  /\ Mark(TRUE, "redis")
  /\ UNCHANGED <<now, cell, cache, queue, shard, pc, reg, calls, history>>

\* The cache drops the counter to make room for others.
Evict ==
  /\ cache # None /\ faults < MaxFaults
  /\ faults' = faults + 1
  /\ cache' = None
  /\ UNCHANGED <<now, redis, cell, queue, shard, pc, reg, calls, history, marks>>

\* Time passes; counts whose window is over are gone for Redis and the cells.
Tick ==
  /\ now < MaxNow
  /\ now' = now + 1
  /\ Mark(\/ redis.expiry = now'
          \/ \E c \in Held \cap Cells : cell[c].expiry = now' /\ cell[c].value > 0, "window")
  /\ UNCHANGED <<redis, cell, cache, queue, shard, pc, reg, calls, faults, history>>

\* Every bound is reached, nobody has anything left to do.
Quiesce ==
  /\ \A t \in Threads : pc[t] \in {"idle", "panic"}
  /\ pc[Flusher] \in {"idle", "dead", "panic"}
  /\ UNCHANGED vars

Working(t) ==
  \/ Fetch(t) \/ Update(t) \/ ResetInitial(t) \/ Add(t)
  \/ LoadInitial(t) \/ LoadValue(t) \/ Exchange(t) \/ LoseExchange(t)

Request(t) ==
  \/ \E d \in Deltas : UpdateCounter(t, d) \/ CheckAndUpdate(t, d)
  \/ Working(t)

Flush ==
  \/ Consume \/ LoadInitial(Flusher) \/ LoadValue(Flusher)
  \/ Exchange(Flusher) \/ LoseExchange(Flusher)
  \/ SendOk \/ (\E lost \in BOOLEAN : SendFails(lost)) \/ SendPanics
  \/ Remove \/ Fold \/ SetExpiry \/ AddValue \/ AddInitial
  \/ ReturnWrites \/ Revert

Environment ==
  \/ \E d \in Deltas : RemoteWrite(d)
  \/ DeleteCounters \/ Evict \/ Tick

Next == (\E t \in Threads : Request(t)) \/ Flush \/ Environment \/ Quiesce

Spec == Init /\ [][Next]_vars

\* A request that has begun goes on, and the flush task, which at the latest
\* wakes after its interval, is scheduled again and again.
FairSpec == Spec /\ WF_vars(Flush) /\ \A t \in Threads : WF_vars(Working(t))
-----------------------------------------------------------------------------
Lines == {"idle", "fetch", "update", "reset", "add", "load", "value", "exchange", "panic"}
Marks == {"window", "redis", "answer", "reset", "revert", "merge"}
FlushLines == {"idle", "load", "value", "exchange", "send", "remove", "fold", "expiry",
               "addvalue", "addinitial", "return", "revert", "dead", "panic"}

\* Every cell reference, amount and count is of its type; in particular the
\* unsigned subtractions of pending_writes and revert_writes never underflow.
TypeOK ==
  /\ now \in Nat
  /\ redis \in [value : Nat, expiry : Nat]
  /\ cell \in [Cells -> [value : Nat, expiry : Nat, initial : Nat]]
  /\ cache \in Cells \cup {None} /\ queue \in Cells \cup {None}
  /\ shard \in Threads \cup {None}
  /\ pc \in [Procs -> Lines \cup FlushLines]
  /\ reg \in [Procs -> [arc : Cells \cup {None}, amount : Nat, start : Nat,
                        val : Nat, ends : Nat]]
  /\ calls \in Nat /\ faults \in Nat /\ hits \in Nat /\ remote \in Nat
  /\ marks \subseteq Marks

\* The flusher's expect("State machine is wrong!") in update_counters is never
\* hit: while it works on the queued cell nobody else exchanges that cell's
\* initial value for anything but zero.
FlusherNeverPanics == pc[Flusher] # "panic"

\* The unwrap() with which Batcher::add takes the writes of a cell that is not
\* the queued one always succeeds.
MergeNeverPanics == \A t \in Threads : pc[t] # "panic"

\* Why the flusher never panics.  It works on the queued cell until it has its
\* answer; a merging request holds the queue's lock and works on another cell; so
\* the flusher's snapshot of the initial value is current or has been reset.
FlusherOnQueue ==
  pc[Flusher] \in {"load", "value", "exchange", "send", "remove", "return"} =>
    queue # None /\ reg[Flusher].arc = queue
MergersElsewhere ==
  \A t \in Threads : pc[t] \in {"load", "value", "exchange"} =>
    shard = t /\ queue # None /\ reg[t].arc \in Cells \ {queue}
SnapshotCurrent ==
  pc[Flusher] \in {"value", "exchange"} => cell[queue].initial \in {reg[Flusher].start, 0}
CellsInHand ==
  /\ \A t \in Threads : pc[t] \in {"update", "reset", "add"} => reg[t].arc \in Cells
  /\ pc[Flusher] \in {"expiry", "addvalue", "addinitial", "revert"} => reg[Flusher].arc \in Cells
  /\ pc[Flusher] = "revert" => reg[Flusher].start > reg[Flusher].amount

IInv == TypeOK /\ FlusherOnQueue /\ MergersElsewhere /\ SnapshotCurrent /\ CellsInHand
        /\ FlusherNeverPanics

\* Hits wherever they are: in Redis, pending in a cell, taken from a cell and on
\* the way to Redis or to the queued cell; without the remote writes that
\* add_from_authority has added to a cell's value but not to its initial value.
Pending(c) == cell[c].value - cell[c].initial
Sending == pc[Flusher] \in {"send", "return", "revert"}
Merging(t) == shard = t /\ pc[t] = "update"
InFlight == {p \in Procs : IF p = Flusher THEN Sending ELSE Merging(p)}
Everywhere ==
  redis.value + MapThenSumSet(Pending, Held \cap Cells)
    + MapThenSumSet(LAMBDA p : reg[p].amount, InFlight)
    - (IF pc[Flusher] = "addinitial" THEN reg[Flusher].start ELSE 0)

\* Hits are neither lost nor doubled between the cache, the batcher and Redis,
\* through evictions, merges, failed flushes and writes of other instances,
\* except by the marked races.
Accounted == marks = {} => Everywhere = hits + remote

\* A hit handed to a flush is not handed out again (the second pending_writes()
\* returns 0), unless an answer of Redis was lost, a window ended or Redis failed
\* for good.
NothingDoubled ==
  marks \cap {"window", "redis", "answer"} = {} => Everywhere <= hits + remote

\* The writes of a failed flush are pending again: no hit is lost unless a window
\* ended or Redis lost it.
NothingLost == marks \cap {"window", "redis"} = {} => Everywhere >= hits + remote

\* Every hit reaches Redis, once Redis fails no more, unless a marked race
\* happened.
EventuallyInRedis == <>[](marks = {} => redis.value = hits + remote)
=============================================================================
