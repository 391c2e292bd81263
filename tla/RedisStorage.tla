---------------------------- MODULE RedisStorage ----------------------------
(***************************************************************************)
(* The storages that keep counters in Redis (storage/redis/redis_sync.rs,  *)
(* redis_async.rs, scripts.rs), several Limitador instances sharing one    *)
(* server.  Redis runs a command or a Lua script in one step; an operation *)
(* of the storage is a sequence of them, and the instances interleave in   *)
(* between.  A command may fail: the caller gets an error, whether or not  *)
(* Redis has run it.                                                       *)
(*                                                                         *)
(* Both storages are modelled, the blocking one by the instances of Sync,  *)
(* the other by those of Async; they differ in check_and_update, a loop of *)
(* script calls in one and a pipeline that is sent again when Redis does   *)
(* not know the script in the other.                                       *)
(***************************************************************************)
EXTENDS Integers, FiniteSetsExt

CONSTANTS
  Sync,      \* instances that use RedisStorage ...
  Async,     \* ... and AsyncRedisStorage, one operation at a time each
  Counters,  \* the counters, each of a limit of its own
  Requests,  \* the sets of counters a request may apply to
  MaxValue,  \* max_value of each counter's limit
  Window,    \* seconds of each counter's limit
  Amounts,   \* the amounts a request may add, ask for or use ...
  MaxAmount, \* ... and an upper bound of theirs
  Cap,       \* the most a reservation may hold of each counter
  Ttls,      \* the lifetimes of reservations
  MaxNow,    \* bound: the last instant explored
  MaxCalls,  \* bound: how many operations are started
  MaxFaults  \* bound: failed commands and script flushes

Instances == Sync \cup Async

ASSUME InstancesAssumption ==
  Instances # {} /\ Sync \cap Async = {} /\ IsFiniteSet(Instances)
ASSUME CountersAssumption ==
  /\ Requests \subseteq (SUBSET Counters) \ {{}}
  /\ MaxValue \in [Counters -> Nat]
  /\ Window \in [Counters -> Nat \ {0}]
  /\ Cap \in [Counters -> Nat]
ASSUME AmountsAssumption ==
  MaxAmount \in Nat /\ Amounts \subseteq 1..MaxAmount /\ Ttls \subseteq Nat
ASSUME BoundsAssumption == MaxNow \in Nat /\ MaxCalls \in Nat /\ MaxFaults \in Nat

VARIABLES
  now,      \* the clock
  value,    \* Redis: the counter keys ...
  expiry,   \* ... and when they expire, 0 for a key that does not exist
  members,  \* Redis: the counters in the set of their limit
  holds,    \* Redis: the reservation hash of each counter ...
  holdsEnd, \* ... and when it expires, 0 for a hash that does not exist
  loaded,   \* Redis: it has SCRIPT_UPDATE_COUNTER in its script cache
  pc,       \* where each instance is in its operation
  call,     \* the arguments and local variables of that operation
  todo,     \* the counters it has not come to yet
  calls,    \* operations started so far
  faults,   \* faults so far
  forced,   \* history: hits of each window that no check preceded
  orphans,  \* history: counters used while their limit's set was being deleted
  settled,  \* history: holds, by id and counter, whose commit has been counted
  marks     \* history: what happened that excuses a property

store == <<value, expiry, members, holds, holdsEnd>>
history == <<forced, orphans, settled, marks>>
vars == <<now, store, loaded, pc, call, todo, calls, faults, history>>

\* The locals of an operation: the counters it is about, the amount, the
\* reservation and its lifetime, the clock as it was read, how often each counter
\* was incremented, the counters listed and those that existed all the time.
NoCall == [cs |-> {}, amount |-> 0, id |-> 0, hold |-> 0, ttl |-> 0, when |-> 0,
           failed |-> FALSE, again |-> FALSE, times |-> [c \in Counters |-> 0],
           listed |-> {}, since |-> {}]

Init ==
  /\ now = 0
  /\ value = [c \in Counters |-> 0]
  /\ expiry = [c \in Counters |-> 0]
  /\ members = {}
  /\ holds = [c \in Counters |-> {}] /\ holdsEnd = [c \in Counters |-> 0]
  /\ loaded = TRUE
  /\ pc = [p \in Instances |-> "idle"]
  /\ call = [p \in Instances |-> NoCall]
  /\ todo = [p \in Instances |-> {}]
  /\ calls = 0 /\ faults = 0
  /\ forced = [c \in Counters |-> 0]
  /\ orphans = {} /\ settled = {} /\ marks = {}
-----------------------------------------------------------------------------
\* What Redis does.

Exists(c) == expiry[c] # 0
Total(hs) == MapThenSumSet(LAMBDA h : h.amount, hs)
LiveAt(hs, w) == {h \in hs : h.expires > w}

\* A hash without fields is removed, its TTL with it.
HashEnd(c, hs) == IF hs = {} THEN 0 ELSE holdsEnd[c]

\* Instances that have read a limit's set and are about to delete it.
Deleting(c) == \E p \in Instances : pc[p] \in {"del", "delset"} /\ c \in call[p].cs

\* Faulty variant of Expire: the TTL is set again, as without `NX`.
ExpireAgain(c, v, d) == IF v = d THEN now + Window[c] ELSE expiry[c]

\* `expire ... NX` after an increment to v by d: only a key without a TTL gets
\* one.  A key that does not exist has none.
Expire(c, v, d) == IF v = d /\ ~Exists(c) THEN now + Window[c] ELSE expiry[c]

\* SCRIPT_UPDATE_COUNTER (and, for one key, BATCH_UPDATE_COUNTERS).
Increment(c, d) ==
  LET v == value[c] + d IN
  /\ value' = [value EXCEPT ![c] = v]
  /\ expiry' = [expiry EXCEPT ![c] = Expire(c, v, d)]
  /\ members' = IF v = d THEN members \cup {c} ELSE members
  /\ orphans' = IF Deleting(c) THEN orphans \cup {c} ELSE orphans
  /\ UNCHANGED <<holds, holdsEnd>>

\* Faulty variant of IsLimited: the amount asked for is left out.
IsLimitedAlready(cs, d) == \E c \in cs : value[c] > MaxValue[c]

\* VALUES_AND_TTLS reads counters at one moment.
ValuesAndTtls(cs) == [c \in cs |-> value[c]]

\* is_limited: would d more exceed one of the limits?
IsLimited(cs, d) == \E c \in cs : ValuesAndTtls(cs)[c] + d > MaxValue[c]

\* Keys leave Redis; nobody who lists counters has to find them any more.
Drop(cs) ==
  /\ value' = [c \in Counters |-> IF c \in cs THEN 0 ELSE value[c]]
  /\ expiry' = [c \in Counters |-> IF c \in cs THEN 0 ELSE expiry[c]]
  /\ forced' = [c \in Counters |-> IF c \in cs THEN 0 ELSE forced[c]]

Forgotten(cs) == [p \in Instances |-> [call[p] EXCEPT !.since = @ \ cs]]
-----------------------------------------------------------------------------
\* How operations begin, go on and end.

Begin(p) == pc[p] = "idle" /\ calls < MaxCalls /\ calls' = calls + 1
Goto(p, l) == pc' = [pc EXCEPT ![p] = l]
Return(p) ==
  /\ Goto(p, "idle")
  /\ call' = [call EXCEPT ![p] = NoCall]
  /\ todo' = [todo EXCEPT ![p] = {}]

\* A command of p fails before Redis ran it, and the operation with it.
Fail(p) ==
  /\ pc[p] \notin {"idle", "held"}
  /\ faults < MaxFaults
  /\ faults' = faults + 1
  /\ Return(p)
  /\ UNCHANGED <<now, store, loaded, calls, history>>

\* check_and_update reads all counters in one script; it goes on only when none
\* is limited.
Evaluate(p, cs, d) ==
  /\ Begin(p)
  /\ ~IsLimited(cs, d)
  /\ Goto(p, "update")
  /\ call' = [call EXCEPT ![p] = [NoCall EXCEPT !.cs = cs, !.amount = d]]
  /\ todo' = [todo EXCEPT ![p] = cs]
  /\ UNCHANGED <<now, store, loaded, faults, history>>

Deny(p, cs, d) ==
  /\ Begin(p)
  /\ IsLimited(cs, d)
  /\ UNCHANGED <<now, store, loaded, pc, call, todo, faults, history>>

\* The script cache changes while Redis is in the middle of a pipeline.
Midway ==
  IF \E p \in Async : pc[p] = "update" /\ todo[p] \notin {{}, call[p].cs}
  THEN {"noscript"} ELSE {}
Loading == IF loaded THEN {} ELSE Midway

\* One increment of a check_and_update has been run.
Incremented(p, c) ==
  /\ Increment(c, call[p].amount)
  /\ marks' = marks \cup {"unreserved"} \cup Loading
  /\ todo' = [todo EXCEPT ![p] = @ \ {c}]
  /\ call' = [call EXCEPT ![p].times[c] = @ + 1]
  /\ UNCHANGED <<now, forced, settled>>

\* RedisStorage::check_and_update: one script call per counter.  The client
\* loads a script that Redis does not know and calls it again.
SyncUpdate(p, c) ==
  /\ p \in Sync /\ pc[p] = "update" /\ c \in todo[p]
  /\ Incremented(p, c)
  /\ loaded' = TRUE
  /\ UNCHANGED <<pc, calls, faults>>

\* AsyncRedisStorage::check_and_update: a pipeline of calls by the script's hash,
\* which Redis runs one by one and which fail when it does not know the script.
PipelineRuns(p, c) ==
  /\ p \in Async /\ pc[p] = "update" /\ c \in todo[p]
  /\ loaded
  /\ Incremented(p, c)
  /\ UNCHANGED <<loaded, pc, calls, faults>>

PipelineMisses(p, c) ==
  /\ p \in Async /\ pc[p] = "update" /\ c \in todo[p]
  /\ ~loaded
  /\ todo' = [todo EXCEPT ![p] = @ \ {c}]
  /\ call' = [call EXCEPT ![p].failed = TRUE]
  /\ UNCHANGED <<now, store, loaded, pc, calls, faults, history>>

\* Faulty variant of Reload: the pipeline is sent again after any answer.
ReloadAlways(p) ==
  /\ p \in Async /\ pc[p] = "update" /\ todo[p] = {}
  /\ ~call[p].again
  /\ loaded' = TRUE
  /\ todo' = [todo EXCEPT ![p] = call[p].cs]
  /\ call' = [call EXCEPT ![p].failed = FALSE, ![p].again = TRUE]
  /\ marks' = marks \cup Loading
  /\ UNCHANGED <<now, store, pc, calls, faults, forced, orphans, settled>>

\* NoScript: load the script and send the whole pipeline again, once.
Reload(p) ==
  /\ p \in Async /\ pc[p] = "update" /\ todo[p] = {}
  /\ call[p].failed /\ ~call[p].again
  /\ loaded' = TRUE
  /\ todo' = [todo EXCEPT ![p] = call[p].cs]
  /\ call' = [call EXCEPT ![p].failed = FALSE, ![p].again = TRUE]
  /\ marks' = marks \cup Loading
  /\ UNCHANGED <<now, store, pc, calls, faults, forced, orphans, settled>>

\* check_and_update returns: Ok, or the error of the second attempt.
Updated(p) ==
  /\ pc[p] = "update" /\ todo[p] = {}
  /\ call[p].failed => call[p].again
  /\ Return(p)
  /\ marks' = IF ~call[p].failed /\ \E c \in call[p].cs : call[p].times[c] # 1
              THEN marks \cup {"miscounted"} ELSE marks
  /\ UNCHANGED <<now, store, loaded, calls, faults, forced, orphans, settled>>

\* RateLimiter::update_counters: report hits on every counter.
Report(p, cs, d) ==
  /\ Begin(p)
  /\ Goto(p, "report")
  /\ call' = [call EXCEPT ![p] = [NoCall EXCEPT !.cs = cs, !.amount = d]]
  /\ todo' = [todo EXCEPT ![p] = cs]
  /\ UNCHANGED <<now, store, loaded, faults, history>>

\* What is wrong with the hits of p on c, that no reservation covers them.
Uncovered(p, c) ==
  IF pc[p] = "commit" /\ call[p].amount <= call[p].hold
       /\ \E h \in holds[c] : h.id = call[p].id /\ h.expires > now
  THEN {} ELSE {"unreserved"}

\* update_counters and commit_reservation go on to the next counter; after the
\* last one a commit releases the reservation, if it holds anything.
AfterUpdate(p, c) ==
  IF todo[p] # {c}
  THEN todo' = [todo EXCEPT ![p] = @ \ {c}] /\ UNCHANGED <<pc, call>>
  ELSE IF pc[p] = "commit" /\ call[p].hold > 0
  THEN /\ Goto(p, "release")
       /\ todo' = [todo EXCEPT ![p] = call[p].cs]
       /\ UNCHANGED call
  ELSE Return(p)

\* update_counter, called for a report or a commit.
UpdateCounter(p, c) ==
  /\ pc[p] \in {"report", "commit"} /\ c \in todo[p]
  /\ Increment(c, call[p].amount)
  /\ forced' = [forced EXCEPT ![c] = @ + call[p].amount]
  /\ marks' = marks \cup Uncovered(p, c) \cup Loading
  /\ settled' = IF pc[p] = "commit" /\ call[p].hold > 0
                THEN settled \cup {<<call[p].id, c>>} ELSE settled
  /\ AfterUpdate(p, c)
  /\ loaded' = TRUE
  /\ UNCHANGED <<now, calls, faults>>

SyncUpdateCounter(p, c) == p \in Sync /\ UpdateCounter(p, c)
AsyncUpdateCounter(p, c) == p \in Async /\ UpdateCounter(p, c)

-----------------------------------------------------------------------------
\* Reservations.

\* `reserve` reads the clock, builds the arguments and calls the script.
Reserve(p, cs, a, l) ==
  /\ Begin(p)
  /\ Goto(p, "reserve")
  /\ call' = [call EXCEPT ![p] = [NoCall EXCEPT !.cs = cs, !.amount = a, !.id = calls + 1,
       !.hold = Min({a} \cup {Cap[c] : c \in cs}), !.ttl = l, !.when = now]]
  /\ todo' = [todo EXCEPT ![p] = {}]
  /\ UNCHANGED <<now, store, loaded, faults, history>>

\* SCRIPT_RESERVE, with the clock of the caller: a counter that does not exist
\* starts its window, holds that have expired are dropped ...
Ends(c) == IF Exists(c) THEN expiry[c] ELSE now + Window[c]
Outstanding(p, c) == LiveAt(holds[c], call[p].when)

\* Faulty variant of Admitted: the outstanding holds are left out.
AdmittedIgnoringHolds(p) ==
  \A c \in call[p].cs : value[c] + call[p].amount <= MaxValue[c]

\* ... and all counters have to have room for the amount.
Admitted(p) ==
  \A c \in call[p].cs : value[c] + Total(Outstanding(p, c)) + call[p].amount <= MaxValue[c]

\* Faulty variant of Hold: it lasts for its lifetime, whatever the window.
HoldUnclamped(p, c) ==
  [id |-> call[p].id, amount |-> call[p].hold, expires |-> call[p].when + call[p].ttl]

\* The hold ends with its lifetime or with the window, whichever is first.
Hold(p, c) ==
  [id |-> call[p].id, amount |-> call[p].hold,
   expires |-> call[p].when + Min({call[p].ttl, Ends(c) - now})]

ScriptReserve(p) ==
  LET holding == Admitted(p) /\ call[p].hold > 0
      held(c) == Outstanding(p, c) \cup IF holding THEN {Hold(p, c)} ELSE {} IN
  /\ pc[p] = "reserve"
  /\ expiry' = [c \in Counters |-> IF c \in call[p].cs THEN Ends(c) ELSE expiry[c]]
  /\ members' = members \cup {c \in call[p].cs : ~Exists(c)}
  /\ orphans' = orphans \cup {c \in call[p].cs : Deleting(c)}
  /\ holds' = [c \in Counters |-> IF c \in call[p].cs THEN held(c) ELSE holds[c]]
  /\ holdsEnd' = [c \in Counters |-> IF c \notin call[p].cs THEN holdsEnd[c]
                                     ELSE IF holding THEN Ends(c)
                                     ELSE HashEnd(c, held(c))]
  /\ IF Admitted(p)
     THEN /\ Goto(p, "held")
          /\ UNCHANGED <<call, todo>>
     ELSE Return(p)
  /\ UNCHANGED <<now, value, loaded, calls, faults, forced, settled, marks>>

SyncReserve(p) == p \in Sync /\ ScriptReserve(p)
AsyncReserve(p) == p \in Async /\ ScriptReserve(p)

\* The client of p goes away without committing ...
Abandon(p) ==
  /\ pc[p] = "held"
  /\ Return(p)
  /\ UNCHANGED <<now, store, loaded, calls, faults, history>>

\* ... or commits what it used: update_counter on every counter, then release.
Commit(p, a) ==
  /\ pc[p] = "held"
  /\ Goto(p, "commit")
  /\ call' = [call EXCEPT ![p].amount = a]
  /\ todo' = [todo EXCEPT ![p] = call[p].cs]
  /\ UNCHANGED <<now, store, loaded, calls, faults, history>>

\* release_reservation: a pipeline of `hdel`s.
Release(p, c) ==
  /\ pc[p] = "release" /\ c \in todo[p]
  /\ holds' = [holds EXCEPT ![c] = {h \in @ : h.id # call[p].id}]
  /\ holdsEnd' = [holdsEnd EXCEPT ![c] = HashEnd(c, holds'[c])]
  /\ IF todo[p] = {c}
     THEN Return(p)
     ELSE /\ todo' = [todo EXCEPT ![p] = @ \ {c}]
          /\ UNCHANGED <<pc, call>>
  /\ settled' = settled \ {<<call[p].id, c>>}
  /\ UNCHANGED <<now, value, expiry, members, loaded, calls, faults, forced, orphans, marks>>

SyncRelease(p, c) == p \in Sync /\ Release(p, c)
AsyncRelease(p, c) == p \in Async /\ Release(p, c)
-----------------------------------------------------------------------------
\* Listing and deleting counters.

\* get_counters: the members of the limits' sets, then a `get` for each.
GetCounters(p, cs) ==
  /\ Begin(p)
  /\ members \cap cs # {}
  /\ Goto(p, "list")
  /\ call' = [call EXCEPT ![p] = [NoCall EXCEPT !.cs = cs, !.since = {c \in cs : Exists(c)}]]
  /\ todo' = [todo EXCEPT ![p] = members \cap cs]
  /\ UNCHANGED <<now, store, loaded, faults, history>>

Get(p, c) ==
  LET found == IF Exists(c) THEN call[p].listed \cup {c} ELSE call[p].listed IN
  /\ pc[p] = "list" /\ c \in todo[p]
  /\ IF todo[p] = {c}
     THEN /\ Return(p)
          /\ marks' = IF call[p].since \ orphans \subseteq found
                      THEN marks ELSE marks \cup {"unlisted"}
     ELSE /\ todo' = [todo EXCEPT ![p] = @ \ {c}]
          /\ call' = [call EXCEPT ![p].listed = found]
          /\ UNCHANGED <<pc, marks>>
  /\ UNCHANGED <<now, store, loaded, calls, faults, forced, orphans, settled>>

SyncGet(p, c) == p \in Sync /\ Get(p, c)
AsyncGet(p, c) == p \in Async /\ Get(p, c)

\* delete_counters of one limit: the members of its set, a `del` for each of
\* them, then a `del` of the set.  The reservation hashes stay.
DeleteCounters(p, c) ==
  /\ Begin(p)
  /\ call' = [call EXCEPT ![p] = [NoCall EXCEPT !.cs = {c}]]
  /\ todo' = [todo EXCEPT ![p] = members \cap {c}]
  /\ Goto(p, IF c \in members THEN "del" ELSE "delset")
  /\ UNCHANGED <<now, store, loaded, faults, history>>

Del(p, c) ==
  /\ pc[p] = "del" /\ c \in todo[p]
  /\ Drop({c})
  /\ todo' = [todo EXCEPT ![p] = {}]
  /\ call' = Forgotten({c})
  /\ Goto(p, "delset")
  /\ UNCHANGED <<now, members, holds, holdsEnd, loaded, calls, faults, orphans, settled, marks>>

SyncDel(p, c) == p \in Sync /\ Del(p, c)
AsyncDel(p, c) == p \in Async /\ Del(p, c)

\* Faulty variant of DelSet: the sets of all limits go.
DelSets(p) ==
  /\ pc[p] = "delset"
  /\ members' = {}
  /\ Return(p)
  /\ UNCHANGED <<now, value, expiry, holds, holdsEnd, loaded, calls, faults, history>>

DelSet(p) ==
  /\ pc[p] = "delset"
  /\ members' = members \ call[p].cs
  /\ Return(p)
  /\ UNCHANGED <<now, value, expiry, holds, holdsEnd, loaded, calls, faults, history>>

\* clear: FLUSHDB.
Clear(p) ==
  /\ Begin(p)
  /\ Drop(Counters)
  /\ members' = {}
  /\ holds' = [c \in Counters |-> {}] /\ holdsEnd' = [c \in Counters |-> 0]
  /\ call' = Forgotten(Counters)
  /\ UNCHANGED <<now, loaded, pc, todo, faults, orphans, settled, marks>>
-----------------------------------------------------------------------------
\* The environment.

\* The script cache is flushed; in the middle of a pipeline, the part of it that
\* has run will run again.
ScriptFlush ==
  /\ loaded /\ faults < MaxFaults
  /\ faults' = faults + 1
  /\ loaded' = FALSE
  /\ marks' = marks \cup Midway
  /\ UNCHANGED <<now, store, pc, call, todo, calls, forced, orphans, settled>>

\* Time passes; Redis removes the keys that expire.
Tick ==
  LET gone == {c \in Counters : expiry[c] = now + 1}
      over(c) == holdsEnd[c] = now + 1 IN
  /\ now < MaxNow
  /\ now' = now + 1
  /\ Drop(gone)
  /\ holds' = [c \in Counters |-> IF over(c) THEN {} ELSE holds[c]]
  /\ holdsEnd' = [c \in Counters |-> IF over(c) THEN 0 ELSE holdsEnd[c]]
  /\ orphans' = orphans \ gone
  /\ call' = Forgotten(gone)
  /\ UNCHANGED <<members, loaded, pc, todo, calls, faults, settled, marks>>

\* The instances may stop at any time no operation is running.
Quiesce == (\A p \in Instances : pc[p] \in {"idle", "held"}) /\ UNCHANGED vars

Step(p) ==
  \/ \E c \in Counters :
       \/ SyncUpdate(p, c) \/ PipelineRuns(p, c) \/ PipelineMisses(p, c)
       \/ SyncUpdateCounter(p, c) \/ AsyncUpdateCounter(p, c)
       \/ SyncRelease(p, c) \/ AsyncRelease(p, c)
       \/ SyncGet(p, c) \/ AsyncGet(p, c)
       \/ SyncDel(p, c) \/ AsyncDel(p, c)
  \/ Reload(p) \/ Updated(p)
  \/ SyncReserve(p) \/ AsyncReserve(p)
  \/ DelSet(p)

Start(p) ==
  \/ \E cs \in Requests :
       \/ \E a \in Amounts :
            \/ Evaluate(p, cs, a) \/ Deny(p, cs, a) \/ Report(p, cs, a)
            \/ \E l \in Ttls : Reserve(p, cs, a, l)
       \/ GetCounters(p, cs)
  \/ \E c \in Counters : DeleteCounters(p, c)
  \/ Clear(p)
  \/ Abandon(p)
  \/ \E a \in Amounts : Commit(p, a)

Next ==
  \/ \E p \in Instances : Start(p) \/ Step(p) \/ Fail(p)
  \/ ScriptFlush
  \/ Tick
  \/ Quiesce

Spec == Init /\ [][Next]_vars
-----------------------------------------------------------------------------
Calls == [cs : SUBSET Counters, amount : Nat, id : Nat, hold : Nat, ttl : Nat, when : Nat,
          failed : BOOLEAN, again : BOOLEAN, times : [Counters -> Nat],
          listed : SUBSET Counters, since : SUBSET Counters]

\* The types; what does not exist has no value, and what has expired is gone.
TypeOK ==
  /\ now \in Nat
  /\ value \in [Counters -> Nat] /\ expiry \in [Counters -> Nat]
  /\ \A c \in Counters : IF Exists(c) THEN expiry[c] > now ELSE value[c] = 0
  /\ members \subseteq Counters
  /\ holds \in [Counters -> SUBSET [id : Nat, amount : Nat, expires : Nat]]
  /\ holdsEnd \in [Counters -> Nat]
  /\ loaded \in BOOLEAN
  /\ pc \in [Instances -> {"idle", "update", "report", "reserve", "held", "commit",
                           "release", "list", "del", "delset"}]
  /\ call \in [Instances -> Calls]
  /\ todo \in [Instances -> SUBSET Counters]
  /\ calls \in Nat /\ faults \in Nat
  /\ forced \in [Counters -> Nat]
  /\ orphans \subseteq Counters
  /\ settled \subseteq Nat \X Counters
  /\ marks \subseteq {"unreserved", "miscounted", "noscript", "unlisted"}

FW == INSTANCE FixedWindow WITH count <- value, ends <- expiry

(***************************************************************************)
(* Redis with its scripts is a fixed-window store: hits are added in one   *)
(* step, none is lost, and no use of a counter - not even the first hit on *)
(* a counter that a reservation has created, which the script cannot tell  *)
(* from a new key - moves the end of its window.                           *)
(***************************************************************************)
IsFixedWindow == FW!Spec

Overshoot(c) == MaxValue[c] + forced[c] + MaxAmount * (Cardinality(Instances) - 1)

(***************************************************************************)
(* Instances that share the store are admitted against the same values; a  *)
(* window exceeds its limit by at most what all instances but one add at   *)
(* once, besides reported hits and pipelines that ran twice.               *)
(***************************************************************************)
BoundedOvershoot ==
  "noscript" \notin marks =>
    \A c \in Counters : value[c] <= Overshoot(c)

(***************************************************************************)
(* A request that is answered Ok was counted exactly once on each of its   *)
(* counters, also when the pipeline had to be sent again, unless Redis     *)
(* lost the script in the middle of it.                                    *)
(***************************************************************************)
CountedOnce == "miscounted" \in marks => "noscript" \in marks

\* What holds of a request's increments as long as Redis has not lost or been
\* given the script midway: either none has been run or exactly those it is past;
\* a pipeline misses all of its calls or none.
Pipelined(p) ==
  /\ todo[p] \subseteq call[p].cs
  /\ \A c \in call[p].cs :
       call[p].times[c] = IF c \in todo[p] \/ call[p].failed THEN 0 ELSE 1
  /\ call[p].failed => p \in Async /\ todo[p] # call[p].cs
  /\ (p \in Async /\ todo[p] \notin {{}, call[p].cs}) => (loaded <=> ~call[p].failed)
Pipelines ==
  "noscript" \notin marks => \A p \in Instances : pc[p] = "update" => Pipelined(p)

\* The requests that are admitted and have not been counted on c yet leave room
\* for what they will add to it.
Pending(c) ==
  {p \in Instances : /\ pc[p] = "update" /\ c \in call[p].cs
                     /\ c \in todo[p] \/ call[p].failed}
PendingFits(c) ==
  \/ value[c] + MaxAmount * Cardinality(Pending(c)) <= Overshoot(c)
  \/ \E p \in Pending(c) :
       value[c] + call[p].amount + MaxAmount * Cardinality(Pending(c) \ {p}) <= Overshoot(c)
PendingBounded == "noscript" \notin marks => \A c \in Counters : PendingFits(c)

\* Each of them asks for no more than the whole limit.
FitsAlone ==
  \A p \in Instances : pc[p] = "update" =>
    \A c \in call[p].cs : call[p].amount <= MaxValue[c]

Unsettled(c) == {h \in LiveAt(holds[c], now) : <<h.id, c>> \notin settled}
Usage(c) == value[c] + Total(Unsettled(c))

(***************************************************************************)
(* Reservations are admitted and held in one script: as long as all hits   *)
(* are commits of live reservations, used and reserved amounts together    *)
(* never exceed a limit - here a commit cannot slip in between reading the *)
(* counters and holding, as it can in Reservations.                        *)
(***************************************************************************)
ReservedWithinLimit ==
  "unreserved" \notin marks => \A c \in Counters : Usage(c) <= MaxValue[c]

\* What that rests on: ids are never reused and no two operations share one, so a
\* hold is known by its id, and is what its operation holds; it is settled only
\* after its operation's commit has come to the counter.
HoldIds ==
  \A c \in Counters : /\ IsFiniteSet(holds[c])
                      /\ \A h \in holds[c] : h.id \in 1..calls
                      /\ \A g, h \in holds[c] : g.id = h.id => g = h
CallIds ==
  \A p \in Instances :
    /\ call[p].id <= calls
    /\ call[p].id # 0 <=> pc[p] \in {"reserve", "held", "commit", "release"}
    /\ pc[p] = "reserve" => call[p].hold <= call[p].amount
OwnIds == \A p, q \in Instances : call[p].id = call[q].id => p = q \/ call[p].id = 0
OwnHolds ==
  \A p \in Instances, c \in Counters : \A h \in holds[c] :
    h.id = call[p].id => pc[p] # "reserve" /\ h.amount = call[p].hold
SettledIds ==
  /\ \A s \in settled : s[1] \in 1..calls
  /\ \A p \in Instances, c \in Counters :
       <<call[p].id, c>> \in settled =>
         pc[p] \in {"commit", "release"} /\ (pc[p] = "commit" => c \notin todo[p])
Booked == HoldIds /\ CallIds /\ OwnIds /\ OwnHolds /\ SettledIds

(***************************************************************************)
(* A hold ends with its counter's window at the latest, although the       *)
(* script adds the window's remaining time to a clock the caller read      *)
(* earlier.                                                                *)
(***************************************************************************)
HoldsWithinWindow ==
  \A c \in Counters : \A h \in holds[c] : h.expires > now => expiry[c] = 0 \/ h.expires <= expiry[c]

\* What is invariant with TypeOK and HoldsWithinWindow: the scripts add only the
\* amounts of requests, the clock of a reservation is not ahead, and no window or
\* hold ends later than a window that would begin now.
AddsAmounts ==
  \A p \in Instances : pc[p] \in {"update", "report", "commit"} => call[p].amount \in Amounts
EndsInTime ==
  /\ \A p \in Instances : pc[p] = "reserve" => call[p].when <= now
  /\ \A c \in Counters :
       /\ expiry[c] <= now + Window[c]
       /\ \A h \in holds[c] : h.expires <= now + Window[c]
IInv == TypeOK /\ AddsAmounts /\ EndsInTime /\ HoldsWithinWindow

(***************************************************************************)
(* get_counters lists every counter that existed all the time, except one  *)
(* that was used while its limit's counters were being deleted: that one   *)
(* is in no set until its window ends.                                     *)
(***************************************************************************)
ListsAll == "unlisted" \notin marks

\* Why: what exists is in its limit's set, or was used while that was deleted;
\* so a set that is about to be deleted lists nothing else that exists, and a
\* listing has found, or has still to look at, all that existed when it began.
Listed ==
  /\ \A c \in Counters : Exists(c) => c \in members \cup orphans
  /\ \A p \in Instances :
       /\ pc[p] = "list" =>
            /\ \A c \in call[p].since : Exists(c)
            /\ call[p].since \subseteq call[p].listed \cup todo[p] \cup orphans
       /\ pc[p] = "del" => todo[p] = call[p].cs /\ \E c \in Counters : call[p].cs = {c}
       /\ pc[p] = "delset" => \A c \in call[p].cs : Exists(c) => c \in orphans
=============================================================================
