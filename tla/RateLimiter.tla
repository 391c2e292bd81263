---------------------------- MODULE RateLimiter ----------------------------
(***************************************************************************)
(* The rate limiter of limitador/src/lib.rs and the limit registry of      *)
(* limitador/src/storage/mod.rs, at the grain of the registry's RwLock and *)
(* of the calls to the counter storage: what a call resolves, checks and   *)
(* updates while configure_with replaces the limits under it.  RateLimiter *)
(* and AsyncRateLimiter are twins; `kind` says which of the two runs.      *)
(*                                                                         *)
(* A configuration task runs on the one thread of the server's runtime and *)
(* gives it up only at an await, of which configure_with has one per limit *)
(* it deletes, and none with the blocking limiter (`turn`).  Calls come    *)
(* from the HTTP workers too, and interleave with every step of a task.    *)
(*                                                                         *)
(* The counter storage is what the other modules describe; here it is a    *)
(* number of hits per counter, updated atomically, that may fail.          *)
(***************************************************************************)
EXTENDS Limits

CONSTANTS
    Tasks,        \* the configuration tasks
    Calls,        \* the callers
    Versions,     \* every version of every limit that a file may list
    Contexts,     \* the contexts of the calls
    MaxFaults     \* bound on the storage's failures

VARIABLES
    kind,         \* "Blocking" or "Async": the limiter in use
    registry,     \* Storage.limits: the registered versions
    hits,         \* the counter storage, by counter
    task,         \* configure_with, by task
    turn,         \* the task that holds the runtime's thread, or None
    call,         \* the calls under way
    faults,       \* how often the storage has failed
    late          \* limits whose counters were hit past their deletion

Namespaces == {l.namespace : l \in Versions}
In(limits, ns) == {l \in limits : l.namespace = ns}
Identities(limits) == {Identity(l) : l \in limits}

(* HashSet::difference, by the limits' equality.                           *)
Without(limits, others) ==
    {l \in limits : Identity(l) \notin Identities(others)}

(* HashSet::union of the standard library: of two equal elements it yields *)
(* the one of the larger set, and of the receiver when they are as large.  *)
Union(limits, others) ==
    IF Cardinality(limits) >= Cardinality(others)
    THEN limits \cup Without(others, limits)
    ELSE others \cup Without(limits, others)

(* classify_limits_by_namespace: of equal limits the first one is kept.    *)
Classify(file) ==
    {file[i] : i \in {j \in DOMAIN file :
                         \A k \in 1..(j - 1) : ~SameLimit(file[k], file[j])}}

CounterIds ==
    LET made == {CounterNew(l, ctx) : l \in Versions, ctx \in Contexts}
    IN  {CounterEq(m.counter) : m \in {n \in made : n.is = "Some"}}

-----------------------------------------------------------------------------
(* The registry, one operator per method of Storage and AsyncStorage.      *)

GetLimits(ns) == In(registry, ns)
GetNamespaces == {l.namespace : l \in registry}

(* add_limit: an equal limit that is there already stays as it is.         *)
AddLimit(l) ==
    registry' = IF Identity(l) \in Identities(registry) THEN registry
                ELSE registry \cup {l}

(* Faulty variant of UpdateLimit: the old version is removed, and the new  *)
(* one left to a later reload.                                             *)
UpdateLimitLater(l) ==
    registry' = {m \in registry : SameLimit(m, l) => m.max = l.max}

(* update_limit: the registered version of the limit becomes the given.    *)
UpdateLimit(l) ==
    registry' = {IF SameLimit(m, l) /\ m.max # l.max THEN l ELSE m :
                     m \in registry}


(* The counters that delete_counters drops: those of the limit.            *)
DeleteCounters(l) ==
    /\ hits' = [c \in CounterIds |-> IF c[1] = Identity(l) THEN 0 ELSE hits[c]]
    /\ late' = late \ {Identity(l)}

(* The rest of delete_limit, once the counters are gone.                   *)
RemoveLimit(l) == registry' = {m \in registry : ~SameLimit(m, l)}

-----------------------------------------------------------------------------
(* configure_with.                                                         *)

Resting == [pc |-> "resting", keep |-> {}, spaces |-> {}, ns |-> None,
            known |-> {}, todo |-> {}, victim |-> {}, overlapped |-> FALSE,
            shadowed |-> FALSE]

Configuring(t) == task[t].pc \notin {"resting", "spawned"}
MayRun(t) == turn \in {None, t}

(* The thread is given up at an await, by the asynchronous limiter.        *)
Await(t) == IF kind = "Async" THEN None ELSE t

(* Up to the loop over the namespaces; `keep` is the file, classified.     *)
ConfigureWith(t, keep) ==
    LET others == {u \in Tasks \ {t} : Configuring(u)}
    IN  /\ task' = [u \in Tasks |->
              CASE u = t ->
                     [Resting EXCEPT
                        !.pc = "space", !.keep = keep, !.overlapped = others # {},
                        !.spaces = GetNamespaces \cup {l.namespace : l \in keep}]
                [] u \in others -> [task[u] EXCEPT !.overlapped = TRUE]
                [] OTHER -> task[u]]
        /\ turn' = t

(* The three loops over the limits of a namespace, entered at `pc` with    *)
(* the limits left to do; an empty loop is passed over, and so are updates *)
(* that leave the limits as they are (`now`).                              *)
Loops(s, pc, todo, now) ==
    LET kept == In(s.keep, s.ns)
        create == Without(kept, s.known)
        update == Union(kept, s.known) \ now
    IN  CASE todo # {} -> [s EXCEPT !.pc = pc, !.todo = todo, !.victim = {}]
          [] todo = {} /\ pc = "delete" /\ create # {} ->
                [s EXCEPT !.pc = "add", !.todo = create, !.victim = {}]
          [] /\ todo = {} /\ update # {}
             /\ pc = "add" \/ (pc = "delete" /\ create = {}) ->
                [s EXCEPT !.pc = "update", !.todo = update, !.victim = {}]
          [] OTHER ->
                [s EXCEPT !.pc = "space", !.todo = {}, !.victim = {}, !.ns = None,
                          !.known = {}, !.spaces = @ \ {s.ns}]

(* A step of a task, and who runs after it: deleting a limit is awaited.   *)
Goes(t, s) ==
    /\ task' = [task EXCEPT ![t] = s]
    /\ turn' = IF s.pc \in {"delete", "remove"} THEN Await(t) ELSE t

(* The next namespace: what it holds now, and what has to go.              *)
Space(t) ==
    /\ task[t].pc = "space" /\ MayRun(t)
    /\ \E ns \in task[t].spaces :
         LET known == GetLimits(ns)
             kept == In(task[t].keep, ns)
             s == [task[t] EXCEPT !.ns = ns, !.known = known,
                     !.shadowed = @ \/ ~(kept \subseteq Union(kept, known))]
         IN  Goes(t, Loops(s, "delete", Without(known, kept), registry))
    /\ UNCHANGED <<kind, registry, hits, call, faults, late>>

(* delete_limit: first the limit's counters are deleted in the storage ... *)
DeleteLimit(t) ==
    /\ task[t].pc = "delete" /\ MayRun(t)
    /\ \E l \in task[t].todo :
         /\ DeleteCounters(l)
         /\ Goes(t, [task[t] EXCEPT !.pc = "remove", !.todo = @ \ {l},
                                     !.victim = {l}])
    /\ UNCHANGED <<kind, registry, call, faults>>

(* ... then the limit leaves the registry.                                 *)
DeleteLimitEnd(t) ==
    /\ task[t].pc = "remove" /\ MayRun(t)
    /\ \E l \in task[t].victim : RemoveLimit(l)
    /\ Goes(t, Loops(task[t], "delete", task[t].todo, registry'))
    /\ UNCHANGED <<kind, hits, call, faults, late>>

AddLimits(t) ==
    /\ task[t].pc = "add" /\ MayRun(t)
    /\ \E l \in task[t].todo :
         /\ AddLimit(l)
         /\ Goes(t, Loops(task[t], "add", task[t].todo \ {l}, registry'))
    /\ UNCHANGED <<kind, hits, call, faults, late>>

UpdateLimits(t) ==
    /\ task[t].pc = "update" /\ MayRun(t)
    /\ \E l \in task[t].todo :
         /\ UpdateLimit(l)
         /\ Goes(t, Loops(task[t], "update", task[t].todo \ {l}, registry'))
    /\ UNCHANGED <<kind, hits, call, faults, late>>

(* configure_with is done, or an error of delete_counters ends it early.   *)
Configured(t) == task[t].pc = "space" /\ task[t].spaces = {}
DeleteFails(t) == task[t].pc = "delete" /\ MayRun(t) /\ faults < MaxFaults

-----------------------------------------------------------------------------
(* Calls.                                                                  *)

Idle == [rpc |-> None, op |-> None, delta |-> 0, counters |-> {}, todo |-> {}, result |-> None]

(* counters_that_apply: a condition that cannot be evaluated panics, a     *)
(* variable that cannot be is an error; the order of the limits decides    *)
(* which of the two comes first.                                           *)
CountersThatApply(ns, ctx) ==
    LET limits == GetLimits(ns)
        made == {CounterNew(l, ctx) : l \in {m \in limits : Applies(m, ctx) = "true"}}
        failed == (IF \E l \in limits : Applies(l, ctx) = Panic THEN {Panic} ELSE {})
                  \cup {Error : m \in {n \in made : n.is = Error}}
    IN  [fails |-> failed, counters |-> {m.counter : m \in {n \in made : n.is = "Some"}}]

(* A call up to its first use of the storage; without counters it is done. *)
Begin(r, rpc, op, ns, ctx, delta) ==
    LET found == CountersThatApply(ns, ctx)
    IN  /\ call[r] = Idle
        /\ \E result \in IF found.fails # {} THEN found.fails
                          ELSE IF found.counters = {} THEN {"Ok"} ELSE {None} :
             call' = [call EXCEPT ![r] =
                        [rpc |-> rpc, op |-> op, delta |-> delta, counters |-> found.counters,
                         todo |-> IF result = None THEN found.counters ELSE {},
                         result |-> result]]

Running(r, ops) == call[r].op \in ops /\ call[r].result = None
Within(c, delta) == hits[CounterEq(c)] + delta <= c.limit.max
(* Those of the counters' limits that are being deleted, or are gone.      *)
Orphans(counters) ==
    {i \in Identities({c.limit : c \in counters}) :
        \/ i \notin Identities(registry)
        \/ \E t \in Tasks : i \in Identities(task[t].victim)}

Limited(r) == \E c \in call[r].counters : ~Within(c, call[r].delta)

Ends(r, result) == call' = [call EXCEPT ![r].result = result, ![r].todo = {}]

(* is_rate_limited                                                         *)
Check(r) ==
    /\ Running(r, {"check"})
    /\ Ends(r, IF Limited(r) THEN "Limited" ELSE "Ok")
    /\ UNCHANGED <<kind, registry, hits, task, turn, faults, late>>

(* reserve, which the holds of other calls may limit too.                  *)
Hold(r) ==
    /\ Running(r, {"reserve"})
    /\ \E result \in {"Ok", "Limited"} : (result = "Ok" => ~Limited(r)) /\ Ends(r, result)
    /\ UNCHANGED <<kind, registry, hits, task, turn, faults, late>>

(* check_rate_limited_and_update                                           *)
CheckAndUpdate(r) ==
    /\ Running(r, {"check_and_update"})
    /\ IF Limited(r)
       THEN Ends(r, "Limited") /\ UNCHANGED <<hits, late>>
       ELSE /\ Ends(r, "Ok")
            /\ hits' = [c \in CounterIds |->
                  hits[c] + IF \E d \in call[r].counters : CounterEq(d) = c
                            THEN call[r].delta ELSE 0]
            /\ late' = late \cup Orphans(call[r].counters)
    /\ UNCHANGED <<kind, registry, task, turn, faults>>

(* update_counters and commit_reservation: one counter after the other.    *)
Update(r, op) ==
    /\ Running(r, {op}) /\ call[r].todo # {}
    /\ \E c \in call[r].todo :
         /\ hits' = [hits EXCEPT ![CounterEq(c)] = @ + call[r].delta]
         /\ late' = late \cup Orphans({c})
         /\ call' = [call EXCEPT ![r].todo = @ \ {c},
               ![r].result = IF call[r].todo = {c} /\ op = "update" THEN "Ok" ELSE None]
    /\ UNCHANGED <<kind, registry, task, turn, faults>>

(* The end of commit_reservation: the reservation is released.             *)
Release(r) ==
    /\ Running(r, {"commit"}) /\ call[r].todo = {}
    /\ Ends(r, "Ok")
    /\ UNCHANGED <<kind, registry, hits, task, turn, faults, late>>

(* The calls of RateLimiter ...                                            *)
Blocking == kind = "Blocking"
IsRateLimited(r) == Blocking /\ Check(r)
CheckRateLimitedAndUpdate(r) == Blocking /\ CheckAndUpdate(r)
UpdateCounters(r) == Blocking /\ Update(r, "update")
ReserveAmount(r) == Blocking /\ Hold(r)
CommitReservation(r) == Blocking /\ (Update(r, "commit") \/ Release(r))

(* ... and of AsyncRateLimiter.                                            *)
Async == kind = "Async"
AsyncIsRateLimited(r) == Async /\ Check(r)
AsyncCheckRateLimitedAndUpdate(r) == Async /\ CheckAndUpdate(r)
AsyncUpdateCounters(r) == Async /\ Update(r, "update")
AsyncReserveAmount(r) == Async /\ Hold(r)
AsyncCommitReservation(r) == Async /\ (Update(r, "commit") \/ Release(r))

(* The storage fails, or has no reservations: what was updated stays, the  *)
(* rest is not done.                                                       *)
StorageFails(r) ==
    /\ call[r].op # None /\ call[r].result = None /\ faults < MaxFaults
    /\ faults' = faults + 1
    /\ \E error \in {"Transient", "Unsupported"} :
         /\ error = "Unsupported" => \/ call[r].op = "reserve"
                                     \/ call[r].op = "commit" /\ call[r].todo = {}
         /\ Ends(r, error)
    /\ UNCHANGED <<kind, registry, hits, task, turn, late>>
=============================================================================
