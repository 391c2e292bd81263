------------------------------- MODULE Server -------------------------------
(***************************************************************************)
(* The limitador server (limitador-server/src): main's start-up, the watch *)
(* on the limits file and the tasks that reload it, the status, and the    *)
(* handlers of the three front ends (Envoy RLS, Kuadrant RLS and HTTP)     *)
(* over the rate limiter of module RateLimiter.                            *)
(*                                                                         *)
(* A handler takes two steps around the limiter's call: up to the call's   *)
(* first use of the storage, and from its result to the answer.            *)
(***************************************************************************)
EXTENDS RateLimiter

CONSTANTS
    Files,        \* the limits files that parse, by name
    Start,        \* the contents the limits file may have at the start
    MaxChanges,   \* bound on the changes of the files
    MaxCalls,     \* bound on the requests
    Deltas        \* the hits of the requests

VARIABLES
    main,         \* how far main() has come
    content,      \* the limits file: a name of Files, "bad" or "missing"
    place,        \* its canonical path
    known,        \* canonical_cfg, the one the watcher knows
    events,       \* the events the watcher has not handled
    labelsFile,   \* the labels file
    labels,       \* PrometheusMetrics.custom_labels
    relabel,      \* a task that reloads the labels is spawned
    status,       \* the Status served over HTTP
    metrics,      \* the Prometheus counters
    answer,       \* the answer this step gives: its rpc, result and code
    changes,      \* how often the files have changed
    served,       \* how many requests have come
    excuse,       \* why the registry may not be the file
    unmetered     \* hits of calls that no metric counts

limiterVars == <<kind, registry, hits, task, turn, call, faults, late>>
fileVars == <<content, place, labelsFile, changes>>
watchVars == <<main, known, events, relabel>>
ghostVars == <<excuse, unmetered>>
vars == <<limiterVars, fileVars, watchVars, ghostVars, labels, status, metrics,
          answer, served>>

Parses(c) == c \in DOMAIN Files
Listed == [f \in DOMAIN Files |-> Classify(Files[f])]

Init ==
    /\ kind \in {"Blocking", "Async"}
    /\ registry = {} /\ turn = None /\ faults = 0 /\ late = {}
    /\ hits = [c \in CounterIds |-> 0]
    /\ task = [t \in Tasks |-> Resting]
    /\ call = [r \in Calls |-> Idle]
    /\ main = "loading"
    /\ content \in Start /\ labelsFile = "first" /\ labels = None
    /\ place = 0 /\ known = 0 /\ events = <<>> /\ relabel = FALSE
    /\ status = [version |-> 0, errSince |-> 0]
    /\ metrics = [authorized |-> 0, limited |-> 0, reports |-> 0, hits |-> 0]
    /\ answer = <<>>
    /\ changes = 0 /\ served = 0
    /\ excuse = {} /\ unmetered = 0

-----------------------------------------------------------------------------
(* The files change under the server; before the watch is set, unnoticed.  *)

Notify(event) ==
    /\ changes < MaxChanges /\ changes' = changes + 1
    /\ events' = IF main = "serving" THEN Append(events, event) ELSE events
    /\ UNCHANGED <<limiterVars, main, known, relabel, unmetered, labels,
                   status, metrics, served>>

Unwatched == excuse' = IF main = "serving" THEN excuse ELSE excuse \cup {"early"}

(* The file is written in place: an event on its own path.                 *)
Rewrite(f) ==
    /\ content' = f /\ Notify("limits") /\ Unwatched
    /\ UNCHANGED <<place, labelsFile>>

(* A directory of its path is replaced, as Kubernetes does with a mounted  *)
(* ConfigMap: an event on another path, and a new canonical path.          *)
Swap(f) ==
    /\ content' = f /\ place' = place + 1 /\ Notify("other") /\ Unwatched
    /\ UNCHANGED labelsFile

(* The file is removed, an event the watcher does not heed.                *)
RemoveFile ==
    /\ content # "missing" /\ content' = "missing" /\ Unwatched
    /\ changes < MaxChanges /\ changes' = changes + 1
    /\ UNCHANGED <<limiterVars, watchVars, place, labelsFile, unmetered,
                   labels, status, metrics, served>>

RewriteLabels(f) ==
    /\ labelsFile' = f /\ Notify("labels")
    /\ UNCHANGED <<content, place, excuse>>

-----------------------------------------------------------------------------
(* main: the limits and the labels are loaded, the limits file is located, *)
(* the watch is set; a file that cannot be read ends the process.          *)

(* parse_custom_labels_file and set_custom_labels.                         *)
ParsesLabels == labelsFile # "bad"
SetCustomLabels(new) == labels' = new

Exit == main' = "exited" /\ UNCHANGED <<registry, labels>>

Load ==
    /\ main = "loading"
    /\ IF Parses(content) /\ ParsesLabels
       THEN /\ main' = "loaded" /\ SetCustomLabels(labelsFile)
            /\ registry' = Listed[content]
       ELSE Exit
    /\ UNCHANGED <<kind, hits, task, turn, call, faults, late, fileVars, known,
                   events, relabel, excuse, unmetered, status, metrics,
                   served>>

Locate ==
    /\ main = "loaded"
    /\ IF content = "missing" THEN main' = "exited" /\ UNCHANGED known
       ELSE main' = "located" /\ known' = place
    /\ UNCHANGED <<limiterVars, fileVars, events, relabel, ghostVars, labels,
                   status, metrics, served>>

Serve ==
    /\ main = "located" /\ main' = "serving"
    /\ UNCHANGED <<limiterVars, fileVars, known, events, relabel, ghostVars,
                   labels, status, metrics, served>>

-----------------------------------------------------------------------------
(* The watcher's callback, and the tasks it spawns.                        *)


(* The condition on an event, for a limits file that can be canonicalized. *)
Moved(event) == event = "limits" \/ known # place

Watch ==
    /\ main = "serving" /\ events # <<>>
    /\ events' = Tail(events)
    /\ IF content # "missing" /\ Moved(Head(events))
       THEN /\ known' = place
            /\ LET t == CHOOSE t \in Tasks : task[t].pc = "resting"
               IN  task' = [task EXCEPT ![t].pc = "spawned"]
       ELSE UNCHANGED <<known, task>>
    /\ relabel' = (relabel \/ Head(events) = "labels")
    /\ UNCHANGED <<kind, registry, hits, turn, call, faults, late, fileVars, main,
                   ghostVars, labels, status, metrics, served>>

(* The task for the labels: a file that cannot be read changes nothing.    *)
Relabel ==
    /\ relabel /\ turn = None
    /\ relabel' = FALSE
    /\ SetCustomLabels(IF ParsesLabels THEN labelsFile ELSE labels)
    /\ UNCHANGED <<limiterVars, fileVars, main, known, events, ghostVars, status,
                   metrics, served>>

ConfigSuccess == status' = [version |-> status.version + 1, errSince |-> 0]
ConfigFailure == status' = [status EXCEPT !.errSince = @ + 1]

(* load_limits_from_file: up to configure_with's first await, or an error. *)
LoadLimitsFromFile(t) ==
    /\ task[t].pc = "spawned" /\ turn = None
    /\ IF Parses(content)
       THEN ConfigureWith(t, Listed[content]) /\ UNCHANGED status
       ELSE /\ ConfigFailure /\ UNCHANGED turn
            /\ task' = [task EXCEPT ![t] = Resting]
    /\ UNCHANGED <<kind, registry, hits, call, faults, late, fileVars, watchVars,
                   ghostVars, labels, metrics, served>>

Rested(t) == task' = [task EXCEPT ![t] = Resting] /\ turn' = None

LoadSucceeds(t) ==
    /\ Configured(t) /\ MayRun(t) /\ Rested(t) /\ ConfigSuccess
    /\ excuse' = (IF task[t].overlapped THEN {"overlapped"} ELSE {})
                 \cup (IF task[t].shadowed THEN {"shadowed"} ELSE {})
    /\ UNCHANGED <<kind, registry, hits, call, faults, late, fileVars, watchVars,
                   unmetered, labels, metrics, served>>

LoadFails(t) ==
    /\ DeleteFails(t) /\ faults' = faults + 1 /\ Rested(t) /\ ConfigFailure
    /\ UNCHANGED <<kind, registry, hits, call, late, fileVars, watchVars,
                   ghostVars, labels, metrics, served>>

serverVars == <<fileVars, watchVars, ghostVars, labels, status, metrics,
                served>>

(* The steps of the limiter, which leave the rest of the server alone.     *)
Configure(t) ==
    /\ \/ Space(t) \/ DeleteLimit(t) \/ DeleteLimitEnd(t)
       \/ AddLimits(t) \/ UpdateLimits(t)
    /\ UNCHANGED serverVars

Call(r) ==
    /\ \/ IsRateLimited(r) \/ CheckRateLimitedAndUpdate(r) \/ UpdateCounters(r)
       \/ ReserveAmount(r) \/ CommitReservation(r)
       \/ AsyncIsRateLimited(r) \/ AsyncCheckRateLimitedAndUpdate(r)
       \/ AsyncUpdateCounters(r) \/ AsyncReserveAmount(r) \/ AsyncCommitReservation(r)
       \/ StorageFails(r)
    /\ UNCHANGED serverVars

-----------------------------------------------------------------------------
(* The handlers, up to the limiter's call.                                 *)

Arrives(r, rpc, op, ns, ctx, delta) ==
    /\ main = "serving" /\ served < MaxCalls /\ served' = served + 1
    /\ Begin(r, rpc, op, ns, ctx, delta)
    /\ UNCHANGED <<kind, registry, hits, task, turn, faults, late, fileVars,
                   watchVars, ghostVars, labels, status, metrics>>

(* The gRPC handlers answer a request without a domain themselves; a       *)
(* commit's answer has no code, and says that nothing was released.        *)
Unknown(rpc) ==
    /\ main = "serving" /\ served < MaxCalls /\ served' = served + 1
    /\ answer' = <<rpc, None, IF rpc = "Commit" THEN "NotReleased" ELSE "Unknown">>
    /\ UNCHANGED <<limiterVars, fileVars, watchVars, ghostVars, labels, status,
                   metrics>>

(* "hits_addend" defaults to 1.                                            *)
Addend(n) == IF n = 0 THEN 1 ELSE n

ShouldRateLimit(r, ns, ctx, n) ==
    Arrives(r, "ShouldRateLimit", "check_and_update", ns, ctx, Addend(n))
CheckRateLimit(r, ns, ctx) == Arrives(r, "CheckRateLimit", "check", ns, ctx, 1)
Report(r, ns, ctx, n) == Arrives(r, "Report", "update", ns, ctx, Addend(n))
Reserve(r, ns, ctx, n) == Arrives(r, "Reserve", "reserve", ns, ctx, n)
Commit(r, ns, ctx, n) == Arrives(r, "Commit", "commit", ns, ctx, n)

HttpCheck(r, ns, ctx, n) == Arrives(r, "check", "check", ns, ctx, n)
HttpReport(r, ns, ctx, n) == Arrives(r, "report", "update", ns, ctx, n)
HttpCheckAndReport(r, ns, ctx, n) ==
    Arrives(r, "check_and_report", "check_and_update", ns, ctx, n)

-----------------------------------------------------------------------------
(* The handlers, from the call's result to the answer.  A handler that     *)
(* panics drops its connection and answers nothing.                        *)


(* status_from_error                                                       *)
StatusFromError(result) ==
    CASE result = Error       -> "internal"
      [] result = "Transient" -> "unavailable"
      [] OTHER                -> "failed_precondition"

Errors == {Error, "Transient", "Unsupported"}

Answers(r, rpc, code, counted, missed) ==
    /\ call[r].rpc = rpc
    /\ answer' = <<rpc, call[r].result, code>>
    /\ metrics' = counted
    /\ unmetered' = unmetered + missed
    /\ call' = [call EXCEPT ![r] = Idle]
    /\ UNCHANGED <<kind, registry, hits, task, turn, faults, late, fileVars,
                   watchVars, excuse, labels, status, served>>

Panics(r) ==
    /\ call[r].result = Panic
    /\ Answers(r, call[r].rpc, "dropped", metrics, 0)

IncrLimitedCalls == [metrics EXCEPT !.limited = @ + 1]
IncrAuthorizedCalls(n) == [metrics EXCEPT !.authorized = @ + 1, !.hits = @ + n]
IncrReportCalls(n) == [metrics EXCEPT !.reports = @ + 1, !.hits = @ + n]

ShouldRateLimitEnd(r) ==
    LET result == call[r].result
    IN  \/ /\ result \in Errors
           /\ Answers(r, "ShouldRateLimit", "unavailable", metrics, 0)
        \/ /\ result = "Limited"
           /\ Answers(r, "ShouldRateLimit", "OverLimit", IncrLimitedCalls, 0)
        \/ /\ result = "Ok"
           /\ Answers(r, "ShouldRateLimit", "Ok",
                      IncrAuthorizedCalls(call[r].delta), 0)

Checked(r, rpc) ==
    LET result == call[r].result
    IN  \/ /\ result \in Errors
           /\ Answers(r, rpc, StatusFromError(result), metrics, 0)
        \/ result = "Limited" /\ Answers(r, rpc, "OverLimit", IncrLimitedCalls, 0)
        \/ result = "Ok" /\ Answers(r, rpc, "Ok", IncrAuthorizedCalls(0), 0)

CheckRateLimitEnd(r) == Checked(r, "CheckRateLimit")
ReserveEnd(r) == Checked(r, "Reserve")

Reported(r, rpc) ==
    LET result == call[r].result
    IN  \/ /\ result \in Errors
           /\ Answers(r, rpc, StatusFromError(result), metrics, call[r].delta)
        \/ result = "Ok" /\ Answers(r, rpc, "Ok", IncrReportCalls(call[r].delta), 0)

ReportEnd(r) == Reported(r, "Report")
CommitEnd(r) == Reported(r, "Commit")

HttpCheckEnd(r) ==
    LET result == call[r].result
    IN  \/ result \in Errors /\ Answers(r, "check", "500", metrics, 0)
        \/ result = "Limited" /\ Answers(r, "check", "429", metrics, 0)
        \/ result = "Ok" /\ Answers(r, "check", "200", metrics, 0)

HttpReportEnd(r) ==
    LET result == call[r].result
    IN  \/ result \in Errors /\ Answers(r, "report", "500", metrics, call[r].delta)
        \/ result = "Ok" /\ Answers(r, "report", "200", metrics, call[r].delta)

HttpCheckAndReportEnd(r) ==
    LET result == call[r].result
    IN  \/ result \in Errors /\ Answers(r, "check_and_report", "500", metrics, 0)
        \/ /\ result = "Limited"
           /\ Answers(r, "check_and_report", "429", IncrLimitedCalls, 0)
        \/ /\ result = "Ok"
           /\ Answers(r, "check_and_report", "200",
                      IncrAuthorizedCalls(call[r].delta), 0)

-----------------------------------------------------------------------------
Change ==
    \/ \E f \in DOMAIN Files \cup {"bad"} : Rewrite(f) \/ Swap(f)
    \/ RemoveFile
    \/ \E f \in {"second", "bad"} : RewriteLabels(f)

Request(r) ==
    \E ns \in Namespaces, ctx \in Contexts, n \in Deltas :
        \/ ShouldRateLimit(r, ns, ctx, n) \/ CheckRateLimit(r, ns, ctx)
        \/ Report(r, ns, ctx, n) \/ Reserve(r, ns, ctx, n) \/ Commit(r, ns, ctx, n)
        \/ HttpCheck(r, ns, ctx, n) \/ HttpReport(r, ns, ctx, n)
        \/ HttpCheckAndReport(r, ns, ctx, n)

Respond(r) ==
    \/ ShouldRateLimitEnd(r) \/ Panics(r)
    \/ CheckRateLimitEnd(r) \/ ReportEnd(r) \/ ReserveEnd(r) \/ CommitEnd(r)
    \/ HttpCheckEnd(r) \/ HttpReportEnd(r) \/ HttpCheckAndReportEnd(r)

Reload(t) == LoadLimitsFromFile(t) \/ Configure(t) \/ LoadSucceeds(t) \/ LoadFails(t)

Settled == main = "serving" /\ events = <<>> /\ \A t \in Tasks : task[t] = Resting

(* Nothing left to do, or the process is gone.                             *)
Quiesce ==
    /\ \/ main = "exited"
       \/ /\ Settled /\ ~relabel
          /\ \A r \in Calls : call[r] = Idle
    /\ UNCHANGED vars

Progress == Load \/ Locate \/ Serve \/ Watch \/ \E t \in Tasks : Reload(t)

Next ==
    \/ /\ \/ Progress \/ Relabel \/ Change
          \/ \E r \in Calls : Request(r) \/ Call(r)
       /\ answer' = <<>>
    \/ \E r \in Calls : Respond(r)
    \/ \E rpc \in {"ShouldRateLimit", "CheckRateLimit", "Report", "Reserve",
                    "Commit"} : Unknown(rpc)
    \/ Quiesce

Spec == Init /\ [][Next]_vars

-----------------------------------------------------------------------------
(* Properties.                                                             *)

AlwaysListed ==
    {i \in Identities(Versions) :
        \A f \in DOMAIN Files : i \in Identities(Listed[f])}

(* The types, and what the registry's HashSet guarantees: one version per  *)
(* limit.  The runtime's thread is held only by a task that configures.    *)
TypeOK ==
    /\ kind \in {"Blocking", "Async"}
    /\ registry \subseteq Versions
    /\ \A l, m \in registry : SameLimit(l, m) => l = m
    /\ hits \in [CounterIds -> Nat] /\ late \subseteq Identities(Versions)
    /\ \A t \in Tasks :
         /\ task[t].pc \in {"resting", "spawned", "space", "delete", "remove",
                           "add", "update"}
         /\ task[t].keep \cup task[t].todo \subseteq Versions
         /\ turn = t => Configuring(t)
    /\ \A r \in Calls :
         call[r].result \in {None, "Ok", "Limited", Panic} \cup Errors
    /\ main \in {"loading", "loaded", "located", "serving", "exited"}
    /\ content \in DOMAIN Files \cup {"bad", "missing"}
    /\ known <= place /\ Len(events) <= MaxChanges
    /\ status \in [version : 0..MaxChanges, errSince : 0..MaxChanges]
    /\ excuse \subseteq {"early", "overlapped", "shadowed"}


(* configure_with gives the limits it keeps their new max_value: the same  *)
(* without the last exception.                                             *)
UpdatesApplied ==
    Settled /\ Parses(content) /\ status.errSince = 0 /\ excuse \subseteq {"shadowed"}
        => registry = Listed[content]

(* A limit that every version of the file lists is registered from the     *)
(* start on: no reload, failed or overlapping, leaves it unenforced for a  *)
(* moment.                                                                 *)
KeptStaysRegistered == main = "serving" => AlwaysListed \subseteq Identities(registry)




(* The storage keys agree with the equality of limits and counters: two    *)
(* counters of registered limits share a key of Redis or of the disk       *)
(* storage just when they are equal, and no two registered limits share    *)
(* the set that lists their counters; the key of a limit without id, read  *)
(* back, is the counter again, on disk its limit and its plain variables.  *)
Faithful(limits) ==
    LET made == {CounterNew(l, ctx) : l \in limits, ctx \in Contexts}
        used == {m.counter : m \in {n \in made : n.is = "Some"}}
    IN  /\ \A c, d \in used :
             /\ KeyForCounter(c) = KeyForCounter(d) <=> CounterEq(c) = CounterEq(d)
             /\ KeyForDisk(c) = KeyForDisk(d) <=> CounterEq(c) = CounterEq(d)
        /\ \A l, m \in limits : KeyForCountersOfLimit(l) = KeyForCountersOfLimit(m) => l = m
        /\ \A c \in used :
             LET disk == PartialFromDisk(KeyForDisk(c), c.limit.variables)
             IN  /\ c.limit.id = None
                      => CounterEq(CounterFromKey(KeyForCounter(c), c.limit))
                            = CounterEq(c)
                 /\ SameLimit(disk.limit, c.limit)
                 /\ disk.vars = {v \in c.vars : Len(v[1]) = 1}
FaithfulRegistries == {limits \in SUBSET Versions : Faithful(limits)}

=============================================================================
