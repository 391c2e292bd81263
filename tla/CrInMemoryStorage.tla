-------------------------- MODULE CrInMemoryStorage --------------------------
(***************************************************************************)
(* The counters of the replicated storage                                  *)
(* (storage/distributed/mod.rs, cr_counter_value.rs): every node counts    *)
(* its own hits and remembers, in `others`, the highest count each peer    *)
(* has told it.  One counter, several nodes; the updates they send each    *)
(* other are delivered in any order, or lost with their session (the       *)
(* sessions are the subject of Replication).                               *)
(*                                                                         *)
(* A hit is recorded under the write lock of the limits map, an update is  *)
(* merged under its read lock - so merges of two peers' updates interleave *)
(* - and the value an update is made from is cloned, field by field, under *)
(* no lock at all.                                                         *)
(***************************************************************************)
EXTENDS Integers, FiniteSetsExt

CONSTANTS
  Nodes,     \* the servers
  MaxValue,  \* max_value of the counter's limit
  Seconds,   \* seconds of the counter's limit
  Second,    \* how many instants a second has
  Amounts,   \* the amounts of hits
  MaxNow,    \* bound: the last instant explored
  MaxCalls,  \* bound: how many hits are recorded
  MaxFaults  \* bound: lost updates, re-syncs and deletions

ASSUME NodesAssumption == IsFiniteSet(Nodes) /\ Amounts \subseteq Nat \ {0}
ASSUME WindowAssumption ==
  MaxValue \in Nat /\ Seconds \in Nat \ {0} /\ Second \in Nat \ {0}
ASSUME BoundsAssumption == MaxNow \in Nat /\ MaxCalls \in Nat /\ MaxFaults \in Nat

VARIABLES
  now,      \* the clock, the same at all nodes
  eager,    \* the limit has no variables: its counter is created with it
  present,  \* the nodes whose limits map has the counter
  value,    \* CrCounterValue.value ...
  others,   \* ... .others ...
  expiry,   \* ... and .expiry of each node
  work,     \* what each node's worker is doing
  merge,    \* the merge of an update in progress, by node and peer
  queued,   \* pairs of nodes: the first has an update to send to the second
  clone,    \* what has been cloned of an update to be sent, by pair
  net,      \* the updates on their way
  calls,    \* hits recorded so far
  faults,   \* faults so far
  mine,     \* history: own hits of each node since its window began
  marks     \* history: what happened that excuses a property

cell == <<value, others, expiry>>
history == <<mine, marks>>
vars == <<now, eager, present, cell, work, merge, queued, clone, net, calls, faults, history>>

Window == Seconds * Second
Peers(n) == Nodes \ {n}
Zero == [m \in Nodes |-> 0]
Nothing == [n \in Nodes |-> [m \in Nodes |-> <<>>]]

\* Limits without variables have their counter in the map from the start
\* (add_counter), others only once the node has used them.
AddCounter(ns) == IF eager THEN ns ELSE {}

Init ==
  /\ now = 1
  /\ eager \in BOOLEAN
  /\ present = AddCounter(Nodes)
  /\ value = Zero
  /\ others = [n \in Nodes |-> Zero]
  /\ expiry = [n \in Nodes |-> now + Window]
  /\ work = [n \in Nodes |-> <<"idle", 0>>]
  /\ merge = Nothing
  /\ queued = {}
  /\ clone = Nothing
  /\ net = {}
  /\ calls = 0 /\ faults = 0
  /\ mine = Zero /\ marks = {}
-----------------------------------------------------------------------------
\* CrCounterValue.

Expired(n, w) == expiry[n] <= w
ReadAt(n, w) ==
  IF n \notin present \/ Expired(n, w) THEN 0
  ELSE value[n] + MapThenSumSet(LAMBDA m : others[n][m], Peers(n))

\* An update carries the expiry in seconds.
Encode(e) == (e \div Second) * Second
Update(n, m, own, vs, e) ==
  [from |-> n, to |-> m, values |-> [vs EXCEPT ![n] = own], expires |-> Encode(e)]

\* The locks of a node's limits map.
Merging(n) == \E m \in Nodes : merge[n][m] # <<>>
Writing(n) == work[n][1] = "value"
-----------------------------------------------------------------------------
\* Recording hits.

\* evaluate: the hits of a counter that is not there are 0.
Evaluate(n, d) == ReadAt(n, now) + d <= MaxValue

\* check_and_update admits d more hits by what it reads ...
CheckAndUpdate(n, d) ==
  /\ work[n][1] = "idle" /\ calls < MaxCalls
  /\ Evaluate(n, d)
  /\ calls' = calls + 1
  /\ work' = [work EXCEPT ![n] = <<"admitted", d>>]
  /\ UNCHANGED <<now, eager, present, cell, merge, queued, clone, net, faults, history>>

\* ... and a report needs no admission.
Report(n, d) ==
  /\ work[n][1] = "idle" /\ calls < MaxCalls
  /\ calls' = calls + 1
  /\ work' = [work EXCEPT ![n] = <<"admitted", d>>]
  /\ UNCHANGED <<now, eager, present, cell, merge, queued, clone, net, faults, history>>

\* Faulty variant of UpdateCounter: the map is locked for reading only.
UpdateCounterShared(n) ==
  LET fresh   == n \notin present
      restart == ~fresh /\ Expired(n, now) IN
  /\ work[n][1] = "admitted"
  /\ work' = [work EXCEPT ![n] = <<"value", work[n][2], restart>>]
  /\ present' = present \cup {n}
  /\ expiry' = [expiry EXCEPT ![n] = IF fresh \/ restart THEN now + Window ELSE @]
  /\ mine' = [mine EXCEPT ![n] = IF fresh \/ restart THEN 0 ELSE @]
  /\ UNCHANGED <<now, eager, value, others, merge, queued, clone, net, calls, faults, marks>>

\* update_counter takes the write lock, creates the counter if need be, and
\* inc_at opens a new window when this one is over ...
UpdateCounter(n) ==
  LET fresh   == n \notin present
      restart == ~fresh /\ Expired(n, now) IN
  /\ work[n][1] = "admitted"
  /\ ~Merging(n)
  /\ work' = [work EXCEPT ![n] = <<"value", work[n][2], restart>>]
  /\ present' = present \cup {n}
  /\ expiry' = [expiry EXCEPT ![n] = IF fresh \/ restart THEN now + Window ELSE @]
  /\ mine' = [mine EXCEPT ![n] = IF fresh \/ restart THEN 0 ELSE @]
  /\ UNCHANGED <<now, eager, value, others, merge, queued, clone, net, calls, faults, marks>>

\* Faulty variant of Published: the counter is not published.
PublishedNot(n) == queued

\* increment_counter publishes the counter to all sessions.
Published(n) == queued \cup ({n} \X Peers(n))

\* ... and stores or adds the hits.
IncAt(n) ==
  LET d == work[n][2] IN
  /\ work[n][1] = "value"
  /\ value' = [value EXCEPT ![n] = IF work[n][3] THEN d ELSE @ + d]
  /\ mine' = [mine EXCEPT ![n] = @ + d]
  /\ queued' = Published(n)
  /\ work' = [work EXCEPT ![n] = <<"idle", 0>>]
  /\ UNCHANGED <<now, eager, present, others, expiry, merge, clone, net, calls, faults, marks>>
-----------------------------------------------------------------------------
\* Sending updates.

\* Session::process clones the counter: first `value` ...
CloneValue(n, m) ==
  /\ <<n, m>> \in queued /\ clone[n][m] = <<>>
  /\ queued' = queued \ {<<n, m>>}
  /\ clone' = [clone EXCEPT ![n][m] = <<value[n]>>]
  /\ UNCHANGED <<now, eager, present, cell, work, merge, net, calls, faults, history>>

\* ... then `others` and `expiry`; it sends what has not expired.
Send(n, m) ==
  /\ clone[n][m] # <<>>
  /\ clone' = [clone EXCEPT ![n][m] = <<>>]
  /\ net' = IF Expired(n, now) THEN net
            ELSE net \cup {Update(n, m, clone[n][m][1], others[n], expiry[n])}
  /\ UNCHANGED <<now, eager, present, cell, work, merge, queued, calls, faults, history>>

\* A new session: updates that were on their way may be lost, then process_re_sync
\* sends the node's own count, if there is any.
ReSync(n, m) ==
  /\ faults < MaxFaults
  /\ faults' = faults + 1
  /\ ~Writing(n)
  /\ \E lost \in SUBSET {u \in net : u.from = n /\ u.to = m} :
       net' = (net \ lost) \cup
              IF n \notin present \/ value[n] = 0 \/ Expired(n, now) THEN {}
              ELSE {Update(n, m, value[n], Zero, expiry[n])}
  /\ UNCHANGED <<now, eager, present, cell, work, merge, queued, clone, calls, history>>
-----------------------------------------------------------------------------
\* Merging updates.

\* on_counter_update takes the read lock and expects to know the counter.
Receive(u) ==
  LET n == u.to IN
  /\ merge[n][u.from] = <<>> /\ ~Writing(n)
  /\ net' = net \ {u}
  /\ IF n \notin present
     THEN marks' = marks \cup {"unknown"} /\ UNCHANGED merge
     ELSE /\ marks' = IF u.expires > now THEN marks ELSE marks \cup {"late"}
          /\ merge' = [merge EXCEPT ![n][u.from] =
               IF u.expires > now THEN <<"expiry", u, now, 0>> ELSE <<>>]
  /\ UNCHANGED <<now, eager, present, cell, work, queued, clone, calls, faults, mine>>

\* The next instruction of the merge at n of an update from m, and a load that a
\* later one relies on.
At(n, m, l) == merge[n][m] # <<>> /\ merge[n][m][1] = l
Then(n, m, l, x) == merge' = [merge EXCEPT ![n][m] = <<l, @[2], @[3], x>>]

\* Faulty variant of Earlier: the later expiry wins.
Later(n, e, w) == e > expiry[n] /\ e > w

\* AtomicExpiryTime::merge_at: the earlier expiry wins, if it is not over ...
Earlier(n, e, w) == e < expiry[n] /\ e > w

LoadExpiry(n, m) ==
  /\ At(n, m, "expiry")
  /\ Then(n, m, IF Earlier(n, merge[n][m][2].expires, merge[n][m][3]) THEN "exchange" ELSE "expired",
          expiry[n])
  /\ UNCHANGED <<now, eager, present, cell, work, queued, clone, net, calls, faults, history>>

\* ... and no other thread has changed ours in the meantime.
Exchange(n, m) ==
  /\ At(n, m, "exchange")
  /\ expiry' = [expiry EXCEPT ![n] = IF @ = merge[n][m][4] THEN merge[n][m][2].expires ELSE @]
  /\ Then(n, m, "expired", 0)
  /\ UNCHANGED <<now, eager, present, value, others, work, queued, clone, net, calls, faults,
                 history>>

\* merge_at: is our window over all the same?  If not, load our own count.
CheckExpired(n, m) ==
  /\ At(n, m, "expired")
  /\ IF Expired(n, merge[n][m][3]) THEN Then(n, m, "reset", 0) ELSE Then(n, m, "values", value[n])
  /\ UNCHANGED <<now, eager, present, cell, work, queued, clone, net, calls, faults, history>>

\* reset, under the lock of `others`.  What the merge of another peer's update has
\* just stored in the new window is lost; so are the hits of a peer whose window,
\* begun later, is not over.
Reset(n, m) ==
  /\ At(n, m, "reset")
  /\ expiry' = [expiry EXCEPT ![n] = merge[n][m][2].expires]
  /\ value' = [value EXCEPT ![n] = 0]
  /\ others' = [others EXCEPT ![n] = Zero]
  /\ mine' = [mine EXCEPT ![n] = IF Expired(n, now) THEN 0 ELSE @]
  /\ marks' = marks \cup (IF Expired(n, now) THEN {} ELSE {"raced"})
       \cup (IF \E k \in Peers(n) : others[n][k] > 0 /\ ~Expired(k, now) THEN {"cleared"} ELSE {})
  /\ Then(n, m, "values", 0)
  /\ UNCHANGED <<now, eager, present, work, queued, clone, net, calls, faults>>

\* Our own count is raised by what the sender knows above the count we loaded.
Raised(n, v, seen) == IF v > seen THEN value[n] + v - seen ELSE value[n]

\* The values: the higher count of each actor.
MergeValues(n, m) ==
  LET vs == merge[n][m][2].values IN
  /\ At(n, m, "values")
  /\ value' = [value EXCEPT ![n] = Raised(n, vs[n], merge[n][m][4])]
  /\ others' = [others EXCEPT ![n] =
       [k \in Nodes |-> IF k = n THEN 0 ELSE Max({others[n][k], vs[k]})]]
  /\ merge' = [merge EXCEPT ![n][m] = <<>>]
  /\ UNCHANGED <<now, eager, present, expiry, work, queued, clone, net, calls, faults, history>>
-----------------------------------------------------------------------------
\* The environment.

\* The server is restarted: it has no hits, and its sessions are gone.
Restart(n) ==
  /\ faults < MaxFaults
  /\ faults' = faults + 1
  /\ present' = (present \ {n}) \cup AddCounter({n})
  /\ value' = [value EXCEPT ![n] = 0]
  /\ others' = [others EXCEPT ![n] = Zero]
  /\ expiry' = [expiry EXCEPT ![n] = now + Window]
  /\ work' = [work EXCEPT ![n] = <<"idle", 0>>]
  /\ merge' = [merge EXCEPT ![n] = [m \in Nodes |-> <<>>]]
  /\ clone' = [clone EXCEPT ![n] = [m \in Nodes |-> <<>>]]
  /\ queued' = {q \in queued : n \notin {q[1], q[2]}}
  /\ net' = {u \in net : n \notin {u.from, u.to}}
  /\ mine' = [mine EXCEPT ![n] = 0]
  /\ UNCHANGED <<now, eager, calls, marks>>

\* The counter leaves the map.  A session that is about to send it still has the
\* old one, and sends it.
Forget(n) ==
  LET old(m) == Update(n, m, IF clone[n][m] # <<>> THEN clone[n][m][1] ELSE value[n],
                       others[n], expiry[n]) IN
  /\ n \in present /\ faults < MaxFaults
  /\ faults' = faults + 1
  /\ ~Merging(n) /\ ~Writing(n)
  /\ present' = present \ {n}
  /\ net' = net \cup {old(m) : m \in {k \in Peers(n) : <<n, k>> \in queued \/ clone[n][k] # <<>>}}
  /\ queued' = queued \ ({n} \X Nodes)
  /\ clone' = [clone EXCEPT ![n] = [m \in Nodes |-> <<>>]]
  /\ value' = [value EXCEPT ![n] = 0]
  /\ others' = [others EXCEPT ![n] = Zero]
  /\ mine' = [mine EXCEPT ![n] = 0]
  /\ UNCHANGED <<now, eager, expiry, work, merge, calls, marks>>

\* delete_counters of the limit, and clear, of all limits.
DeleteCounters(n) == Forget(n)
Clear(n) == Forget(n)

Tick ==
  /\ now < MaxNow
  /\ now' = now + 1
  /\ UNCHANGED <<eager, present, cell, work, merge, queued, clone, net, calls, faults, mine, marks>>

Quiesce == (\A n \in Nodes : work[n][1] = "idle" /\ ~Merging(n)) /\ UNCHANGED vars

Next ==
  \/ \E n \in Nodes :
       \/ \E d \in Amounts : CheckAndUpdate(n, d) \/ Report(n, d)
       \/ UpdateCounter(n) \/ IncAt(n) \/ DeleteCounters(n) \/ Clear(n) \/ Restart(n)
       \/ \E m \in Peers(n) :
            \/ CloneValue(n, m) \/ Send(n, m) \/ ReSync(n, m)
            \/ LoadExpiry(n, m) \/ Exchange(n, m) \/ CheckExpired(n, m)
            \/ Reset(n, m) \/ MergeValues(n, m)
  \/ \E u \in net : Receive(u)
  \/ Tick
  \/ Quiesce

Spec == Init /\ [][Next]_vars
-----------------------------------------------------------------------------
Updates == [from : Nodes, to : Nodes, values : [Nodes -> Nat], expires : Nat]
TypeOK ==
  /\ now \in Nat /\ eager \in BOOLEAN
  /\ present \subseteq Nodes
  /\ value \in [Nodes -> Nat] /\ others \in [Nodes -> [Nodes -> Nat]]
  /\ expiry \in [Nodes -> Nat]
  /\ \A n \in Nodes : work[n][1] \in {"idle", "admitted", "value"}
  /\ \A n, m \in Nodes : merge[n][m] # <<>> =>
       merge[n][m] \in
         {"expiry", "exchange", "expired", "reset", "values"} \X Updates \X Nat \X Nat
  /\ queued \subseteq Nodes \X Nodes
  /\ \A n, m \in Nodes : clone[n][m] # <<>> => clone[n][m][1] \in Nat
  /\ net \subseteq Updates
  /\ calls \in Nat /\ faults \in Nat
  /\ mine \in [Nodes -> Nat]
  /\ marks \subseteq {"unknown", "raced", "cleared", "late"}

(***************************************************************************)
(* A node never forgets hits of its own while their window lasts, whatever *)
(* is merged meanwhile: recording is exclusive with merging (the write     *)
(* lock of update_counter).                                                *)
(***************************************************************************)
OwnHitsCounted ==
  \A n \in Nodes : ~Writing(n) /\ n \in present /\ ~Expired(n, now) => value[n] >= mine[n]

(***************************************************************************)
(* While the server runs, a window is never extended: peers agree on the   *)
(* earliest end - unless the merges of two updates both find the old       *)
(* window over, and the second resets the window of the first.             *)
(***************************************************************************)
WindowNeverExtended ==
  [][\A n \in Nodes :
       (n \in present /\ ~Expired(n, now) /\ "raced" \notin marks' /\ faults' = faults)
         => expiry'[n] <= expiry[n]]_vars

Quiet ==
  /\ net = {} /\ queued = {} /\ clone = Nothing
  /\ \A n \in Nodes : work[n][1] = "idle" /\ ~Merging(n)

(***************************************************************************)
(* Once all updates have arrived, a node knows at least the hits of each   *)
(* peer whose window ends with its own - if no update was lost or came too *)
(* late, and the windows of a node's peers were over when its own was.     *)
(***************************************************************************)
Converged ==
  Quiet /\ faults = 0 /\ marks = {} =>
    \A n, m \in present :
      ~Expired(n, now) /\ expiry[n] = expiry[m] /\ n # m => others[n][m] >= value[m]

(***************************************************************************)
(* An increment that opens a new window is all the window holds: what this *)
(* node and its peers counted in the last one has expired, as the tests of *)
(* CrCounterValue have it.                                                 *)
(***************************************************************************)
NewWindowIsEmpty ==
  [][\A n \in Nodes : Writing(n) /\ ~Writing(n)' /\ work[n][3] => ReadAt(n, now)' = work[n][2]]_vars
=============================================================================
