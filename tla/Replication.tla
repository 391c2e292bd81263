----------------------------- MODULE Replication -----------------------------
(***************************************************************************)
(* The replication sessions of the distributed storage: Broker and Session *)
(* of storage/distributed/grpc/mod.rs, with the re-sync task of            *)
(* storage/distributed/mod.rs.                                             *)
(*                                                                         *)
(* A node dials the URLs it is configured with, and once a second the      *)
(* peers it knows but has no session with.  Both ends of a stream run the  *)
(* handshake, under which each decides whether to keep the stream; then    *)
(* both run Session::process until the stream ends.  A peer's URL is       *)
(* abstracted to whether a node has one, a node's counters to the number   *)
(* of hits it has recorded (CrInMemoryStorage has the values and windows). *)
(* At most one stream in each direction is open between two nodes.         *)
(***************************************************************************)
EXTENDS Naturals, Sequences, FiniteSets, SequencesExt, FiniteSetsExt

CONSTANTS
  Nodes,
  Id,          \* the order of the nodes' identifiers
  PeerUrls,    \* <<n, p>>: node n is configured with the URL of p
  Room,        \* packets that fit in a stream
  MaxRequests, \* the capacity of the re-sync queue
  MaxHits, MaxFaults

VARIABLES
  phase,       \* of both ends of the stream that one node opened to another
  inbox,       \* packets on their way to an end
  session,     \* that a node's tracker of a peer has
  dialled,     \* URLs of the configuration that had a successful handshake
  unread,      \* broadcasts that a session has not received yet
  pending,     \* updates to send: "no", "notified" or "stalled"
  requests,    \* the re-sync queue, the request being served first
  sent,        \* nodes whose first request has got the counters
  know,        \* hits of each node, as known to a node
  owed,        \* history: hits of an end's node when its session began
  faults,
  panicked     \* history: sessions that died without being closed

Sides == {"client", "server"}
Ends == {<<url[1], url[2], s>> : url \in PeerUrls, s \in Sides}
streams == <<phase, inbox>>
peers == <<session, dialled>>
updates == <<unread, pending, requests, sent, know, owed>>
vars == <<streams, peers, updates, faults, panicked>>

Owner(e) == IF e[3] = "client" THEN e[1] ELSE e[2]
Peer(e) == IF e[3] = "client" THEN e[2] ELSE e[1]
Other(e) == <<e[1], e[2], IF e[3] = "client" THEN "server" ELSE "client">>

None == <<>>
Dead == <<"dead">>    \* a session that no task runs any more
Session == {"asked", "open"}
Ended == {"closing", "gone"}

Init ==
  /\ phase = [e \in Ends |-> "gone"]
  /\ inbox = [e \in Ends |-> <<>>]
  /\ session = [n \in Nodes |-> [p \in Nodes |-> None]]
  /\ dialled = {}
  /\ unread = [e \in Ends |-> 0]
  /\ pending = [e \in Ends |-> "no"]
  /\ requests = [n \in Nodes |-> <<>>]
  /\ sent = {}
  /\ know = [n \in Nodes |-> [p \in Nodes |-> 0]]
  /\ owed = [e \in Ends |-> 0]
  /\ faults = 0 /\ panicked = {}

\* Sending a packet to the other end, which may not listen any more.
Post(e, packet) == [inbox EXCEPT ![Other(e)] =
                      IF phase[Other(e)] \in Ended THEN @ ELSE Append(@, packet)]
HasRoom(e) == Len(inbox[Other(e)]) < Room

\* A handshake that fails (read_hello, read_pong) leaves no session to close.
Left(e, as) == IF phase[e] = "hello" THEN "gone" ELSE as

\* The end stops, in the given phase: the packets and updates it has not handled
\* are dropped, and what was left of its re-sync.
Stop(e, as) ==
  LET n == Owner(e) IN
  /\ phase' = [phase EXCEPT ![e] = Left(e, as)]
  /\ inbox' = [inbox EXCEPT ![e] = <<>>]
  /\ unread' = [unread EXCEPT ![e] = 0]
  /\ pending' = [pending EXCEPT ![e] = "no"]
  /\ sent' = IF requests[n] # <<>> /\ Head(requests[n]) = e THEN sent \ {n} ELSE sent
  /\ requests' = [requests EXCEPT ![n] = Remove(@, e)]
  /\ owed' = [owed EXCEPT ![Other(e)] = 0]
-----------------------------------------------------------------------------
\* Connecting.

Free(n, p) ==
  \A e \in {<<n, p, s>> : s \in Sides} :
    /\ phase[e] = "gone"
    /\ session[Owner(e)][Peer(e)] # e

\* connect_to_peer opens a stream.
Open(n, p) ==
  /\ Free(n, p)
  /\ phase' = [e \in Ends |-> IF e[1] = n /\ e[2] = p THEN "hello" ELSE phase[e]]
  /\ owed' = [e \in Ends |-> IF e[1] = n /\ e[2] = p THEN 0 ELSE owed[e]]
  /\ UNCHANGED <<inbox, peers, unread, pending, requests, sent, know, faults, panicked>>

\* start: a configured URL is dialled until a handshake succeeds.
Dial(n, p) == <<n, p>> \in PeerUrls \ dialled /\ Open(n, p)

\* reconnect_to_failed_peers dials the peers without a session one after the other,
\* by the URL that worked.
Redial(n, p) ==
  /\ <<n, p>> \in dialled /\ session[n][p] = None
  /\ \A e \in Ends : e[1] = n /\ e[3] = "client" => phase[e] # "hello"
  /\ Open(n, p)
-----------------------------------------------------------------------------
\* The handshake.

\* When there is a session with the peer already, the order of the ids decides
\* which of the two is kept.
Keeps(n, p) == session[n][p] = None \/ Id[p] < Id[n]

\* An error status ends the stream, but only the server's side can send one.
Refuse(e) ==
  IF e \in {None, Dead} \/ e[3] = "client" THEN inbox ELSE Post(e, [type |-> "status"])

\* Session::process begins with a request for a re-sync ...
Begin(e) ==
  LET n == Owner(e)
      waiting == IF n \in sent THEN Tail(requests[n]) ELSE requests[n]
      full == Len(waiting) >= MaxRequests IN
  /\ phase' = [phase EXCEPT ![e] = IF full THEN "closing" ELSE "asked"]
  /\ requests' = [requests EXCEPT ![n] = IF full THEN @ ELSE Append(@, e)]
  /\ owed' = [owed EXCEPT ![e] = know[n][n]]

\* Hello and Pong are exchanged; then, under the write lock, the session that is
\* not kept is refused, and the other one (if it is new) is entered.
Handshake(e) ==
  LET n == Owner(e)
      p == Peer(e) IN
  /\ phase[e] = "hello"
  /\ dialled' = IF e[3] = "client" THEN dialled \cup {<<n, p>>} ELSE dialled
  /\ IF Keeps(n, p)
     THEN /\ session' = [session EXCEPT ![n][p] = e]
          /\ inbox' = Refuse(session[n][p])
          /\ Begin(e)
     ELSE /\ inbox' = [Refuse(e) EXCEPT ![e] = <<>>]
          /\ phase' = [phase EXCEPT ![e] = "gone"]
          /\ UNCHANGED <<session, requests, owed>>
  /\ UNCHANGED <<unread, pending, sent, know, faults, panicked>>
-----------------------------------------------------------------------------
\* Session::process.

\* ... before it subscribes to the updates.
Subscribe(e) ==
  /\ phase[e] = "asked"
  /\ phase' = [phase EXCEPT ![e] = "open"]
  /\ UNCHANGED <<inbox, peers, updates, faults, panicked>>

\* Broker::publish, when a hit is recorded: it reaches the sessions that subscribed.
Publish(n) ==
  /\ MapThenSumSet(LAMBDA p : know[p][p], Nodes) < MaxHits
  /\ know' = [know EXCEPT ![n][n] = @ + 1]
  /\ unread' = [e \in Ends |-> IF Owner(e) = n /\ phase[e] = "open" THEN unread[e] + 1 ELSE unread[e]]
  /\ UNCHANGED <<streams, peers, pending, requests, sent, owed, faults, panicked>>

\* An update is collapsed into the one that waits for the same counter.
ReceiveBroadcast(e) ==
  /\ phase[e] = "open" /\ unread[e] > 0
  /\ unread' = [unread EXCEPT ![e] = @ - 1]
  /\ pending' = [pending EXCEPT ![e] = IF @ = "no" THEN "notified" ELSE @]
  /\ UNCHANGED <<streams, peers, requests, sent, know, owed, faults, panicked>>

\* The notified session sends the counter as it is now, with all that it knows of
\* others.  If there is no room it gives up, and nothing notifies it again.
Transmit(e) ==
  /\ phase[e] = "open" /\ pending[e] = "notified"
  /\ IF HasRoom(e)
     THEN /\ inbox' = Post(e, [type |-> "update", values |-> know[Owner(e)]])
          /\ pending' = [pending EXCEPT ![e] = "no"]
     ELSE pending' = [pending EXCEPT ![e] = "stalled"] /\ UNCHANGED inbox
  /\ UNCHANGED <<phase, peers, unread, requests, sent, know, owed, faults, panicked>>
-----------------------------------------------------------------------------
\* process_re_sync: one request at a time.

\* Faulty variant of ReSync: only counters of other nodes are sent.
ReSyncOthers(n) ==
  LET others == [know[n] EXCEPT ![n] = 0] IN
  /\ requests[n] # <<>> /\ n \notin sent /\ HasRoom(Head(requests[n]))
  /\ sent' = sent \cup {n}
  /\ inbox' = IF know[n][n] = 0 THEN inbox
              ELSE Post(Head(requests[n]), [type |-> "update", values |-> others])
  /\ UNCHANGED <<phase, peers, unread, pending, requests, know, owed, faults, panicked>>

\* It sends the node's own count, unless that is empty ...
ReSync(n) ==
  LET own == [p \in Nodes |-> IF p = n THEN know[n][n] ELSE 0] IN
  /\ requests[n] # <<>> /\ n \notin sent /\ HasRoom(Head(requests[n]))
  /\ sent' = sent \cup {n}
  /\ inbox' = IF know[n][n] = 0 THEN inbox
              ELSE Post(Head(requests[n]), [type |-> "update", values |-> own])
  /\ UNCHANGED <<phase, peers, unread, pending, requests, know, owed, faults, panicked>>

\* ... and at last ReSyncEnd.
ReSyncEnd(n) ==
  /\ n \in sent /\ HasRoom(Head(requests[n]))
  /\ sent' = sent \ {n}
  /\ requests' = [requests EXCEPT ![n] = Tail(@)]
  /\ inbox' = Post(Head(requests[n]), [type |-> "end"])
  /\ UNCHANGED <<phase, peers, unread, pending, know, owed, faults, panicked>>
-----------------------------------------------------------------------------
\* process_packet.

Received(e, type) == phase[e] = "open" /\ inbox[e] # <<>> /\ Head(inbox[e]).type = type

\* on_counter_update: the higher count of each node.
CounterUpdate(e) ==
  LET n == Owner(e) IN
  /\ Received(e, "update")
  /\ know' = [know EXCEPT ![n] = [p \in Nodes |-> Max({@[p], Head(inbox[e]).values[p]})]]
  /\ inbox' = [inbox EXCEPT ![e] = Tail(@)]
  /\ UNCHANGED <<phase, peers, unread, pending, requests, sent, owed, faults, panicked>>

\* ReSyncEnd is a packet that the session does not support.
Unsupported(e) ==
  /\ Received(e, "end")
  /\ Stop(e, "closing")
  /\ UNCHANGED <<peers, know, faults, panicked>>

\* The peer refused the session with an error status ...
Refused(e) ==
  /\ Received(e, "status")
  /\ Stop(e, "closing")
  /\ UNCHANGED <<peers, know, faults, panicked>>

\* ... or its end of the stream is gone: what it sent last may not be read.
StreamEnds(e) ==
  /\ phase[e] \notin Ended /\ phase[Other(e)] = "gone"
  /\ Stop(e, "closing")
  /\ UNCHANGED <<peers, know, faults, panicked>>

\* Faulty variant of Close: the tracker is left as it is.
CloseOnly(e) ==
  /\ phase[e] = "closing"
  /\ phase' = [phase EXCEPT ![e] = "gone"]
  /\ inbox' = [inbox EXCEPT ![e] = <<>>]
  /\ UNCHANGED <<peers, updates, faults, panicked>>

\* Session::close, whichever session the tracker has.
Close(e) ==
  /\ phase[e] = "closing"
  /\ phase' = [phase EXCEPT ![e] = "gone"]
  /\ inbox' = [inbox EXCEPT ![e] = <<>>]
  /\ session' = [session EXCEPT ![Owner(e)][Peer(e)] = None]
  /\ UNCHANGED <<dialled, updates, faults, panicked>>
-----------------------------------------------------------------------------
\* Faults.

\* The connection breaks.
Break(e) ==
  /\ faults < MaxFaults /\ phase[e] \notin Ended
  /\ faults' = faults + 1
  /\ Stop(e, "closing")
  /\ UNCHANGED <<peers, know, panicked>>

\* The session lags behind the updates of all counters, and has lost some.
Lag(e) ==
  /\ faults < MaxFaults /\ phase[e] = "open" /\ unread[e] > 0
  /\ faults' = faults + 1
  /\ Stop(e, "closing")
  /\ UNCHANGED <<peers, know, panicked>>

\* on_counter_update panics on a counter it does not know: the task ends, the
\* tracker keeps its session.
Panic(e) ==
  /\ faults < MaxFaults /\ Received(e, "update")
  /\ faults' = faults + 1
  /\ panicked' = panicked \cup {<<Owner(e), Peer(e)>>}
  /\ session' = [session EXCEPT ![Owner(e)][Peer(e)] = IF @ = e THEN Dead ELSE @]
  /\ Stop(e, "gone")
  /\ UNCHANGED <<dialled, know>>

\* What the task of a stream does by itself: handshake, process and close.
Process(e) ==
  \/ Handshake(e) \/ Subscribe(e)
  \/ CounterUpdate(e) \/ Unsupported(e) \/ Refused(e) \/ StreamEnds(e)
  \/ Close(e)

Next ==
  \/ \E url \in PeerUrls : Dial(url[1], url[2]) \/ Redial(url[1], url[2])
  \/ \E n \in Nodes : Publish(n) \/ ReSync(n) \/ ReSyncEnd(n)
  \/ \E e \in Ends :
       \/ Process(e) \/ ReceiveBroadcast(e) \/ Transmit(e)
       \/ Break(e) \/ Lag(e) \/ Panic(e)

Spec == Init /\ [][Next]_vars

\* The tasks run: dialling is repeated every second.
Fairness ==
  /\ \A url \in PeerUrls : WF_vars(Dial(url[1], url[2]) \/ Redial(url[1], url[2]))
  /\ \A n \in Nodes : WF_vars(ReSync(n) \/ ReSyncEnd(n))
  /\ \A e \in Ends : WF_vars(Process(e))
FairSpec == Spec /\ Fairness
-----------------------------------------------------------------------------
TypeOK ==
  /\ phase \in [Ends -> {"hello"} \cup Session \cup Ended]
  /\ \A e \in Ends : \A i \in DOMAIN inbox[e] :
       inbox[e][i].type \in {"update", "end", "status"}
  /\ session \in [Nodes -> [Nodes -> Ends \cup {None, Dead}]]
  /\ dialled \subseteq PeerUrls
  /\ unread \in [Ends -> 0 .. MaxHits]
  /\ pending \in [Ends -> {"no", "notified", "stalled"}]
  /\ \A n \in Nodes : \A i \in DOMAIN requests[n] : Owner(requests[n][i]) = n
  /\ know \in [Nodes -> [Nodes -> 0 .. MaxHits]] /\ owed \in [Ends -> 0 .. MaxHits]
  /\ faults \in 0 .. MaxFaults /\ panicked \subseteq Nodes \X Nodes

(***************************************************************************)
(* The session a tracker holds is one that runs, or is about to close:     *)
(* only a panic of its task leaves a tracker with a dead session, which no *)
(* one would reconnect.                                                    *)
(***************************************************************************)
TrackedIsLive ==
  \A n, p \in Nodes : LET e == session[n][p] IN
    CASE e = None -> TRUE
      [] e = Dead -> <<n, p>> \in panicked
      [] OTHER    -> Owner(e) = n /\ Peer(e) = p /\ phase[e] \in Session \cup {"closing"}

(***************************************************************************)
(* When a node gets to the end of a re-sync, it knows every hit that its   *)
(* peer had recorded when the session began.                               *)
(***************************************************************************)
ReSyncComplete ==
  [][\A e \in Ends : Unsupported(e) => know[Owner(e)][Peer(e)] >= owed[Other(e)]]_vars

Connected(n, p) == \E e \in Ends : Owner(e) = n /\ Peer(e) = p /\ phase[e] \in Session

(***************************************************************************)
(* Two nodes that were configured with each other's URL have a session     *)
(* again and again, whatever races and broken connections end the last one *)
(* - unless a session's task has panicked.                                 *)
(***************************************************************************)
Reconnects ==
  \A n, p \in Nodes : <<n, p>> \in PeerUrls => []<>(Connected(n, p) \/ panicked # {})

(***************************************************************************)
(* Once the handshakes of two streams between two nodes are done at both   *)
(* nodes, they agree on the session they keep (the comment in handshake).  *)
(***************************************************************************)
Agreement ==
  \A n, p \in Nodes : LET e == session[n][p]  f == session[p][n] IN
    (e \in Ends /\ f \in Ends /\ f # Other(e)) =>
      phase[Other(e)] = "hello" \/ phase[Other(f)] = "hello"
=============================================================================
