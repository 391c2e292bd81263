----------------------------- MODULE Reservations -----------------------------
(***************************************************************************)
(* Reserve and commit over the in-memory storage: RateLimiter::reserve and *)
(* commit_reservation (lib.rs), InMemoryStorage::touch and update_counter  *)
(* (storage/in_memory.rs), and the registry of outstanding holds           *)
(* (storage/local_reservations.rs).                                        *)
(*                                                                         *)
(* A reservation first touches every counter, one write lock each, and     *)
(* only then decides under the registry's admission lock; a commit first   *)
(* updates every counter, then releases under the admission lock.  Each    *)
(* critical section is one step; clients interleave between them.  The     *)
(* counters are those of limits without variables, whose cell is only      *)
(* reached under the write lock here.                                      *)
(***************************************************************************)
EXTENDS Integers, FiniteSetsExt

CONSTANTS
  Clients,   \* the callers, each with at most one reservation at a time
  Counters,  \* counters of limits without variables
  Requests,  \* the sets of counters a reservation may apply to
  MaxValue,  \* max_value of each counter's limit
  Window,    \* seconds of each counter's limit
  Cap,       \* max_value * max_fraction, truncated
  MaxTtl,    \* ReservationLimits.max_ttl
  Ttls,      \* the lifetimes a client may ask for
  Amounts,   \* the amounts a client may ask for or use
  Word,      \* one more than the largest u64
  MaxNow,    \* bound: the last instant explored
  MaxCalls   \* bound: how many reservations are asked for

ASSUME CountersAssumption ==
  /\ Requests \subseteq (SUBSET Counters) \ {{}}
  /\ MaxValue \in [Counters -> Nat]
  /\ Cap \in [Counters -> Nat]
  /\ Window \in [Counters -> Nat \ {0}]
ASSUME AmountsAssumption ==
  /\ Word \in Nat \ {0} /\ Amounts \subseteq 0..(Word - 1)
  /\ MaxTtl \in Nat /\ Ttls \subseteq Nat
ASSUME BoundsAssumption == MaxNow \in Nat /\ MaxCalls \in Nat

VARIABLES
  now,      \* the system clock
  value,    \* the cells: AtomicExpiringValue.value ...
  expiry,   \* ... and .expiry
  entries,  \* the registry: the ReservationEntry of each counter ...
  evictAt,  \* ... and when the cache drops all of them
  pc,       \* where each client is: idle, touch, held, commit
  call,     \* the arguments and the local variables of its call
  todo,     \* the counters it has not touched, or not updated, yet
  calls,    \* reservations asked for so far
  strayed   \* history: what has gone wrong with commits, see UpdateCounter

vars == <<now, value, expiry, entries, evictAt, pc, call, todo, calls, strayed>>
cells == <<value, expiry>>
registry == <<entries, evictAt>>

Zero == [c \in Counters |-> 0]

\* A client's call: the reservation_id (0 for None) and the counters it applies
\* to, the amount asked for (or used, once it commits), the amount held and for
\* how long, the clock as `reserve` read it, and for each counter the value it
\* touched and the time left in its window.
NoCall == [id |-> 0, req |-> {}, amount |-> 0, hold |-> 0, ttl |-> 0, when |-> 0,
           read |-> Zero, left |-> Zero]

Init ==
  /\ now = 0
  /\ value = Zero
  /\ expiry = Zero
  /\ entries = [c \in Counters |-> {}]
  /\ evictAt = Zero
  /\ pc = [t \in Clients |-> "idle"]
  /\ call = [t \in Clients |-> NoCall]
  /\ todo = [t \in Clients |-> {}]
  /\ calls = 0
  /\ strayed = {}
-----------------------------------------------------------------------------
Elapsed(c, w) == expiry[c] <= w

\* What the registry's cache still has for c.
Cached(c) == IF now < evictAt[c] THEN entries[c] ELSE {}

\* is_live_at
LiveAt(es, w) == {e \in es : e.expires > w}
Total(es) == MapThenSumSet(LAMBDA e : e.amount, es)

\* The client's call ends: it holds nothing and knows no id any more.
Return(t) ==
  /\ pc' = [pc EXCEPT ![t] = "idle"]
  /\ call' = [call EXCEPT ![t] = NoCall]

\* RateLimiter::reserve: clamp the hold and the lifetime, mint an id.
Reserve(t, cs, a, l) ==
  /\ pc[t] = "idle"
  /\ calls < MaxCalls
  /\ calls' = calls + 1
  /\ pc' = [pc EXCEPT ![t] = "touch"]
  /\ call' = [call EXCEPT ![t] =
       [id |-> calls + 1, req |-> cs, amount |-> a,
        hold |-> Min({a} \cup {Cap[c] : c \in cs}),
        ttl |-> IF l <= MaxTtl THEN l ELSE MaxTtl,
        when |-> now, read |-> Zero, left |-> Zero]]
  /\ todo' = [todo EXCEPT ![t] = cs]
  /\ UNCHANGED <<now, cells, registry, strayed>>

\* touch: a zero-delta update, then the value and what is left of the window.
Touch(t, c) ==
  LET fresh == Elapsed(c, call[t].when)
      ends  == IF fresh THEN call[t].when + Window[c] ELSE expiry[c]
      v     == IF fresh THEN 0 ELSE value[c]
  IN
  /\ pc[t] = "touch"
  /\ c \in todo[t]
  /\ todo' = [todo EXCEPT ![t] = @ \ {c}]
  /\ value' = [value EXCEPT ![c] = v]
  /\ expiry' = [expiry EXCEPT ![c] = ends]
  /\ call' = [call EXCEPT ![t].read[c] = v,
                          ![t].left[c] = IF ends > now THEN ends - now ELSE 0]
  /\ UNCHANGED <<now, registry, pc, calls, strayed>>

\* LocalReservationRegistry::reserve, under the admission lock.
Outstanding(t, c) == Total(LiveAt(Cached(c), call[t].when))
\* Faulty variants of Fits: the outstanding holds, or the usage, are left out.
FitsIgnoringHolds(t, c) == (call[t].read[c] + call[t].amount) % Word <= MaxValue[c]
FitsIgnoringUsage(t, c) == (Outstanding(t, c) + call[t].amount) % Word <= MaxValue[c]

Fits(t, c) == (call[t].read[c] + Outstanding(t, c) + call[t].amount) % Word <= MaxValue[c]

\* Faulty variant of ExpiresAt: it starts from the clock at admission.
ExpiresFromNow(t, c) ==
  now + (IF call[t].ttl <= call[t].left[c] THEN call[t].ttl ELSE call[t].left[c])
ExpiresAt(t, c) ==
  call[t].when + (IF call[t].ttl <= call[t].left[c] THEN call[t].ttl ELSE call[t].left[c])
Entry(t, c) == [id |-> call[t].id, amount |-> call[t].hold, expires |-> ExpiresAt(t, c)]

Decide(t) ==
  /\ pc[t] = "touch"
  /\ todo[t] = {}
  /\ UNCHANGED <<now, cells, todo, calls, strayed>>

Deny(t) ==
  /\ Decide(t)
  /\ \E c \in call[t].req : ~Fits(t, c)
  /\ Return(t)
  /\ UNCHANGED registry

\* Admitted, with nothing to hold: no id is handed out.
AdmitUnheld(t) ==
  /\ Decide(t)
  /\ \A c \in call[t].req : Fits(t, c)
  /\ call[t].hold = 0
  /\ pc' = [pc EXCEPT ![t] = "held"]
  /\ call' = [call EXCEPT ![t].id = 0]
  /\ UNCHANGED registry

\* Every counter's entry is re-inserted with the window's time as touched.
Admit(t) ==
  /\ Decide(t)
  /\ \A c \in call[t].req : Fits(t, c)
  /\ call[t].hold > 0
  /\ pc' = [pc EXCEPT ![t] = "held"]
  /\ entries' = [c \in Counters |->
       IF c \in call[t].req THEN LiveAt(Cached(c), call[t].when) \cup {Entry(t, c)}
                            ELSE entries[c]]
  /\ evictAt' = [c \in Counters |->
       IF c \in call[t].req THEN now + call[t].left[c] ELSE evictAt[c]]
  /\ UNCHANGED call

\* The client goes away without committing.
Abandon(t) ==
  /\ pc[t] = "held"
  /\ Return(t)
  /\ UNCHANGED <<now, cells, registry, todo, calls, strayed>>

\* commit_reservation with the amount really used ...
Commit(t, a) ==
  /\ pc[t] = "held"
  /\ pc' = [pc EXCEPT ![t] = "commit"]
  /\ call' = [call EXCEPT ![t].amount = a]
  /\ todo' = [todo EXCEPT ![t] = call[t].req]
  /\ UNCHANGED <<now, cells, registry, calls, strayed>>

\* The clients that have touched c and are not decided yet.
Touched(c) == {u \in Clients : pc[u] = "touch" /\ c \in call[u].req \ todo[u]}

\* What is wrong with the commit of t on c: it is late or above its hold, it
\* overtakes a reservation between touch and admission, its hold is gone.
Stray(t, c) ==
  {r \in {"commit", "overtaking", "dropped"} :
     \/ r = "commit" /\ (call[t].amount > call[t].hold \/ ExpiresAt(t, c) <= now)
     \/ r = "overtaking" /\ Touched(c) # {}
     \/ r = "dropped" /\ ~\E e \in Cached(c) : e.id = call[t].id}

\* ... update_counter, whatever has become of the hold ...
UpdateCounter(t, c) ==
  LET fresh == Elapsed(c, now)
      used  == call[t].amount
  IN
  /\ pc[t] = "commit"
  /\ c \in todo[t]
  /\ todo' = [todo EXCEPT ![t] = @ \ {c}]
  /\ value' = [value EXCEPT ![c] = IF fresh THEN used ELSE @ + used]
  /\ expiry' = [expiry EXCEPT ![c] = IF fresh THEN now + Window[c] ELSE @]
  /\ strayed' = strayed \cup Stray(t, c)
  /\ UNCHANGED <<now, registry, pc, call, calls>>

\* ... and, once all are updated, LocalReservationRegistry::release.
Release(t) ==
  /\ pc[t] = "commit"
  /\ todo[t] = {}
  /\ Return(t)
  /\ entries' = [c \in Counters |->
       IF c \in call[t].req THEN {e \in Cached(c) : e.id # call[t].id} ELSE entries[c]]
  /\ UNCHANGED <<now, cells, evictAt, todo, calls, strayed>>

Tick ==
  /\ now < MaxNow
  /\ now' = now + 1
  /\ UNCHANGED <<cells, registry, pc, call, todo, calls, strayed>>

\* The clients may stop at any time they have nothing running or held.
Quiesce == (\A t \in Clients : pc[t] = "idle") /\ UNCHANGED vars

Next ==
  \/ \E t \in Clients :
       \/ \E cs \in Requests, a \in Amounts, l \in Ttls : Reserve(t, cs, a, l)
       \/ \E c \in Counters : Touch(t, c) \/ UpdateCounter(t, c)
       \/ Deny(t)
       \/ AdmitUnheld(t)
       \/ Admit(t)
       \/ Abandon(t)
       \/ \E a \in Amounts : Commit(t, a)
       \/ Release(t)
  \/ Tick
  \/ Quiesce

Spec == Init /\ [][Next]_vars
-----------------------------------------------------------------------------
Entries == [id : Nat, amount : Nat, expires : Nat]
Calls == [id : Nat, req : SUBSET Counters, amount : 0..(Word - 1), hold : Nat,
          ttl : Nat, when : Nat, read : [Counters -> Nat], left : [Counters -> Nat]]

TypeOK ==
  /\ now \in Nat
  /\ value \in [Counters -> Nat]
  /\ expiry \in [Counters -> Nat]
  /\ entries \in [Counters -> SUBSET Entries]
  /\ evictAt \in [Counters -> Nat]
  /\ pc \in [Clients -> {"idle", "touch", "held", "commit"}]
  /\ call \in [Clients -> Calls]
  /\ todo \in [Clients -> SUBSET Counters]
  /\ calls \in Nat
  /\ strayed \subseteq {"commit", "overtaking", "dropped"}

(***************************************************************************)
(* Concurrent reservations never hold more than the limit between them:    *)
(* the registry decides and records under one lock, with a clock that may  *)
(* be old (the guarantee of `admission_lock`).                             *)
(***************************************************************************)
HoldsWithinLimit ==
  \A c \in Counters : Total(LiveAt(Cached(c), now)) <= MaxValue[c]

(***************************************************************************)
(* A reservation never outlives its counter's window, so a hold of one     *)
(* window takes nothing from the next: `expires_at` is clamped with a      *)
(* clock read before the window's time was, and windows roll over between  *)
(* the touch and the admission.                                            *)
(***************************************************************************)
HoldsWithinWindow ==
  \A c \in Counters : \A e \in entries[c] : e.expires <= expiry[c]

\* The strengthening: the window a touch has seen ends no later than the
\* counter's present one, measured from the clock of the call.
TouchedWithinWindow ==
  \A t \in Clients : pc[t] = "touch" =>
    /\ call[t].when <= now
    /\ todo[t] \subseteq call[t].req
    /\ \A c \in call[t].req \ todo[t] : call[t].when + call[t].left[c] <= expiry[c]

IInv == TypeOK /\ TouchedWithinWindow /\ HoldsWithinWindow

\* A hold stops counting once its commit has updated the counter.
Applied(e, c) == \E t \in Clients : pc[t] = "commit" /\ call[t].id = e.id /\ c \notin todo[t]
Held(c) == LiveAt(Cached(c), now)
Unapplied(c) == {e \in Held(c) : ~Applied(e, c)}
Current(c) == IF Elapsed(c, now) THEN 0 ELSE value[c]
Usage(c) == Current(c) + Total(Unapplied(c))

(***************************************************************************)
(* What `reserve` promises: a counter stays within its limit if the amount *)
(* is held, with the outstanding reservations accounted for.  Then clients *)
(* that commit in time, and no more than they hold, never take a counter   *)
(* over its limit.                                                         *)
(***************************************************************************)
UsageWithinLimit == "commit" \notin strayed => \A c \in Counters : Usage(c) <= MaxValue[c]

(***************************************************************************)
(* How far the code keeps that promise: until a commit is late or above    *)
(* its hold, overtakes a reservation between its touch and its admission,  *)
(* or comes when the registry has dropped its hold.                        *)
(***************************************************************************)
UsageUnlessStrayed == strayed = {} => \A c \in Counters : Usage(c) <= MaxValue[c]

\* What the two limits rest on.  Ids are never reused and no two calls share
\* one, ...
EntryIds ==
  \A c \in Counters : /\ IsFiniteSet(entries[c])
                      /\ \A e \in entries[c] : e.id \in 1..calls
                      /\ \A e, f \in entries[c] : e.id = f.id => e = f
CallIds ==
  \A t \in Clients : /\ call[t].id <= calls
                     /\ pc[t] = "idle" => call[t].id = 0
                     /\ pc[t] = "touch" => call[t].id # 0 /\ call[t].hold <= call[t].amount
                     /\ pc[t] = "commit" => todo[t] \subseteq call[t].req
OwnIds == \A t, u \in Clients : call[t].id = call[u].id => t = u \/ call[t].id = 0
\* ... so an entry says what the call that made it holds, and how long, ...
OwnEntries ==
  \A t \in Clients, c \in Counters : \A e \in entries[c] :
    e.id = call[t].id => pc[t] # "touch" /\ c \in call[t].req /\ e = Entry(t, c)
Booked == EntryIds /\ CallIds /\ OwnIds /\ OwnEntries

\* ... a touched value is still an upper bound of the counter's when it is used ...
ReadsCurrent ==
  strayed = {} => \A t \in Clients : pc[t] = "touch" =>
                    \A c \in call[t].req \ todo[t] : Current(c) <= call[t].read[c]

\* ... and the sum that is compared with the limit fits a u64.
NoWrap ==
  \A t \in Clients : pc[t] = "touch" => \A c \in call[t].req :
    call[t].read[c] + Outstanding(t, c) + call[t].amount < Word

(***************************************************************************)
(* A hold that was granted is kept until it is committed or expires: the   *)
(* window's remaining time is a safe bound for keeping a counter's entries *)
(* in the cache.                                                           *)
(***************************************************************************)
HoldsKept ==
  \A t \in Clients : \A c \in call[t].req :
    (pc[t] = "held" /\ call[t].id # 0 /\ ExpiresAt(t, c) > now)
      => \E e \in Cached(c) : e.id = call[t].id

(***************************************************************************)
(* A request larger than a counter's limit is denied outright and never    *)
(* admitted with a smaller hold.                                           *)
(***************************************************************************)
OversizedDenied ==
  \A t \in Clients : pc[t] = "held" => \A c \in call[t].req : call[t].amount <= MaxValue[c]
=============================================================================
