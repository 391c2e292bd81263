----------------------------- MODULE FixedWindow -----------------------------
(***************************************************************************)
(* What a shared counter store promises the limiter: every counter counts  *)
(* the hits of one fixed window.  The window starts with the counter's     *)
(* first use and lasts for the limit's seconds, whatever happens in it; a  *)
(* hit is added in one step and none is lost before the window ends or the *)
(* counter is deleted.                                                     *)
(*                                                                         *)
(* RedisStorage implements this specification.  The in-process storages do *)
(* not: InMemoryStorage loses hits that overlap a reset, and DiskStorage   *)
(* drops reports above the limit.                                          *)
(***************************************************************************)
EXTENDS Integers

CONSTANTS
  Counters,  \* the counters
  Window,    \* seconds of each counter's limit
  Amounts    \* the amounts that may be added at once

VARIABLES
  now,    \* the clock
  count,  \* the hits of each counter's window
  ends    \* when that window ends, 0 for a counter that does not exist

vars == <<now, count, ends>>

Init ==
  /\ now = 0
  /\ count = [c \in Counters |-> 0]
  /\ ends = [c \in Counters |-> 0]

\* Counters that do not exist yet start their window.
Open(cs) ==
  /\ ends' = [c \in Counters |->
       IF c \in cs /\ ends[c] = 0 THEN now + Window[c] ELSE ends[c]]
  /\ UNCHANGED <<now, count>>

\* A hit counts in the running window, or starts one.
Hit(c, d) ==
  /\ count' = [count EXCEPT ![c] = @ + d]
  /\ ends' = [ends EXCEPT ![c] = IF @ = 0 THEN now + Window[c] ELSE @]
  /\ UNCHANGED now

\* Counters are deleted before their time.
Forget(cs) ==
  /\ count' = [c \in Counters |-> IF c \in cs THEN 0 ELSE count[c]]
  /\ ends' = [c \in Counters |-> IF c \in cs THEN 0 ELSE ends[c]]
  /\ UNCHANGED now

\* Time passes; the windows that end now are gone.
Tick ==
  /\ now' = now + 1
  /\ count' = [c \in Counters |-> IF ends[c] <= now' THEN 0 ELSE count[c]]
  /\ ends' = [c \in Counters |-> IF ends[c] <= now' THEN 0 ELSE ends[c]]

Next ==
  \/ \E cs \in SUBSET Counters : Open(cs) \/ Forget(cs)
  \/ \E c \in Counters, d \in Amounts : Hit(c, d)
  \/ Tick

Spec == Init /\ [][Next]_vars
=============================================================================
