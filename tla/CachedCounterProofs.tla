------------------------- MODULE CachedCounterProofs -------------------------
(***************************************************************************)
(* TLAPS proofs about CachedCounter: its types, and that the flush task    *)
(* never meets the state its expect("State machine is wrong!") rules out,  *)
(* for any number of requests, cells, amounts and faults.  The inductive   *)
(* invariant IInv is in CachedCounter; here is one lemma per action.       *)
(***************************************************************************)
EXTENDS CachedCounter, TLAPS

USE DEF Procs, history

\* The initial states satisfy the invariant: everybody is idle.
LEMMA InitHolds == Init => IInv
BY ProcsAssumption, CellsAssumption
DEF Init, Blank, NoReg,
     IInv, TypeOK, FlusherOnQueue, MergersElsewhere, SnapshotCurrent,
     CellsInHand, FlusherNeverPanics, Lines, FlushLines, Marks

\* A request begins: only its own locals change.
LEMMA UpdateCounterKeeps ==
  ASSUME NEW t \in Threads, NEW d \in Deltas, IInv, UpdateCounter(t, d) PROVE IInv'
BY ProcsAssumption, CellsAssumption, AmountsAssumption
DEF UpdateCounter, Goto,
     IInv, TypeOK, FlusherOnQueue, MergersElsewhere, SnapshotCurrent,
     CellsInHand, FlusherNeverPanics, Lines, FlushLines, Marks

\* A check brings at most the queued cell back into the cache.
LEMMA CheckAndUpdateKeeps ==
  ASSUME NEW t \in Threads, NEW d \in Deltas, IInv, CheckAndUpdate(t, d) PROVE IInv'
BY ProcsAssumption, CellsAssumption, AmountsAssumption
DEF CheckAndUpdate, Get, Goto,
     IInv, TypeOK, FlusherOnQueue, MergersElsewhere, SnapshotCurrent,
     CellsInHand, FlusherNeverPanics, Lines, FlushLines, Marks

\* A new cell is none that anybody refers to, so the queued one is untouched.
LEMMA FetchKeeps ==
  ASSUME NEW t \in Threads, IInv, Fetch(t) PROVE IInv'
BY ProcsAssumption, CellsAssumption, AmountsAssumption
DEF Fetch, Fresh, Held, Get, Goto,
     IInv, TypeOK, FlusherOnQueue, MergersElsewhere, SnapshotCurrent,
     CellsInHand, FlusherNeverPanics, Lines, FlushLines, Marks

\* Adding to a cell leaves its initial value alone.
LEMMA UpdateKeeps ==
  ASSUME NEW t \in Threads, IInv, Update(t) PROVE IInv'
BY ProcsAssumption, CellsAssumption, AmountsAssumption
DEF Update, AfterDelta, Return, NoReg, Goto,
     IInv, TypeOK, FlusherOnQueue, MergersElsewhere, SnapshotCurrent,
     CellsInHand, FlusherNeverPanics, Lines, FlushLines, Marks

\* A reset makes the initial value zero, which SnapshotCurrent allows.
LEMMA ResetInitialKeeps ==
  ASSUME NEW t \in Threads, IInv, ResetInitial(t) PROVE IInv'
BY ProcsAssumption, CellsAssumption
DEF ResetInitial, Mark, AfterDelta, Return, NoReg, Goto,
     IInv, TypeOK, FlusherOnQueue, MergersElsewhere, SnapshotCurrent,
     CellsInHand, FlusherNeverPanics, Lines, FlushLines, Marks

\* Queueing fills an empty queue; merging starts on a cell that is not the queued one.
LEMMA AddKeeps ==
  ASSUME NEW t \in Threads, IInv, Add(t) PROVE IInv'
BY ProcsAssumption, CellsAssumption
DEF Add, Return, NoReg, Goto,
     IInv, TypeOK, FlusherOnQueue, MergersElsewhere, SnapshotCurrent,
     CellsInHand, FlusherNeverPanics, Lines, FlushLines, Marks

\* The first load takes the snapshot.
LEMMA LoadInitialKeeps ==
  ASSUME NEW p \in Procs, IInv, LoadInitial(p) PROVE IInv'
BY ProcsAssumption, CellsAssumption
DEF LoadInitial, Goto,
     IInv, TypeOK, FlusherOnQueue, MergersElsewhere, SnapshotCurrent,
     CellsInHand, FlusherNeverPanics, Lines, FlushLines, Marks

\* The second load changes no cell.
LEMMA LoadValueKeeps ==
  ASSUME NEW p \in Procs, IInv, LoadValue(p) PROVE IInv'
BY ProcsAssumption, CellsAssumption
DEF LoadValue, Worth, Goto,
     IInv, TypeOK, FlusherOnQueue, MergersElsewhere, SnapshotCurrent,
     CellsInHand, FlusherNeverPanics, Lines, FlushLines, Marks

\* Only the flusher exchanges the queued cell's initial value; a merge exchanges another's.
LEMMA ExchangeKeeps ==
  ASSUME NEW p \in Procs, IInv, Exchange(p) PROVE IInv'
BY ProcsAssumption, CellsAssumption
DEF Exchange, Taken, Above, Mark, Goto,
     IInv, TypeOK, FlusherOnQueue, MergersElsewhere, SnapshotCurrent,
     CellsInHand, FlusherNeverPanics, Lines, FlushLines, Marks

\* A lost exchange of the flusher found zero: it goes on without writes.
LEMMA LoseExchangeKeeps ==
  ASSUME NEW p \in Procs, IInv, LoseExchange(p) PROVE IInv'
BY ProcsAssumption, CellsAssumption
DEF LoseExchange, Taken, NoReg, Mark, Goto,
     IInv, TypeOK, FlusherOnQueue, MergersElsewhere, SnapshotCurrent,
     CellsInHand, FlusherNeverPanics, Lines, FlushLines, Marks

\* The flusher starts on the queued cell.
LEMMA ConsumeKeeps ==
  ASSUME IInv, Consume PROVE IInv'
BY ProcsAssumption, CellsAssumption
DEF Consume, Goto,
     IInv, TypeOK, FlusherOnQueue, MergersElsewhere, SnapshotCurrent,
     CellsInHand, FlusherNeverPanics, Lines, FlushLines, Marks

\* The answer of Redis goes to the locals.
LEMMA SendOkKeeps ==
  ASSUME IInv, SendOk PROVE IInv'
BY ProcsAssumption, CellsAssumption, AmountsAssumption
DEF SendOk, Incrby, Goto,
     IInv, TypeOK, FlusherOnQueue, MergersElsewhere, SnapshotCurrent,
     CellsInHand, FlusherNeverPanics, Lines, FlushLines, Marks

\* A failed flush leaves the queue as it is.
LEMMA SendFailsKeeps ==
  ASSUME NEW lost \in BOOLEAN, IInv, SendFails(lost) PROVE IInv'
BY ProcsAssumption, CellsAssumption, AmountsAssumption
DEF SendFails, Incrby, Mark, Return, NoReg, Goto,
     IInv, TypeOK, FlusherOnQueue, MergersElsewhere, SnapshotCurrent,
     CellsInHand, FlusherNeverPanics, Lines, FlushLines, Marks

\* A dead flusher does nothing.
LEMMA SendPanicsKeeps ==
  ASSUME IInv, SendPanics PROVE IInv'
BY ProcsAssumption, CellsAssumption
DEF SendPanics, Mark, Goto,
     IInv, TypeOK, FlusherOnQueue, MergersElsewhere, SnapshotCurrent,
     CellsInHand, FlusherNeverPanics, Lines, FlushLines, Marks

\* The queue is emptied only with its lock free, when no request merges.
LEMMA RemoveKeeps ==
  ASSUME IInv, Remove PROVE IInv'
BY ProcsAssumption, CellsAssumption
DEF Remove, Return, NoReg, Goto,
     IInv, TypeOK, FlusherOnQueue, MergersElsewhere, SnapshotCurrent,
     CellsInHand, FlusherNeverPanics, Lines, FlushLines, Marks

\* The answer goes to the cached or the queued cell, or to a new one.
LEMMA FoldKeeps ==
  ASSUME IInv, Fold PROVE IInv'
BY ProcsAssumption, CellsAssumption, AmountsAssumption
DEF Fold, Fresh, Held, Get, Return, NoReg, Goto,
     IInv, TypeOK, FlusherOnQueue, MergersElsewhere, SnapshotCurrent,
     CellsInHand, FlusherNeverPanics, Lines, FlushLines, Marks

\* The flusher changes initial values while it holds no snapshot.
LEMMA AddFromAuthorityKeeps ==
  ASSUME IInv, SetExpiry \/ AddValue \/ AddInitial PROVE IInv'
BY ProcsAssumption, CellsAssumption
DEF SetExpiry, AddValue, AddInitial, Return, NoReg, Goto,
     IInv, TypeOK, FlusherOnQueue, MergersElsewhere, SnapshotCurrent,
     CellsInHand, FlusherNeverPanics, Lines, FlushLines, Marks

\* Writes go back only to an initial value above them.
LEMMA ReturnWritesKeeps ==
  ASSUME IInv, ReturnWrites PROVE IInv'
BY ProcsAssumption, CellsAssumption
DEF ReturnWrites, Get, Mark, Return, NoReg, Goto,
     IInv, TypeOK, FlusherOnQueue, MergersElsewhere, SnapshotCurrent,
     CellsInHand, FlusherNeverPanics, Lines, FlushLines, Marks

\* So the subtraction does not underflow.
LEMMA RevertKeeps ==
  ASSUME IInv, Revert PROVE IInv'
BY ProcsAssumption, CellsAssumption
DEF Revert, Mark, Return, NoReg, Goto,
     IInv, TypeOK, FlusherOnQueue, MergersElsewhere, SnapshotCurrent,
     CellsInHand, FlusherNeverPanics, Lines, FlushLines, Marks

\* The environment touches Redis, the cache's reference and the clock.
LEMMA EnvironmentKeeps ==
  ASSUME IInv, Environment PROVE IInv'
<1>1. ASSUME NEW d \in Deltas, RemoteWrite(d) PROVE IInv'
  BY <1>1, AmountsAssumption
  DEF RemoteWrite, Incrby,
       IInv, TypeOK, FlusherOnQueue, MergersElsewhere, SnapshotCurrent,
       CellsInHand, FlusherNeverPanics, Lines, FlushLines, Marks
<1>2. CASE DeleteCounters
  BY <1>2
  DEF DeleteCounters, Mark,
       IInv, TypeOK, FlusherOnQueue, MergersElsewhere, SnapshotCurrent,
       CellsInHand, FlusherNeverPanics, Lines, FlushLines, Marks
<1>3. CASE Evict
  BY <1>3
  DEF Evict,
       IInv, TypeOK, FlusherOnQueue, MergersElsewhere, SnapshotCurrent,
       CellsInHand, FlusherNeverPanics, Lines, FlushLines, Marks
<1>4. CASE Tick
  BY <1>4
  DEF Tick, Mark,
       IInv, TypeOK, FlusherOnQueue, MergersElsewhere, SnapshotCurrent,
       CellsInHand, FlusherNeverPanics, Lines, FlushLines, Marks
<1> QED
  BY <1>1, <1>2, <1>3, <1>4 DEF Environment

\* Stuttering.
LEMMA StutterKeeps ==
  ASSUME IInv, UNCHANGED vars PROVE IInv'
BY DEF vars,
     IInv, TypeOK, FlusherOnQueue, MergersElsewhere, SnapshotCurrent,
     CellsInHand, FlusherNeverPanics, Lines, FlushLines, Marks

\* IInv is an invariant of the specification.
THEOREM Invariance == Spec => []IInv
<1>1. Init => IInv
  BY InitHolds
<1>2. IInv /\ [Next]_vars => IInv'
  <2>1. SUFFICES ASSUME IInv, [Next]_vars PROVE IInv'
    OBVIOUS
  <2>2. ASSUME NEW t \in Threads, Request(t) PROVE IInv'
    <3>1. CASE \E d \in Deltas : UpdateCounter(t, d) \/ CheckAndUpdate(t, d)
      BY <2>1, <3>1, UpdateCounterKeeps, CheckAndUpdateKeeps
    <3>2. CASE Working(t)
      BY <2>1, <3>2, FetchKeeps, UpdateKeeps, ResetInitialKeeps, AddKeeps,
         LoadInitialKeeps, LoadValueKeeps, ExchangeKeeps, LoseExchangeKeeps DEF Working
    <3> QED
      BY <2>2, <3>1, <3>2 DEF Request
  <2>3. CASE Flush
    BY <2>1, <2>3, ConsumeKeeps, LoadInitialKeeps, LoadValueKeeps, ExchangeKeeps,
       LoseExchangeKeeps, SendOkKeeps, SendFailsKeeps, SendPanicsKeeps, RemoveKeeps,
       FoldKeeps, AddFromAuthorityKeeps, ReturnWritesKeeps, RevertKeeps DEF Flush
  <2>4. CASE Environment
    BY <2>1, <2>4, EnvironmentKeeps
  <2>5. CASE UNCHANGED vars
    BY <2>1, <2>5, StutterKeeps
  <2> QED
    BY <2>1, <2>2, <2>3, <2>4, <2>5 DEF Next, Quiesce
<1> QED
  BY <1>1, <1>2, PTL DEF Spec

\* Cells, amounts and locals keep their types: no unsigned subtraction of
\* pending_writes, update_counters or revert_writes underflows.
THEOREM TypeCorrect == Spec => []TypeOK
<1>1. IInv => TypeOK
  BY DEF IInv
<1> QED
  BY <1>1, Invariance, PTL

\* The flush task's expect("State machine is wrong!") never fails.
THEOREM FlusherIsSafe == Spec => []FlusherNeverPanics
<1>1. IInv => FlusherNeverPanics
  BY DEF IInv
<1> QED
  BY <1>1, Invariance, PTL
=============================================================================
