----------------------- MODULE CrInMemoryStorageProofs -----------------------
(***************************************************************************)
(* A proof about the replicated counter, for any number of nodes: whatever *)
(* updates are merged, in whatever order and however late, a node does not *)
(* lose hits of its own while their window lasts.                          *)
(***************************************************************************)
EXTENDS CrInMemoryStorage, TLAPS

\* A leaf that names no prover is given to the SMT solver, twice if it fails, and
\* then to Zenon.
USE SMTT(20), Z3T(20), ZenonT(20)

Packets == [from : Nodes, to : Nodes, values : [Nodes -> Nat], expires : Int]
Stages == {"expiry", "exchange", "expired", "reset", "values"}
Works ==
  {<<"idle", 0>>} \cup {<<"admitted", d>> : d \in Amounts}
    \cup {<<"value", d, b>> : d \in Amounts, b \in BOOLEAN}
Merges == {<<>>} \cup (Stages \X Packets \X Int \X Int)

\* The types the argument needs; that an expiry is not negative is not needed.
TypesOK ==
  /\ now \in Int
  /\ value \in [Nodes -> Nat] /\ mine \in [Nodes -> Nat]
  /\ others \in [Nodes -> [Nodes -> Nat]]
  /\ expiry \in [Nodes -> Int]
  /\ work \in [Nodes -> Works]
  /\ merge \in [Nodes -> [Nodes -> Merges]]
  /\ clone \in [Nodes -> [Nodes -> {<<>>} \cup {<<v>> : v \in Nat}]]
  /\ net \subseteq Packets

\* Merges are stopped by the write lock, and one that is about to reset has
\* found the window over - or another merge has opened a new one, in which there
\* can be no hits yet.
MergeOK(n, m) ==
  merge[n][m] # <<>> =>
    LET t == merge[n][m] IN
    /\ work[n][1] # "value"
    /\ t[3] <= now
    /\ t[1] = "exchange" => t[2].expires < t[4]
    /\ t[1] = "reset" => expiry[n] <= now \/ mine[n] = 0
    /\ t[1] = "values" => t[4] \in Nat

\* A recorder that restarts the window has nothing to lose.
NodeOK(n) ==
  /\ value[n] >= mine[n]
  /\ work[n][1] = "value" /\ work[n][3] => mine[n] = 0

IInv ==
  /\ TypesOK
  /\ \A n \in Nodes : NodeOK(n)
  /\ \A n, m \in Nodes : MergeOK(n, m)

\* The larger of two numbers.
LEMMA MaxOfTwo ==
  ASSUME NEW a \in Nat, NEW b \in Nat
  PROVE  Max({a, b}) \in Nat
<1>1. \E x \in {a, b} : \A y \in {a, b} : x >= y
  OBVIOUS
<1> QED
  BY <1>1 DEF Max

\* Window is a number, and so is an expiry in seconds.
LEMMA Numbers == Window \in Int /\ \A e \in Int : Encode(e) \in Int
  BY WindowAssumption DEF Window, Encode

\* An update is made of counts and an expiry.
LEMMA UpdateType ==
  ASSUME NEW n \in Nodes, NEW m \in Nodes, NEW own \in Nat, NEW vs \in [Nodes -> Nat], NEW e \in Int
  PROVE  Update(n, m, own, vs, e) \in Packets
  BY Numbers DEF Update, Packets

\* Nobody has counted yet.
LEMMA InitIInv == Init => IInv
<1> SUFFICES ASSUME Init PROVE IInv
  OBVIOUS
<1>1. Zero \in [Nodes -> Nat] /\ \A n, m \in Nodes : Nothing[n][m] = <<>>
  BY DEF Zero, Nothing
<1>2. TypesOK
  BY <1>1, Numbers DEF Init, TypesOK, Works, Merges, Zero, Nothing
<1>3. \A n \in Nodes : NodeOK(n)
  BY DEF Init, NodeOK, Zero
<1>4. \A n, m \in Nodes : MergeOK(n, m)
  BY <1>1 DEF Init, MergeOK
<1> QED
  BY <1>2, <1>3, <1>4 DEF IInv

-----------------------------------------------------------------------------
\* What leaves the nodes alone: sending, and time.
LEMMA Elsewhere ==
  ASSUME IInv, TypesOK', now <= now', UNCHANGED <<value, mine, expiry, work, merge>>
  PROVE  IInv'
<1>1. \A n \in Nodes : NodeOK(n)'
  BY DEF IInv, NodeOK
<1>2. ASSUME NEW n \in Nodes, NEW m \in Nodes, merge[n][m] # <<>> PROVE MergeOK(n, m)'
  <2>1. now \in Int /\ now' \in Int /\ expiry[n] \in Int
    BY DEF IInv, TypesOK
  <2>2. merge[n][m] \in Stages \X Packets \X Int \X Int
    BY <1>2 DEF IInv, TypesOK, Merges
  <2>3. merge[n][m][3] \in Int
    BY <2>2
  <2>4. MergeOK(n, m)
    BY DEF IInv
  <2> QED
    BY <1>2, <2>1, <2>3, <2>4 DEF MergeOK
<1>3. \A n, m \in Nodes : MergeOK(n, m)'
  BY <1>2 DEF MergeOK
<1> QED
  BY <1>1, <1>3 DEF IInv

\* Publishing and encoding a value touch no counter.
LEMMA SendingKeeps ==
  ASSUME IInv, NEW n \in Nodes, NEW m \in Nodes,
         CloneValue(n, m) \/ Send(n, m) \/ ReSync(n, m)
  PROVE  IInv'
<1>1. UNCHANGED <<now, value, mine, others, expiry, work, merge>>
  BY DEF CloneValue, Send, ReSync, cell, history
<1>0. now <= now'
  BY <1>1 DEF IInv, TypesOK
<1>2. clone' \in [Nodes -> [Nodes -> {<<>>} \cup {<<v>> : v \in Nat}]]
  <2> DEFINE Clones == {<<>>} \cup {<<v>> : v \in Nat}
  <2>1. <<value[n]>> \in Clones /\ <<>> \in Clones /\ clone \in [Nodes -> [Nodes -> Clones]]
    BY DEF IInv, TypesOK
  <2>2. \/ clone' = [clone EXCEPT ![n][m] = <<value[n]>>]
        \/ clone' = [clone EXCEPT ![n][m] = <<>>]
        \/ clone' = clone
    BY DEF CloneValue, Send, ReSync
  <2> HIDE DEF Clones
  <2>3. \A x \in Clones : [clone EXCEPT ![n][m] = x] \in [Nodes -> [Nodes -> Clones]]
    BY <2>1
  <2>4. clone' \in [Nodes -> [Nodes -> Clones]]
    BY <2>1, <2>2, <2>3, Zenon
  <2> QED
    BY <2>4 DEF Clones
<1>3. net' \subseteq Packets
  <2>1. CASE Send(n, m)
    <3>1. clone[n][m] # <<>> /\ clone[n][m][1] \in Nat
      BY <2>1 DEF Send, IInv, TypesOK
    <3>2. Update(n, m, clone[n][m][1], others[n], expiry[n]) \in Packets
      BY ZenonT(60), <3>1, UpdateType DEF IInv, TypesOK
    <3> QED
      BY <2>1, <3>2 DEF Send, IInv, TypesOK
  <2>2. CASE ReSync(n, m)
    <3>1. Update(n, m, value[n], Zero, expiry[n]) \in Packets
      BY Zenon, UpdateType DEF IInv, TypesOK, Zero
    <3> QED
      BY <2>2, <3>1 DEF ReSync, IInv, TypesOK
  <2>3. CASE CloneValue(n, m)
    BY <2>3 DEF CloneValue, IInv, TypesOK
  <2> QED
    BY <2>1, <2>2, <2>3
<1>4. TypesOK'
  BY <1>1, <1>2, <1>3 DEF IInv, TypesOK
<1> QED
  BY <1>0, <1>1, <1>4, Elsewhere

-----------------------------------------------------------------------------
\* Recording.

\* Hits are admitted.
LEMMA AdmitKeeps ==
  ASSUME IInv, NEW n \in Nodes, NEW d \in Amounts, CheckAndUpdate(n, d) \/ Report(n, d)
  PROVE  IInv'
<1>1. /\ UNCHANGED <<now, value, mine, others, expiry, merge, clone, net>>
      /\ work' = [work EXCEPT ![n] = <<"admitted", d>>]
  BY DEF CheckAndUpdate, Report, cell, history
<1>2. <<"admitted", d>> \in Works
  BY DEF Works
<1>3. TypesOK'
  BY <1>1, <1>2 DEF IInv, TypesOK
<1>4. \A k \in Nodes : work'[k] = work[k] \/ work'[k][1] = "admitted"
  BY <1>1 DEF IInv, TypesOK
<1>5. \A k \in Nodes : NodeOK(k)'
  BY <1>1, <1>4 DEF IInv, NodeOK
<1>6. \A k, m \in Nodes : MergeOK(k, m)'
  BY <1>1, <1>4 DEF IInv, MergeOK
<1> QED
  BY <1>3, <1>5, <1>6 DEF IInv

\* The write lock is taken: there is no merge, and a new window has no hits.
LEMMA UpdateCounterKeeps ==
  ASSUME IInv, NEW n \in Nodes, UpdateCounter(n)
  PROVE  IInv'
<1> DEFINE fresh == n \notin present
           restart == ~fresh /\ Expired(n, now)
           d == work[n][2]
<1>1. /\ UNCHANGED <<now, value, others, merge, clone, net>>
      /\ work' = [work EXCEPT ![n] = <<"value", d, restart>>]
      /\ expiry' = [expiry EXCEPT ![n] = IF fresh \/ restart THEN now + Window ELSE expiry[n]]
      /\ mine' = [mine EXCEPT ![n] = IF fresh \/ restart THEN 0 ELSE mine[n]]
  BY DEF UpdateCounter
<1>2. d \in Amounts
  <2>1. work[n] \in Works /\ work[n][1] = "admitted"
    BY DEF UpdateCounter, IInv, TypesOK
  <2> QED
    BY <2>1 DEF Works
<1>3. <<"value", d, restart>> \in Works
  <2>1. restart \in BOOLEAN
    BY Zenon
  <2> HIDE DEF restart, d
  <2> QED
    BY <1>2, <2>1 DEF Works
<1>4. now + Window \in Int
  BY Numbers DEF IInv, TypesOK
<1>5. TypesOK'
  BY ZenonT(60), <1>1, <1>3, <1>4 DEF IInv, TypesOK
<1>6. \A m \in Nodes : merge[n][m] = <<>>
  BY DEF UpdateCounter, Merging
<1>7. /\ work'[n] = <<"value", d, restart>> /\ (restart => mine'[n] = 0)
      /\ (mine'[n] = 0 \/ mine'[n] = mine[n])
      /\ \A k \in Nodes \ {n} : work'[k] = work[k] /\ expiry'[k] = expiry[k] /\ mine'[k] = mine[k]
  BY <1>1 DEF IInv, TypesOK
<1> HIDE DEF fresh, restart, d
<1>8. ASSUME NEW k \in Nodes PROVE NodeOK(k)'
  <2>1. value[k] \in Nat /\ mine[k] \in Nat /\ NodeOK(k) /\ value'[k] = value[k]
    BY <1>1 DEF IInv, TypesOK
  <2>2. CASE k = n
    BY <1>7, <2>1, <2>2 DEF NodeOK
  <2>3. CASE k # n
    BY <1>7, <2>1, <2>3 DEF NodeOK
  <2> QED
    BY <2>2, <2>3
<1>9. ASSUME NEW k \in Nodes, NEW m \in Nodes PROVE MergeOK(k, m)'
  BY <1>1, <1>6, <1>7 DEF IInv, MergeOK
<1> QED
  BY <1>5, <1>8, <1>9 DEF IInv

\* The hits are stored, or added.
LEMMA IncAtKeeps ==
  ASSUME IInv, NEW n \in Nodes, IncAt(n)
  PROVE  IInv'
<1> DEFINE d == work[n][2]
<1>1. /\ UNCHANGED <<now, others, expiry, merge, clone, net>>
      /\ work[n][1] = "value"
      /\ value' = [value EXCEPT ![n] = IF work[n][3] THEN d ELSE value[n] + d]
      /\ mine' = [mine EXCEPT ![n] = mine[n] + d]
      /\ work' = [work EXCEPT ![n] = <<"idle", 0>>]
  BY DEF IncAt
<1>2. d \in Nat
  <2>1. work[n] \in Works /\ work[n][1] = "value"
    BY <1>1 DEF IInv, TypesOK
  <2>2. d \in Amounts
    BY <2>1 DEF Works
  <2> QED
    BY Zenon, <2>2, NodesAssumption
<1> HIDE DEF d
<1>3. <<"idle", 0>> \in Works
  BY DEF Works
<1>4. TypesOK'
  BY <1>1, <1>2, <1>3 DEF IInv, TypesOK
<1>5. \A m \in Nodes : merge[n][m] = <<>>
  BY <1>1 DEF IInv, MergeOK
<1>6. /\ work'[n][1] = "idle"
      /\ \A k \in Nodes \ {n} : work'[k] = work[k] /\ value'[k] = value[k] /\ mine'[k] = mine[k]
  BY <1>1 DEF IInv, TypesOK
<1>7. ASSUME NEW k \in Nodes PROVE NodeOK(k)'
  <2>1. value[k] \in Nat /\ mine[k] \in Nat /\ NodeOK(k)
    BY DEF IInv, TypesOK
  <2>2. CASE k = n
    <3>1. /\ value'[n] = IF work[n][3] THEN d ELSE value[n] + d
          /\ mine'[n] = mine[n] + d
      BY <1>1 DEF IInv, TypesOK
    <3> QED
      BY <1>1, <1>2, <1>6, <2>1, <2>2, <3>1 DEF NodeOK
  <2>3. CASE k # n
    BY <1>6, <2>1, <2>3 DEF NodeOK
  <2> QED
    BY <2>2, <2>3
<1>8. ASSUME NEW k \in Nodes, NEW m \in Nodes PROVE MergeOK(k, m)'
  BY <1>1, <1>5, <1>6 DEF IInv, MergeOK
<1> QED
  BY <1>4, <1>7, <1>8 DEF IInv

-----------------------------------------------------------------------------
\* Merging.

\* The merge at n of m's update goes on at t, and changes nothing else of it.
LEMMA MergeTypes ==
  ASSUME IInv, NEW n \in Nodes, NEW m \in Nodes, NEW t \in Merges,
         merge' = [merge EXCEPT ![n][m] = t]
  PROVE  /\ merge' \in [Nodes -> [Nodes -> Merges]]
         /\ merge'[n][m] = t
         /\ \A j, k \in Nodes : <<j, k>> # <<n, m>> => merge'[j][k] = merge[j][k]
<1>1. merge \in [Nodes -> [Nodes -> Merges]]
  BY DEF IInv, TypesOK
<1> QED
  BY <1>1

\* What a merge in progress is about.
LEMMA MergeParts ==
  ASSUME IInv, NEW n \in Nodes, NEW m \in Nodes, merge[n][m] # <<>>
  PROVE  LET t == merge[n][m] IN
         /\ t[1] \in Stages /\ t[2] \in Packets /\ t[3] \in Int /\ t[4] \in Int
         /\ t[2].expires \in Int /\ t[2].values \in [Nodes -> Nat]
         /\ \A l \in Stages, x \in Int : <<l, t[2], t[3], x>> \in Merges
<1>1. merge[n][m] \in Stages \X Packets \X Int \X Int
  BY DEF IInv, TypesOK, Merges
<1>2. /\ merge[n][m][1] \in Stages /\ merge[n][m][2] \in Packets
      /\ merge[n][m][3] \in Int /\ merge[n][m][4] \in Int
  BY <1>1
<1> QED
  BY Zenon, <1>2 DEF Packets, Merges

\* A step of a merge that leaves value, hits and expiry alone.
LEMMA MergeGoesOn ==
  ASSUME IInv, NEW n \in Nodes, NEW m \in Nodes, NEW t \in Merges,
         merge' = [merge EXCEPT ![n][m] = t],
         UNCHANGED <<now, value, mine, others, expiry, work, clone>>, net' \subseteq net,
         MergeOK(n, m)'
  PROVE  IInv'
<1>1. /\ merge' \in [Nodes -> [Nodes -> Merges]]
      /\ \A j, k \in Nodes : <<j, k>> # <<n, m>> => merge'[j][k] = merge[j][k]
  BY ZenonT(60), MergeTypes
<1>2. TypesOK'
  BY <1>1 DEF IInv, TypesOK
<1>3. \A k \in Nodes : NodeOK(k)'
  BY DEF IInv, NodeOK
<1>4. \A j, k \in Nodes : MergeOK(j, k)'
  <2>1. ASSUME NEW j \in Nodes, NEW k \in Nodes, <<j, k>> # <<n, m>> PROVE MergeOK(j, k)'
    BY <1>1, <2>1 DEF IInv, MergeOK
  <2> QED
    BY <2>1
<1> QED
  BY <1>2, <1>3, <1>4 DEF IInv

\* An update arrives.
LEMMA ReceiveKeeps ==
  ASSUME IInv, NEW u \in net, Receive(u)
  PROVE  IInv'
<1> DEFINE n == u.to
           m == u.from
<1>1. u \in Packets /\ n \in Nodes /\ m \in Nodes
  BY ZenonT(60) DEF IInv, TypesOK, Packets
<1>2. /\ UNCHANGED <<now, value, mine, others, expiry, work, clone>>
      /\ net' \subseteq net /\ merge[n][m] = <<>> /\ work[n][1] # "value"
  BY DEF Receive, cell, Writing
<1>3. now \in Int
  BY DEF IInv, TypesOK
<1>4. <<>> \in Merges /\ <<"expiry", u, now, 0>> \in Merges
  BY <1>1, <1>3 DEF Merges, Stages
<1>5. CASE merge' = merge
  <2>1. TypesOK'
    BY ZenonT(60), <1>2, <1>5 DEF IInv, TypesOK
  <2> QED
    BY <1>2, <1>3, <1>5, <2>1, Elsewhere
<1>6. CASE merge' = [merge EXCEPT ![n][m] = <<>>]
  <2>1. merge'[n][m] = <<>>
    BY Zenon, <1>1, <1>4, <1>6, MergeTypes
  <2>2. MergeOK(n, m)'
    BY <2>1 DEF MergeOK
  <2> HIDE DEF n, m
  <2> QED
    BY Zenon, <1>1, <1>2, <1>4, <1>6, <2>2, MergeGoesOn
<1>7. CASE merge' = [merge EXCEPT ![n][m] = <<"expiry", u, now, 0>>]
  <2>1. merge'[n][m] = <<"expiry", u, now, 0>>
    BY ZenonT(60), <1>1, <1>4, <1>7, MergeTypes
  <2>2. MergeOK(n, m)'
    BY <1>2, <1>3, <2>1 DEF MergeOK
  <2> HIDE DEF n, m
  <2> QED
    BY Zenon, <1>1, <1>2, <1>4, <1>7, <2>2, MergeGoesOn
<1> QED
  BY <1>5, <1>6, <1>7 DEF Receive

\* The expiry is loaded, and the window looked at.
LEMMA LoadsKeep ==
  ASSUME IInv, NEW n \in Nodes, NEW m \in Nodes, LoadExpiry(n, m) \/ CheckExpired(n, m)
  PROVE  IInv'
<1> DEFINE t == merge[n][m]
<1>1. t # <<>> /\ UNCHANGED <<now, value, mine, others, expiry, work, clone, net>>
  BY DEF LoadExpiry, CheckExpired, At, cell, history
<1>2. /\ t[3] \in Int /\ t[2].expires \in Int
      /\ \A l \in Stages, x \in Int : <<l, t[2], t[3], x>> \in Merges
  BY <1>1, MergeParts
<1>3. work[n][1] # "value" /\ t[3] <= now
  BY <1>1 DEF IInv, MergeOK
<1>4. expiry[n] \in Int /\ value[n] \in Nat /\ now \in Int
  BY DEF IInv, TypesOK
<1>5. CASE LoadExpiry(n, m)
  <2> DEFINE l == IF Earlier(n, t[2].expires, t[3]) THEN "exchange" ELSE "expired"
             x == <<l, t[2], t[3], expiry[n]>>
  <2>1. merge' = [merge EXCEPT ![n][m] = x]
    BY <1>5, Zenon DEF LoadExpiry, Then
  <2>2. l \in {"exchange", "expired"} /\ (l = "exchange" => t[2].expires < expiry[n])
    BY DEF Earlier
  <2> HIDE DEF l
  <2>3. x \in Merges
    BY <1>2, <1>4, <2>2 DEF Stages
  <2>4. merge'[n][m] = x
    BY Zenon, <2>1, <2>3, MergeTypes
  <2>5. MergeOK(n, m)'
    BY <1>1, <1>3, <2>2, <2>4 DEF MergeOK
  <2> HIDE DEF x
  <2> QED
    BY Zenon, <1>1, <2>1, <2>3, <2>5, MergeGoesOn
<1>6. CASE CheckExpired(n, m) /\ Expired(n, t[3])
  <2> DEFINE x == <<"reset", t[2], t[3], 0>>
  <2>1. merge' = [merge EXCEPT ![n][m] = x]
    BY <1>6, Zenon DEF CheckExpired, Then
  <2>2. x \in Merges
    BY <1>2 DEF Stages
  <2>3. merge'[n][m] = x
    BY Zenon, <2>1, <2>2, MergeTypes
  <2>4. expiry[n] <= now
    BY <1>2, <1>3, <1>4, <1>6 DEF Expired
  <2>5. MergeOK(n, m)'
    BY <1>1, <1>3, <2>3, <2>4 DEF MergeOK
  <2> HIDE DEF x
  <2> QED
    BY Zenon, <1>1, <2>1, <2>2, <2>5, MergeGoesOn
<1>7. CASE CheckExpired(n, m) /\ ~Expired(n, t[3])
  <2> DEFINE x == <<"values", t[2], t[3], value[n]>>
  <2>1. merge' = [merge EXCEPT ![n][m] = x]
    BY <1>7, Zenon DEF CheckExpired, Then
  <2>2. x \in Merges
    BY <1>2, <1>4 DEF Stages
  <2>3. merge'[n][m] = x
    BY Zenon, <2>1, <2>2, MergeTypes
  <2>4. MergeOK(n, m)'
    BY <1>1, <1>3, <1>4, <2>3 DEF MergeOK
  <2> HIDE DEF x
  <2> QED
    BY Zenon, <1>1, <2>1, <2>2, <2>4, MergeGoesOn
<1> QED
  BY <1>5, <1>6, <1>7

\* An earlier expiry takes the place of ours: what has expired stays so.
LEMMA ExchangeKeeps ==
  ASSUME IInv, NEW n \in Nodes, NEW m \in Nodes, Exchange(n, m)
  PROVE  IInv'
<1> DEFINE t == merge[n][m]
           x == <<"expired", t[2], t[3], 0>>
<1>1. /\ t # <<>> /\ t[1] = "exchange"
      /\ UNCHANGED <<now, value, mine, others, work, clone, net>>
      /\ expiry' = [expiry EXCEPT ![n] = IF expiry[n] = t[4] THEN t[2].expires ELSE expiry[n]]
  BY DEF Exchange, At, history
<1>2. merge' = [merge EXCEPT ![n][m] = x]
  BY Zenon DEF Exchange, Then
<1>3. /\ t[3] \in Int /\ t[4] \in Int /\ t[2].expires \in Int
      /\ \A l \in Stages, y \in Int : <<l, t[2], t[3], y>> \in Merges
  BY <1>1, MergeParts
<1>4. work[n][1] # "value" /\ t[3] <= now /\ t[2].expires < t[4]
  BY <1>1 DEF IInv, MergeOK
<1>5. x \in Merges
  BY <1>3 DEF Stages
<1> HIDE DEF x
<1>6. /\ merge' \in [Nodes -> [Nodes -> Merges]]
      /\ merge'[n][m] = x
      /\ \A j, k \in Nodes : <<j, k>> # <<n, m>> => merge'[j][k] = merge[j][k]
  BY ZenonT(60), <1>2, <1>5, MergeTypes
<1>7. expiry' \in [Nodes -> Int] /\ \A k \in Nodes : expiry'[k] <= expiry[k]
  <2>1. expiry \in [Nodes -> Int]
    BY DEF IInv, TypesOK
  <2> HIDE DEF t
  <2> QED
    BY <1>1, <1>3, <1>4, <2>1
<1>8. TypesOK'
  BY ZenonT(60), <1>1, <1>6, <1>7 DEF IInv, TypesOK
<1>9. \A k \in Nodes : NodeOK(k)'
  BY ZenonT(60), <1>1 DEF IInv, NodeOK
<1>10. ASSUME NEW j \in Nodes, NEW k \in Nodes PROVE MergeOK(j, k)'
  <2>1. CASE <<j, k>> = <<n, m>>
    BY <1>1, <1>4, <1>6, <2>1 DEF MergeOK, x
  <2>2. CASE <<j, k>> # <<n, m>>
    <3>1. merge'[j][k] = merge[j][k]
      BY <1>6, <2>2
    <3>2. expiry[j] <= now => expiry'[j] <= now'
      <4>1. expiry[j] \in Int /\ expiry'[j] \in Int /\ now \in Int
        BY <1>7 DEF IInv, TypesOK
      <4> QED
        BY <1>1, <1>7, <4>1
    <3> QED
      BY <1>1, <3>1, <3>2 DEF IInv, MergeOK
  <2> QED
    BY <2>1, <2>2
<1> QED
  BY <1>8, <1>9, <1>10 DEF IInv

\* A merge resets the counter.  No hit can be in a window that another merge has
\* opened, for that merge and this one have kept the write lock away.
LEMMA ResetKeeps ==
  ASSUME IInv, NEW n \in Nodes, NEW m \in Nodes, Reset(n, m)
  PROVE  IInv'
<1> DEFINE t == merge[n][m]
           x == <<"values", t[2], t[3], 0>>
<1>1. /\ t # <<>> /\ t[1] = "reset"
      /\ UNCHANGED <<now, work, clone, net>>
      /\ expiry' = [expiry EXCEPT ![n] = t[2].expires]
      /\ value' = [value EXCEPT ![n] = 0]
      /\ others' = [others EXCEPT ![n] = Zero]
      /\ mine' = [mine EXCEPT ![n] = IF Expired(n, now) THEN 0 ELSE mine[n]]
  BY DEF Reset, At
<1>2. merge' = [merge EXCEPT ![n][m] = x]
  BY Zenon DEF Reset, Then
<1>3. /\ t[3] \in Int /\ t[2].expires \in Int
      /\ \A l \in Stages, y \in Int : <<l, t[2], t[3], y>> \in Merges
  BY <1>1, MergeParts
<1>4. work[n][1] # "value" /\ t[3] <= now /\ (expiry[n] <= now \/ mine[n] = 0)
  BY ZenonT(60), <1>1 DEF IInv, MergeOK
<1>5. x \in Merges
  BY <1>3 DEF Stages
<1> HIDE DEF x
<1>6. /\ merge' \in [Nodes -> [Nodes -> Merges]]
      /\ merge'[n][m] = x
      /\ \A j, k \in Nodes : <<j, k>> # <<n, m>> => merge'[j][k] = merge[j][k]
  BY ZenonT(60), <1>2, <1>5, MergeTypes
<1>7. /\ mine'[n] = 0 /\ value'[n] = 0
      /\ \A k \in Nodes \ {n} : mine'[k] = mine[k] /\ value'[k] = value[k] /\ expiry'[k] = expiry[k]
  BY <1>1, <1>4 DEF IInv, TypesOK, Expired
<1>8. TypesOK'
  <2>1. Zero \in [Nodes -> Nat]
    BY DEF Zero
  <2>2. value' \in [Nodes -> Nat] /\ mine' \in [Nodes -> Nat] /\ expiry' \in [Nodes -> Int]
    BY ZenonT(60), <1>1, <1>3 DEF IInv, TypesOK
  <2>3. others' \in [Nodes -> [Nodes -> Nat]]
    BY Zenon, <1>1, <2>1 DEF IInv, TypesOK
  <2> QED
    BY ZenonT(60), <1>1, <1>6, <2>2, <2>3 DEF IInv, TypesOK
<1>9. \A k \in Nodes : NodeOK(k)'
  BY <1>1, <1>7 DEF IInv, NodeOK
<1>10. ASSUME NEW j \in Nodes, NEW k \in Nodes PROVE MergeOK(j, k)'
  <2>1. CASE <<j, k>> = <<n, m>>
    BY <1>1, <1>4, <1>6, <2>1 DEF MergeOK, x
  <2>2. CASE <<j, k>> # <<n, m>>
    <3>1. merge'[j][k] = merge[j][k]
      BY <1>6, <2>2
    <3>2. CASE j = n
      BY ZenonT(60), <1>1, <1>7, <3>1, <3>2 DEF IInv, MergeOK
    <3>3. CASE j # n
      BY <1>1, <1>7, <3>1, <3>3 DEF IInv, MergeOK
    <3> QED
      BY <3>2, <3>3
  <2> QED
    BY <2>1, <2>2
<1> QED
  BY <1>8, <1>9, <1>10 DEF IInv

\* The values are merged: our own count only grows.
LEMMA MergeValuesKeeps ==
  ASSUME IInv, NEW n \in Nodes, NEW m \in Nodes, MergeValues(n, m)
  PROVE  IInv'
<1> DEFINE t == merge[n][m]
           vs == t[2].values
<1>1. /\ t # <<>> /\ t[1] = "values"
      /\ UNCHANGED <<now, expiry, work, clone, net, mine>>
      /\ value' = [value EXCEPT ![n] = Raised(n, vs[n], t[4])]
      /\ others' = [others EXCEPT ![n] =
           [k \in Nodes |-> IF k = n THEN 0 ELSE Max({others[n][k], vs[k]})]]
      /\ merge' = [merge EXCEPT ![n][m] = <<>>]
  BY DEF MergeValues, At, history
<1>2. vs \in [Nodes -> Nat] /\ t[4] \in Nat
  BY ZenonT(60), <1>1, MergeParts DEF IInv, MergeOK
<1>3. Raised(n, vs[n], t[4]) \in Nat /\ Raised(n, vs[n], t[4]) >= value[n]
  <2>1. vs[n] \in Nat /\ value[n] \in Nat
    BY Zenon, <1>2 DEF IInv, TypesOK
  <2> HIDE DEF vs, t
  <2> QED
    BY <1>2, <2>1 DEF Raised
<1> HIDE DEF vs
<1>4. /\ merge' \in [Nodes -> [Nodes -> Merges]]
      /\ merge'[n][m] = <<>>
      /\ \A j, k \in Nodes : <<j, k>> # <<n, m>> => merge'[j][k] = merge[j][k]
  <2>1. <<>> \in Merges
    BY DEF Merges
  <2> QED
    BY ZenonT(60), <1>1, <2>1, MergeTypes
<1>5. others' \in [Nodes -> [Nodes -> Nat]]
  <2> DEFINE f == [k \in Nodes |-> IF k = n THEN 0 ELSE Max({others[n][k], vs[k]})]
  <2>1. \A k \in Nodes : others[n][k] \in Nat /\ vs[k] \in Nat
    BY <1>2 DEF IInv, TypesOK
  <2>2. \A k \in Nodes : Max({others[n][k], vs[k]}) \in Nat
    BY <2>1, MaxOfTwo
  <2>3. f \in [Nodes -> Nat]
    BY <2>2
  <2> HIDE DEF f
  <2> QED
    BY Zenon, <1>1, <2>3 DEF IInv, TypesOK, f
<1>6. value' \in [Nodes -> Nat] /\ \A k \in Nodes : value'[k] >= value[k]
  <2> DEFINE r == Raised(n, vs[n], t[4])
  <2>1. value \in [Nodes -> Nat] /\ value' = [value EXCEPT ![n] = r]
    BY <1>1 DEF IInv, TypesOK
  <2>2. r \in Nat /\ r >= value[n]
    BY <1>3
  <2> HIDE DEF r
  <2> QED
    BY <2>1, <2>2
<1>7. TypesOK'
  BY ZenonT(60), <1>1, <1>4, <1>5, <1>6 DEF IInv, TypesOK
<1>8. ASSUME NEW k \in Nodes PROVE NodeOK(k)'
  <2>1. value[k] \in Nat /\ value'[k] \in Nat /\ mine[k] \in Nat /\ NodeOK(k)
    BY <1>6 DEF IInv, TypesOK
  <2> QED
    BY <1>1, <1>6, <2>1 DEF NodeOK
<1>9. ASSUME NEW j \in Nodes, NEW k \in Nodes PROVE MergeOK(j, k)'
  <2>1. CASE <<j, k>> = <<n, m>>
    BY <1>4, <2>1 DEF MergeOK
  <2>2. CASE <<j, k>> # <<n, m>>
    BY <1>1, <1>4, <2>2 DEF IInv, MergeOK
  <2> QED
    BY <2>1, <2>2
<1> QED
  BY <1>7, <1>8, <1>9 DEF IInv

-----------------------------------------------------------------------------
\* The counter of a node is gone, with its hits.
LEMMA ForgetKeeps ==
  ASSUME IInv, NEW n \in Nodes, Forget(n)
  PROVE  IInv'
<1> DEFINE own(m) == IF clone[n][m] # <<>> THEN clone[n][m][1] ELSE value[n]
           old(m) == Update(n, m, own(m), others[n], expiry[n])
<1>1. /\ UNCHANGED <<now, expiry, work, merge>>
      /\ value' = [value EXCEPT ![n] = 0] /\ mine' = [mine EXCEPT ![n] = 0]
      /\ others' = [others EXCEPT ![n] = Zero]
      /\ clone' = [clone EXCEPT ![n] = [m \in Nodes |-> <<>>]]
  BY DEF Forget
<1>2. \A m \in Nodes : old(m) \in Packets
  <2> SUFFICES ASSUME NEW m \in Nodes PROVE old(m) \in Packets
    OBVIOUS
  <2>1. own(m) \in Nat
    BY DEF IInv, TypesOK
  <2>2. others[n] \in [Nodes -> Nat] /\ expiry[n] \in Int
    BY DEF IInv, TypesOK
  <2> HIDE DEF own
  <2> QED
    BY <2>1, <2>2, UpdateType
<1>3. net' \subseteq Packets
  <2>1. net' = net \cup {old(m) : m \in {k \in Peers(n) : <<n, k>> \in queued \/ clone[n][k] # <<>>}}
    BY DEF Forget
  <2> HIDE DEF old
  <2> QED
    BY Zenon, <1>2, <2>1 DEF Peers, IInv, TypesOK
<1>4. TypesOK'
  <2>1. Zero \in [Nodes -> Nat]
    BY DEF Zero
  <2>2. value' \in [Nodes -> Nat] /\ mine' \in [Nodes -> Nat]
    BY <1>1 DEF IInv, TypesOK
  <2>3. others' \in [Nodes -> [Nodes -> Nat]]
    BY Zenon, <1>1, <2>1 DEF IInv, TypesOK
  <2>4. clone' \in [Nodes -> [Nodes -> {<<>>} \cup {<<v>> : v \in Nat}]]
    <3> DEFINE Clones == {<<>>} \cup {<<v>> : v \in Nat}
    <3>1. [m \in Nodes |-> <<>>] \in [Nodes -> Clones] /\ clone \in [Nodes -> [Nodes -> Clones]]
      BY ZenonT(60) DEF IInv, TypesOK
    <3> HIDE DEF Clones
    <3>2. clone' \in [Nodes -> [Nodes -> Clones]]
      BY <1>1, <3>1
    <3> QED
      BY <3>2 DEF Clones
  <2> QED
    BY <1>1, <1>3, <2>2, <2>3, <2>4 DEF IInv, TypesOK
<1>5. /\ value'[n] = 0 /\ mine'[n] = 0
      /\ \A k \in Nodes \ {n} : value'[k] = value[k] /\ mine'[k] = mine[k]
  BY <1>1 DEF IInv, TypesOK
<1>6. \A k \in Nodes : NodeOK(k)'
  BY <1>1, <1>5 DEF IInv, NodeOK
<1>7. \A j, k \in Nodes : MergeOK(j, k)'
  BY <1>1, <1>5 DEF IInv, MergeOK
<1> QED
  BY <1>4, <1>6, <1>7 DEF IInv

\* A server is restarted.
LEMMA RestartKeeps ==
  ASSUME IInv, NEW n \in Nodes, Restart(n)
  PROVE  IInv'
<1>1. /\ now' = now /\ net' \subseteq net
      /\ value' = [value EXCEPT ![n] = 0] /\ mine' = [mine EXCEPT ![n] = 0]
      /\ others' = [others EXCEPT ![n] = Zero]
      /\ expiry' = [expiry EXCEPT ![n] = now + Window]
      /\ work' = [work EXCEPT ![n] = <<"idle", 0>>]
      /\ merge' = [merge EXCEPT ![n] = [m \in Nodes |-> <<>>]]
      /\ clone' = [clone EXCEPT ![n] = [m \in Nodes |-> <<>>]]
  BY DEF Restart
<1>2. TypesOK'
  <2>1. Zero \in [Nodes -> Nat] /\ <<"idle", 0>> \in Works /\ now + Window \in Int
    BY Numbers DEF Zero, Works, IInv, TypesOK
  <2>2. value' \in [Nodes -> Nat] /\ mine' \in [Nodes -> Nat] /\ expiry' \in [Nodes -> Int]
    BY <1>1, <2>1 DEF IInv, TypesOK
  <2>3. others' \in [Nodes -> [Nodes -> Nat]] /\ work' \in [Nodes -> Works]
    BY Zenon, <1>1, <2>1 DEF IInv, TypesOK
  <2>4. clone' \in [Nodes -> [Nodes -> {<<>>} \cup {<<v>> : v \in Nat}]]
    <3> DEFINE Clones == {<<>>} \cup {<<v>> : v \in Nat}
    <3>1. [m \in Nodes |-> <<>>] \in [Nodes -> Clones] /\ clone \in [Nodes -> [Nodes -> Clones]]
      BY DEF IInv, TypesOK
    <3> HIDE DEF Clones
    <3>2. clone' \in [Nodes -> [Nodes -> Clones]]
      BY <1>1, <3>1
    <3> QED
      BY <3>2 DEF Clones
  <2>5. merge' \in [Nodes -> [Nodes -> Merges]]
    <3>1. [m \in Nodes |-> <<>>] \in [Nodes -> Merges]
      BY DEF Merges
    <3> QED
      BY <1>1, <3>1 DEF IInv, TypesOK
  <2> QED
    BY ZenonT(60), <1>1, <2>2, <2>3, <2>4, <2>5 DEF IInv, TypesOK
<1>3. /\ value'[n] = 0 /\ mine'[n] = 0 /\ work'[n][1] = "idle"
      /\ \A m \in Nodes : merge'[n][m] = <<>>
      /\ \A k \in Nodes \ {n} : /\ value'[k] = value[k] /\ mine'[k] = mine[k]
                                /\ expiry'[k] = expiry[k] /\ work'[k] = work[k]
                                /\ merge'[k] = merge[k]
  BY <1>1 DEF IInv, TypesOK
<1>4. \A k \in Nodes : NodeOK(k)'
  BY <1>3 DEF IInv, NodeOK
<1>5. ASSUME NEW j \in Nodes, NEW k \in Nodes PROVE MergeOK(j, k)'
  BY <1>1, <1>3 DEF IInv, MergeOK
<1> QED
  BY <1>2, <1>4, <1>5 DEF IInv

\* Every step keeps the invariant.
LEMMA NextKeeps == IInv /\ [Next]_vars => IInv'
<1> SUFFICES ASSUME IInv, [Next]_vars PROVE IInv'
  OBVIOUS
<1>1. ASSUME NEW n \in Nodes, NEW m \in Peers(n),
             \/ CloneValue(n, m) \/ Send(n, m) \/ ReSync(n, m)
             \/ LoadExpiry(n, m) \/ Exchange(n, m) \/ CheckExpired(n, m)
             \/ Reset(n, m) \/ MergeValues(n, m)
      PROVE  IInv'
  <2>1. m \in Nodes
    BY DEF Peers
  <2> QED
    BY <1>1, <2>1, SendingKeeps, LoadsKeep, ExchangeKeeps, ResetKeeps, MergeValuesKeeps
<1>2. ASSUME NEW n \in Nodes,
             \/ \E d \in Amounts : CheckAndUpdate(n, d) \/ Report(n, d)
             \/ UpdateCounter(n) \/ IncAt(n) \/ DeleteCounters(n) \/ Clear(n) \/ Restart(n)
      PROVE  IInv'
  BY <1>2, AdmitKeeps, UpdateCounterKeeps, IncAtKeeps, ForgetKeeps, RestartKeeps
  DEF DeleteCounters, Clear
<1>3. CASE Tick
  <2>1. /\ UNCHANGED <<value, mine, others, expiry, work, merge, clone, net>> /\ now' = now + 1
    BY <1>3 DEF Tick, cell
  <2>2. TypesOK' /\ now <= now'
    BY <2>1 DEF IInv, TypesOK
  <2> QED
    BY <2>1, <2>2, Elsewhere
<1>4. CASE UNCHANGED vars
  <2>1. UNCHANGED <<now, value, mine, others, expiry, work, merge, clone, net>>
    BY <1>4 DEF vars, cell, history
  <2>2. TypesOK' /\ now <= now'
    BY <2>1 DEF IInv, TypesOK
  <2> QED
    BY <2>1, <2>2, Elsewhere
<1> QED
  BY ZenonT(60), <1>1, <1>2, <1>3, <1>4, ReceiveKeeps DEF Next, Quiesce

(***************************************************************************)
(* For any number of nodes, any amounts and any limit, a node counts all   *)
(* the hits it has recorded in the running window: neither a merge that    *)
(* loaded its count before, nor one that resets the counter, nor one that  *)
(* shortens the window can lose them.                                      *)
(***************************************************************************)
THEOREM OwnHitsNeverLost == Spec => []OwnHitsCounted
<1>1. IInv => OwnHitsCounted
  BY DEF IInv, NodeOK, OwnHitsCounted
<1> QED
  BY <1>1, InitIInv, NextKeeps, PTL DEF Spec
=============================================================================
