---------------------- MODULE ParallelValidationProofs ----------------------
(***************************************************************************)
(* ParallelValidation keeps its safety properties with any number of       *)
(* threads, over any tree of blocks and any work, sizes and numbers of     *)
(* script checks.                                                          *)
(***************************************************************************)
EXTENDS ParallelValidation, BlockTreeProofs

----------------------------------------------------------------------------
(* The inductive invariant.                                                *)

\* A validation thread holds cs_main in these places, the miner throughout.
Holding == {"disconnect", "connect", "commit", "next"}
Locks ==
    /\ \A t \in Threads : pc[t] \in Holding <=> csMain = t
    /\ pc[Miner] # "none" <=> csMain = Miner

Idle == {t \in Threads : pc[t] = "none"}
Grants == semPV = Cardinality(Idle)

\* While the miner is at work every thread that got as far as storing its block
\* has been told to stop.
Fresh == {"none", "start", "accept", "post"}
MinerStops ==
    pc[Miner] # "none" => \A t \in Threads : pc[t] \notin Fresh => fQuit[t]

\* A thread has a path to connect, of which cur is a part.
OnPath(t) == target[t] \in Blocks /\ cur[t] \in Chain[target[t]] \ {Genesis}

Stopped(t) == t \in Threads /\ fQuit[t]

\* Nothing that the thread's checks depend on is different from when it began.
Unchanged(t) == tip = Parent[cur[t]] /\ seen[t] \subseteq {forkActive}

\* A thread that validates without cs_main and has not been stopped can tell from
\* the work of the tip alone whether anything has changed under it: the tip has
\* only grown.
Racing(t) ==
    /\ queue[t] \in Queues
    /\ start[t] = nChainWork[Parent[cur[t]]]
    /\ ~Stopped(t) => nChainWork[tip] > start[t] \/ (Unchanged(t) /\ pc[t] # "missing")

ThreadOK(t) ==
    /\ pc[t] \in {"none", "post"} \/ blk[t] \in Arriving \cup Mined
    /\ pc[t] \in Holding \/ Validating(t) => OnPath(t)
    /\ Validating(t) => Racing(t)
    /\ pc[t] = "disconnect" => tip \notin Chain[target[t]]
    /\ pc[t] = "commit" => Unchanged(t)
    /\ pc[t] = "next" => cur[t] = tip
    /\ result[t] # "inputs"

Invariant ==
    /\ TypeOK /\ Locks /\ Grants /\ QueueExclusive /\ MinerStops
    /\ \A t \in All : ThreadOK(t)
    /\ applied = Chain[tip]
    /\ NotBlamedForInputs

----------------------------------------------------------------------------
(* Names and numbers.                                                      *)

\* The miner is not one of the validation threads, and None is nobody.
LEMMA Names ==
  /\ Miner \notin Threads /\ Miner \in All /\ None \notin All
  /\ \A t \in Threads : t \in All /\ t # Miner
  /\ \A t \in All : t \in Threads \/ t = Miner
BY PVAssumption, Zenon DEF All

\* There are finitely many threads, and a natural number of them.
LEMMA ThreadCount ==
  /\ IsFiniteSet(Threads) /\ Cardinality(Threads) \in Nat
  /\ \A S \in SUBSET Threads :
        /\ IsFiniteSet(S) /\ Cardinality(S) \in Nat
        /\ Cardinality(S) <= Cardinality(Threads)
<1>1. IsFiniteSet(Threads)
  BY PVAssumption, Zenon
<1>2. Cardinality(Threads) \in Nat
  BY <1>1, FS_CardinalityType, Zenon
<1>3. ASSUME NEW S \in SUBSET Threads
      PROVE  /\ IsFiniteSet(S) /\ Cardinality(S) \in Nat
             /\ Cardinality(S) <= Cardinality(Threads)
  BY <1>1, FS_Subset, FS_CardinalityType, Zenon
<1> QED BY <1>1, <1>2, <1>3, Zenon

\* The blocks that arrive or are mined have parents.
LEMMA Incoming == Arriving \cup Mined \subseteq Blocks \ {Genesis}
BY PVAssumption, Zenon

----------------------------------------------------------------------------
(* Types, by what the variables are about.                                 *)

ThreadTypes ==
    /\ pc \in [All -> Labels]
    /\ blk \in [All -> Blocks \cup {None}]
    /\ cur \in [All -> Blocks \cup {None}]
    /\ target \in [All -> Blocks \cup {None}]
    /\ start \in [All -> Nat]
    /\ todo \in [All -> 0 .. NChecks]
    /\ seen \in [All -> SUBSET BOOLEAN]
    /\ ok \in [All -> BOOLEAN]
    /\ result \in [All -> {"none", "ok", "stop", "inputs", "scripts"}]

MapTypes ==
    /\ queue \in [All -> Queues \cup {0}]
    /\ hash \in [Threads -> Blocks \cup {None}]
    /\ fQuit \in [Threads -> BOOLEAN]
    /\ fIsValidating \in [Threads -> BOOLEAN]
    /\ nSeq \in [Threads -> Nat \cup {-1}]

IndexTypes ==
    /\ data \subseteq Blocks /\ failed \subseteq Blocks
    /\ blamed \in [Blocks -> {"not", "inputs", "scripts", "parent"}]
    /\ seq \in [Blocks -> Nat] /\ nextSeq \in Nat
    /\ cand \in Seq(Blocks)

OtherTypes ==
    /\ csMain \in All \cup {None}
    /\ handler \in Arriving \cup {None}
    /\ toCome \subseteq Arriving \cup Mined
    /\ late \subseteq Queues
    /\ tip \in Blocks /\ applied \subseteq Blocks
    /\ forkActive \in BOOLEAN /\ dead \in BOOLEAN

\* The groups make up the type invariant.
LEMMA TypeGroups ==
  /\ TypeOK <=> ThreadTypes /\ MapTypes /\ IndexTypes /\ OtherTypes /\ semPV \in 0 .. Cardinality(Threads)
  /\ TypeOK' <=> ThreadTypes' /\ MapTypes' /\ IndexTypes' /\ OtherTypes' /\ semPV' \in 0 .. Cardinality(Threads)
<1>1. TypeOK <=> ThreadTypes /\ MapTypes /\ IndexTypes /\ OtherTypes /\ semPV \in 0 .. Cardinality(Threads)
  BY Zenon DEF TypeOK, ThreadTypes, MapTypes, IndexTypes, OtherTypes
<1>2. TypeOK' <=> ThreadTypes' /\ MapTypes' /\ IndexTypes' /\ OtherTypes' /\ semPV' \in 0 .. Cardinality(Threads)
  BY Zenon DEF TypeOK, ThreadTypes, MapTypes, IndexTypes, OtherTypes
<1> QED BY <1>1, <1>2, Zenon

\* Groups none of whose variables change keep their types.
LEMMA TypesKept ==
  /\ ThreadTypes /\ UNCHANGED threadVars => ThreadTypes'
  /\ MapTypes /\ UNCHANGED mapVars => MapTypes'
  /\ IndexTypes /\ UNCHANGED indexVars => IndexTypes'
<1>1. ThreadTypes /\ UNCHANGED threadVars => ThreadTypes'
  BY Zenon DEF ThreadTypes, threadVars
<1>2. MapTypes /\ UNCHANGED mapVars => MapTypes'
  BY Zenon DEF MapTypes, mapVars
<1>3. IndexTypes /\ UNCHANGED indexVars => IndexTypes'
  BY Zenon DEF IndexTypes, indexVars
<1> QED BY <1>1, <1>2, <1>3, Zenon

----------------------------------------------------------------------------
(* What the operations compute.                                            *)

\* A queue that is handed out is free.
LEMMA FirstFreeIs ==
  ASSUME FreeQueues # {}
  PROVE  FirstFree \in FreeQueues /\ FirstFree \in Queues
<1>1. FreeQueues \in SUBSET Nat /\ FreeQueues \subseteq Queues
  BY ThreadCount DEF FreeQueues, Queues
<1>2. \E q \in FreeQueues : \A r \in FreeQueues : q <= r
  BY <1>1, LeastNat, Zenon
<1>3. FirstFree \in FreeQueues
  BY <1>2, Zenon DEF FirstFree
<1> QED BY <1>1, <1>3, Zenon

\* Storing a block keeps the index in order.
LEMMA StoreTypes ==
  ASSUME IndexTypes, NEW b \in Blocks, Store(b), failed' = failed, blamed' = blamed
  PROVE  IndexTypes'
<1>1. CASE Refused(b) \/ b \in data
  BY <1>1, Zenon DEF Store, IndexTypes
<1>2. CASE ~(Refused(b) \/ b \in data)
  <2>1. /\ data' = data \cup {b}
        /\ seq' = [seq EXCEPT ![b] = nextSeq]
        /\ nextSeq' = nextSeq + 1
        /\ cand' \in {cand, InsertCandidate(cand, b, seq')}
    BY <1>2, Zenon DEF Store
  <2>2. data' \subseteq Blocks /\ failed' \subseteq Blocks
    BY <2>1, Zenon DEF IndexTypes
  <2>3. blamed' \in [Blocks -> {"not", "inputs", "scripts", "parent"}]
    BY Zenon DEF IndexTypes
  <2>4. seq \in [Blocks -> Nat] /\ nextSeq \in Nat /\ cand \in Seq(Blocks)
    BY Zenon DEF IndexTypes
  <2>5. seq' \in [Blocks -> Nat] /\ nextSeq' \in Nat
    BY <2>1, <2>4
  <2>6. cand' \in Seq(Blocks)
    BY <2>1, <2>4, InsertType, Zenon
  <2> QED BY <2>2, <2>3, <2>5, <2>6, Zenon DEF IndexTypes
<1> QED BY <1>1, <1>2, Zenon

\* Looking for the best chain keeps the index in order, and blames no block for
\* its inputs.
LEMMA FindTypes ==
  ASSUME IndexTypes, FindEffects, UNCHANGED <<data, seq, nextSeq>>
  PROVE  IndexTypes' /\ (NotBlamedForInputs => NotBlamedForInputs')
<1> DEFINE Gone == GivenUp(cand, tip, failed)
<1>1. /\ cand' = Erased(cand, Gone)
      /\ failed' = failed \cup Gone
      /\ blamed' = [b \in Blocks |-> IF b \in failed' \ failed THEN "parent" ELSE blamed[b]]
  BY Zenon DEF FindEffects
<1>2. cand \in Seq(Blocks) /\ failed \subseteq Blocks
  BY Zenon DEF IndexTypes
<1>3. cand' \in Seq(Blocks) /\ failed' \subseteq Blocks
  <2>1. Gone \subseteq Blocks
    BY <1>2, GivenUpType, Zenon
  <2> HIDE DEF Gone
  <2>2. cand' \in Seq(Blocks)
    BY <1>1, <1>2, ErasedType, Zenon
  <2> QED BY <1>1, <1>2, <2>1, <2>2, Zenon
<1>4. blamed \in [Blocks -> {"not", "inputs", "scripts", "parent"}]
  BY Zenon DEF IndexTypes
<1> HIDE DEF Gone
<1>5. blamed' \in [Blocks -> {"not", "inputs", "scripts", "parent"}]
  BY <1>1, <1>4
<1>6. NotBlamedForInputs => NotBlamedForInputs'
  BY <1>1 DEF NotBlamedForInputs
<1>7. IndexTypes'
  BY <1>3, <1>5, Zenon DEF IndexTypes
<1> QED BY <1>6, <1>7, Zenon

\* Cleanup gives every block a number again.
LEMMA CleanupTypes ==
  ASSUME MapTypes, IndexTypes, NEW t \in All, cur[t] \in Blocks, Cleanup(t)
  PROVE  seq' \in [Blocks -> Nat]
<1> DEFINE R == {u \in Registered \ {t} :
                   /\ Parent[blk[u]] = Parent[cur[t]]
                   /\ nSeq[u] # -1 /\ nSeq[u] < seq[cur[t]]}
           ids == {nSeq[u] : u \in R} \cup {seq[cur[t]]}
           Low == CHOOSE k \in ids : \A l \in ids : k <= l
           Above(n) == CHOOSE k \in ids : k > n /\ \A l \in ids : l > n => k <= l
           who(b) == CHOOSE u \in R : hash[u] = b
<1>1. seq' = [b \in Blocks |-> IF b = cur[t] THEN Low
                               ELSE IF \E u \in R : hash[u] = b THEN Above(nSeq[who(b)])
                               ELSE seq[b]]
  BY DEF Cleanup
<1>2. nSeq \in [Threads -> Nat \cup {-1}] /\ seq \in [Blocks -> Nat]
  BY Zenon DEF MapTypes, IndexTypes
<1>3. seq[cur[t]] \in Nat /\ \A b \in Blocks : seq[b] \in Nat
  BY <1>2, Zenon
<1>4. \A u \in R : nSeq[u] \in Nat /\ nSeq[u] < seq[cur[t]]
  BY <1>2, Zenon DEF Registered
<1> HIDE DEF R
<1>5. ids \in SUBSET Nat /\ ids # {}
  BY <1>3, <1>4, Zenon
<1>6. \A u \in R : \E k \in ids : k > nSeq[u]
  BY <1>3, <1>4
<1> HIDE DEF ids
<1>7. Low \in Nat
  <2>1. \E k \in ids : \A l \in ids : k <= l
    BY <1>5, LeastNat, Zenon
  <2>2. Low \in ids
    BY <2>1, Zenon
  <2> QED BY <1>5, <2>2, Zenon
<1>8. ASSUME NEW n \in Nat, \E k \in ids : k > n PROVE Above(n) \in Nat
  <2> DEFINE S == {k \in ids : k > n}
  <2>1. S \in SUBSET Nat /\ S # {}
    BY <1>5, <1>8, Zenon
  <2>2. PICK k \in S : \A l \in S : k <= l
    <3> HIDE DEF S
    <3> QED BY <2>1, LeastNat, Zenon
  <2>3. \E m \in ids : m > n /\ \A l \in ids : l > n => m <= l
    BY <2>2, Zenon
  <2>4. Above(n) \in ids
    BY <2>3, Zenon
  <2> QED BY <1>5, <2>4, Zenon
<1>9. ASSUME NEW b \in Blocks, \E u \in R : hash[u] = b PROVE Above(nSeq[who(b)]) \in Nat
  <2>1. who(b) \in R
    BY <1>9, Zenon
  <2> HIDE DEF who, Above
  <2> QED BY <1>4, <1>6, <1>8, <2>1, Zenon
<1> HIDE DEF Low, Above, who
<1> QED BY <1>1, <1>3, <1>7, <1>9, Zenon

\* The block a thread goes for has more work than the tip.
LEMMA TargetIs ==
  ASSUME NEW t \in All, cand \in Seq(Blocks), seq \in [Blocks -> Nat], tip \in Blocks,
         blk[t] \in Arriving \cup Mined,
         ~ \A m \in Find : nChainWork[m] <= nChainWork[tip]
  PROVE  PickTarget(t) \in Blocks /\ nChainWork[tip] < nChainWork[PickTarget(t)]
<1>1. Find \subseteq Range(cand) /\ \A a, b \in Find : a = b
  BY FoundIs, Zenon DEF Find
<1>2. Range(cand) \subseteq Blocks
  BY DEF Range
<1>3. PICK m \in Find : ~(nChainWork[m] <= nChainWork[tip])
  BY Zenon
<1>4. Found = m
  BY <1>1, Zenon DEF Found
<1>5. m \in Blocks /\ nChainWork[tip] < nChainWork[m]
  BY <1>1, <1>2, <1>3, WorkIs
<1>6. LowestSequence(m) \in Blocks /\ nChainWork[LowestSequence(m)] = nChainWork[m]
  <2> DEFINE T == {c \in Range(cand) : nChainWork[c] = nChainWork[m] /\ seq[c] < seq[m]}
             ns == {seq[c] : c \in T}
  <2>1. LowestSequence(m) = IF T = {} THEN m ELSE CHOOSE c \in T : \A d \in T : seq[c] <= seq[d]
    BY Zenon DEF LowestSequence
  <2>2. \A c \in T : c \in Blocks /\ seq[c] \in Nat /\ nChainWork[c] = nChainWork[m]
    BY <1>2, Zenon
  <2> HIDE DEF T
  <2>3. CASE T # {}
    <3>1. ns \in SUBSET Nat /\ ns # {}
      BY <2>2, <2>3, Zenon
    <3>2. PICK n \in ns : \A k \in ns : n <= k
      <4> HIDE DEF ns
      <4> QED BY <3>1, LeastNat, Zenon
    <3>3. \E c \in T : \A d \in T : seq[c] <= seq[d]
      BY <3>2, Zenon
    <3>4. (CHOOSE c \in T : \A d \in T : seq[c] <= seq[d]) \in T
      BY <3>3, Zenon
    <3> QED BY <2>1, <2>2, <2>3, <3>4, Zenon
  <2> QED BY <1>5, <2>1, <2>3, Zenon
<1>7. Parent[blk[t]] = tip => blk[t] \in Blocks /\ nChainWork[tip] < nChainWork[blk[t]]
  BY Incoming, ParentIsLess, Zenon
<1>8. PickTarget(t) \in {blk[t], m, LowestSequence(m)} /\ (PickTarget(t) = blk[t] => Parent[blk[t]] = tip \/ PickTarget(t) \in {m, LowestSequence(m)})
  BY <1>4, Zenon DEF PickTarget
<1> QED BY <1>5, <1>6, <1>7, <1>8, Zenon

\* The next block on the way to m is on the chain of m.
LEMMA NextIs ==
  ASSUME NEW m \in Blocks, NEW h \in Nat, h < nHeight[m]
  PROVE  NextToConnect(m, h) \in Chain[m] \ {Genesis} /\ NextToConnect(m, h) \in Blocks
<1>1. h + 1 \in Nat /\ h + 1 <= nHeight[m] /\ h + 1 # 0
  BY HeightIs
<1>2. NextToConnect(m, h) \in Chain[m] /\ nHeight[NextToConnect(m, h)] = h + 1
  BY <1>1, AncestorIs, Zenon DEF NextToConnect
<1>3. NextToConnect(m, h) # Genesis
  BY <1>1, <1>2, HeightIs, Zenon
<1> QED BY <1>2, <1>3, ChainIs, Zenon

\* A block with more work than the tip is above its fork with the tip.
LEMMA ForkIsBelow ==
  ASSUME NEW b \in Blocks, NEW m \in Blocks, nChainWork[b] < nChainWork[m]
  PROVE  nHeight[FindFork(b, m)] \in Nat /\ nHeight[FindFork(b, m)] < nHeight[m]
<1> DEFINE f == FindFork(b, m)
<1>1. f \in Chain[b] /\ f \in Chain[m] /\ f \in Blocks
  BY ForkIs, ChainIs, Zenon
<1> HIDE DEF f
<1>2. nHeight[f] <= nHeight[m] /\ (nHeight[f] = nHeight[m] => f = m) /\ nChainWork[f] <= nChainWork[b]
  BY <1>1, ChainGrows, Zenon
<1>3. nHeight[f] \in Nat /\ nHeight[m] \in Nat /\ nChainWork[f] \in Nat /\ nChainWork[b] \in Nat /\ nChainWork[m] \in Nat
  BY <1>1, HeightIs, WorkIs, Zenon
<1>4. f # m
  BY <1>2, <1>3
<1>5. nHeight[f] < nHeight[m]
  BY <1>2, <1>3, <1>4
<1> QED BY <1>3, <1>5 DEF f

----------------------------------------------------------------------------
(* What one thread's step means for the others.                            *)

\* Nothing of u changes, except that it may be told to stop.
Same(u) ==
    /\ pc'[u] = pc[u] /\ blk'[u] = blk[u] /\ cur'[u] = cur[u] /\ target'[u] = target[u]
    /\ start'[u] = start[u] /\ seen'[u] = seen[u] /\ result'[u] = result[u]
    /\ queue'[u] = queue[u]
    /\ u \in Threads /\ fQuit[u] => fQuit'[u]

\* A step of t, or one taken for t: cs_main passes at most from t or to t.
Moves(t) ==
    /\ \A u \in All \ {t} : Same(u)
    /\ csMain' = csMain \/ (csMain \in {None, t} /\ csMain' \in {None, t})

\* What the invariant asks of the step for t itself.
Held(t) ==
    /\ t \in Threads => (pc'[t] \in Holding <=> csMain' = t)
    /\ t = Miner => (pc'[t] # "none" <=> csMain' = t)

Heeds(t) ==
    /\ t \in Threads /\ pc'[t] \notin Fresh =>
          csMain # Miner \/ (pc[t] \notin Fresh /\ (fQuit[t] => fQuit'[t]))
    /\ t = Miner => pc[t] # "none" \/ pc'[t] = "none"

Queued(t) ==
    Validating(t)' => \/ Validating(t) /\ queue'[t] = queue[t]
                      \/ \A u \in All \ {t} : Validating(u) => queue[u] # queue'[t]

\* Who holds cs_main is where its holder is.
LEMMA LocksKept ==
  ASSUME Locks, NEW t \in All, Moves(t), Held(t)
  PROVE  Locks'
<1>1. \A u \in All \ {t} : pc'[u] = pc[u] /\ (csMain' = u <=> csMain = u)
  BY Names, Zenon DEF Moves, Same
<1>2. ASSUME NEW u \in Threads PROVE pc'[u] \in Holding <=> csMain' = u
  BY <1>1, Names, Zenon DEF Locks, Held
<1>3. pc'[Miner] # "none" <=> csMain' = Miner
  BY <1>1, Names, Zenon DEF Locks, Held
<1> QED BY <1>2, <1>3, Zenon DEF Locks

\* A thread that the miner stopped stays stopped while the miner is at work.
LEMMA MinerStopsKept ==
  ASSUME MinerStops, Locks, NEW t \in All, Moves(t), Heeds(t)
  PROVE  MinerStops'
<1> SUFFICES ASSUME pc'[Miner] # "none", NEW u \in Threads, pc'[u] \notin Fresh
             PROVE  fQuit'[u]
  BY Zenon DEF MinerStops
<1>1. pc[Miner] # "none" /\ csMain = Miner
  BY Names, Zenon DEF Moves, Same, Heeds, Locks
<1>2. pc[u] \notin Fresh => fQuit[u]
  BY <1>1, Zenon DEF MinerStops
<1>3. CASE u # t
  BY <1>2, <1>3, Names, Zenon DEF Moves, Same
<1>4. CASE u = t
  BY <1>1, <1>2, <1>4, Zenon DEF Heeds
<1> QED BY <1>3, <1>4, Zenon

\* Threads that validate keep to their queues.
LEMMA QueuesKept ==
  ASSUME QueueExclusive, NEW t \in All, Moves(t), Queued(t)
  PROVE  QueueExclusive'
<1>1. \A u \in All \ {t} : (Validating(u)' <=> Validating(u)) /\ queue'[u] = queue[u]
  BY Zenon DEF Moves, Same, Validating
<1>2. ASSUME NEW u \in All, NEW v \in All, u # v, Validating(u)', Validating(v)'
      PROVE  queue'[u] # queue'[v]
  BY <1>1, <1>2, Zenon DEF QueueExclusive, Queued
<1> QED BY <1>2, Zenon DEF QueueExclusive

\* While the tip stays, a thread that does nothing is as it was.
LEMMA ThreadKept ==
  ASSUME NEW u \in All, ThreadOK(u), Same(u), tip' = tip, forkActive' = forkActive
  PROVE  ThreadOK(u)'
<1>1. (Validating(u)' <=> Validating(u)) /\ (OnPath(u)' <=> OnPath(u)) /\ (Unchanged(u)' <=> Unchanged(u))
  BY Zenon DEF Same, Validating, OnPath, Unchanged
<1>2. Racing(u) => Racing(u)'
  BY <1>1, Zenon DEF Same, Racing, Stopped
<1> QED BY <1>1, <1>2, Zenon DEF Same, ThreadOK

\* When the tip moves, a thread without cs_main can tell.
LEMMA ThreadRaced ==
  ASSUME NEW u \in All, ThreadOK(u), Same(u), pc[u] \notin Holding,
         Validating(u) /\ ~Stopped(u)' => nChainWork[tip'] > start[u]
  PROVE  ThreadOK(u)'
<1>1. (Validating(u)' <=> Validating(u)) /\ (OnPath(u)' <=> OnPath(u))
  BY Zenon DEF Same, Validating, OnPath
<1>2. Validating(u) => Racing(u)'
  BY Zenon DEF Same, Racing, ThreadOK
<1>3. pc'[u] \notin {"disconnect", "commit", "next"} /\ pc'[u] \notin Holding
  BY Zenon DEF Same, Holding
<1> QED BY <1>1, <1>2, <1>3, Zenon DEF Same, ThreadOK

\* A thread that neither validates nor holds cs_main has nothing to keep to.
LEMMA AtRest ==
  ASSUME NEW t \in All, pc'[t] \notin Holding, ~Validating(t)',
         pc'[t] \in {"none", "post"} \/ blk'[t] \in Arriving \cup Mined,
         result'[t] # "inputs"
  PROVE  ThreadOK(t)'
<1>1. pc'[t] \notin {"disconnect", "commit", "next"}
  BY Zenon DEF Holding
<1> QED BY <1>1, Zenon DEF ThreadOK

\* A step that leaves the active chain alone keeps the invariant, if it does for
\* the thread that takes it.
LEMMA StepKeeps ==
  ASSUME Invariant, NEW t \in All, Moves(t), TypeOK', Grants', Held(t), Queued(t),
         Heeds(t) \/ MinerStops', ThreadOK(t)', UNCHANGED <<tip, applied, forkActive>>, NotBlamedForInputs'
  PROVE  Invariant'
<1>1. Locks' /\ MinerStops' /\ QueueExclusive'
  BY LocksKept, MinerStopsKept, QueuesKept, Zenon DEF Invariant
<1>2. ASSUME NEW u \in All PROVE ThreadOK(u)'
  <2>1. CASE u = t
    BY <2>1, Zenon
  <2>2. CASE u # t
    BY <2>2, ThreadKept, Zenon DEF Invariant, Moves
  <2> QED BY <2>1, <2>2, Zenon
<1>3. applied' = Chain[tip']
  BY Zenon DEF Invariant
<1> QED BY <1>1, <1>2, <1>3, Zenon DEF Invariant

----------------------------------------------------------------------------
(* Grants.                                                                 *)

\* A grant that is handed out goes to a thread that has none.
LEMMA LaunchIs ==
  ASSUME Grants, pc \in [All -> Labels], NEW b, Launch(b)
  PROVE  \E t \in Idle :
            /\ pc' = [pc EXCEPT ![t] = "start"]
            /\ blk' = [blk EXCEPT ![t] = b]
            /\ UNCHANGED <<cur, target, start, todo, seen, ok, result>>
            /\ Grants' /\ semPV' \in 0 .. Cardinality(Threads)
<1> DEFINE t == CHOOSE u \in Threads : pc[u] = "none"
<1>1. /\ semPV > 0 /\ semPV' = semPV - 1
      /\ pc' = [pc EXCEPT ![t] = "start"]
      /\ blk' = [blk EXCEPT ![t] = b]
      /\ UNCHANGED <<cur, target, start, todo, seen, ok, result>>
  BY Zenon DEF Launch
<1>2. Idle \in SUBSET Threads /\ Idle' \in SUBSET Threads
  BY Zenon DEF Idle
<1>3. Idle # {}
  <2>1. Idle = {} => semPV = 0
    BY FS_EmptySet, Zenon DEF Grants
  <2> QED BY <1>1, <2>1
<1>4. t \in Threads /\ pc[t] = "none" /\ t \in Idle
  BY <1>3, Zenon DEF Idle
<1> HIDE DEF t
<1>5. Idle' = Idle \ {t}
  BY <1>1, <1>4, Names DEF Idle
<1>6. Cardinality(Idle') = Cardinality(Idle) - 1
  BY <1>2, <1>4, <1>5, ThreadCount, FS_RemoveElement, Zenon
<1>7. Grants'
  BY <1>1, <1>6, Zenon DEF Grants
<1>8. semPV' \in 0 .. Cardinality(Threads)
  BY <1>2, <1>7, ThreadCount DEF Grants
<1> QED BY <1>1, <1>4, <1>7, <1>8, Zenon

\* A grant that comes back comes from a thread that had one.
LEMMA PostIs ==
  ASSUME Grants, pc \in [All -> Labels], NEW t \in Threads, Post(t)
  PROVE  Grants' /\ semPV' \in 0 .. Cardinality(Threads)
<1>1. pc[t] = "post" /\ semPV' = semPV + 1 /\ pc' = [pc EXCEPT ![t] = "none"]
  BY Zenon DEF Post, At, Goto
<1>2. Idle \in SUBSET Threads /\ Idle' \in SUBSET Threads /\ t \notin Idle
  BY <1>1 DEF Idle
<1>3. Idle' = Idle \cup {t}
  BY <1>1, Names DEF Idle
<1>4. Cardinality(Idle') = Cardinality(Idle) + 1
  BY <1>2, <1>3, ThreadCount, FS_AddElement, Zenon
<1>5. Grants'
  BY <1>1, <1>4, Zenon DEF Grants
<1> QED BY <1>2, <1>5, ThreadCount DEF Grants

\* Nothing else touches the grants.
LEMMA GrantsKept ==
  ASSUME Grants, semPV \in 0 .. Cardinality(Threads), semPV' = semPV, NEW t \in All,
         \A u \in All \ {t} : pc'[u] = pc[u],
         t \in Threads => (pc[t] = "none" <=> pc'[t] = "none")
  PROVE  Grants' /\ semPV' \in 0 .. Cardinality(Threads)
<1>1. Idle' = Idle
  BY Names, Zenon DEF Idle
<1> QED BY <1>1, Zenon DEF Grants

----------------------------------------------------------------------------
(* ConnectBlock without cs_main.                                           *)

\* What the invariant says of types.
LEMMA Typed ==
  ASSUME Invariant
  PROVE  ThreadTypes /\ MapTypes /\ IndexTypes /\ OtherTypes /\ semPV \in 0 .. Cardinality(Threads)
BY TypeGroups, Zenon DEF Invariant

\* Going somewhere is a step of one thread.
LEMMA GotoIs ==
  ASSUME pc \in [All -> Labels], NEW t \in All, NEW label \in Labels, Goto(t, label)
  PROVE  pc' \in [All -> Labels] /\ pc'[t] = label /\ \A u \in All \ {t} : pc'[u] = pc[u]
BY DEF Goto

\* A step of a thread from one part of its validation to another.
LEMMA LocalStep ==
  ASSUME Invariant, NEW t \in All, Validating(t), Validating(t)',
         UNCHANGED <<csMain, handler, semPV, toCome, blk, cur, target, start, mapVars, late,
                     indexVars, chainVars, dead>>,
         ThreadTypes', ThreadOK(t)',
         \A u \in All \ {t} : pc'[u] = pc[u] /\ seen'[u] = seen[u] /\ result'[u] = result[u]
  PROVE  Invariant'
<1>1. Moves(t)
  BY Zenon DEF Moves, Same, mapVars
<1>2. pc[t] \notin Holding /\ pc'[t] \notin Holding /\ pc[t] \notin Fresh
      /\ pc[t] # "none" /\ pc'[t] # "none"
  BY DEF Validating, Holding, Fresh
<1>3. Held(t)
  BY <1>2, Names, Zenon DEF Held, Invariant, Locks
<1>4. Heeds(t) /\ Queued(t)
  BY <1>2, Zenon DEF Heeds, Queued, mapVars
<1>5. Grants' /\ semPV' \in 0 .. Cardinality(Threads)
  BY <1>2, Typed, GrantsKept, Zenon DEF Invariant
<1>6. MapTypes' /\ IndexTypes'
  BY Typed, TypesKept, Zenon
<1>7. OtherTypes'
  BY Typed, Zenon DEF OtherTypes, chainVars
<1>8. TypeOK'
  BY <1>5, <1>6, <1>7, TypeGroups, Zenon
<1>9. UNCHANGED <<tip, applied, forkActive>> /\ NotBlamedForInputs'
  BY Zenon DEF chainVars, indexVars, NotBlamedForInputs, Invariant
<1> QED BY <1>1, <1>3, <1>4, <1>5, <1>8, <1>9, StepKeeps, Zenon

\* A thread in validation sees a stop that it was sent.
LEMMA QuitSeen ==
  ASSUME NEW t \in All, Validating(t)
  PROVE  QuitReceived(t) <=> Stopped(t)
<1>1. pc[t] \notin {"none", "start", "post"}
  BY DEF Validating
<1> QED BY <1>1, Zenon DEF QuitReceived, Stopped, InMap

\* Inputs are missing only if the tip has moved.
LEMMA InputsMissingKeeps ==
  ASSUME Invariant, NEW t \in All, InputsMissing(t)
  PROVE  Invariant'
<1>1. /\ pc[t] = "inputs" /\ applied # Chain[Parent[cur[t]]] /\ Goto(t, "missing")
      /\ UNCHANGED <<blk, cur, target, start, todo, seen, ok, result>>
      /\ UNCHANGED <<csMain, handler, semPV, toCome, blk, cur, target, start, mapVars, late,
                     indexVars, chainVars, dead>>
  BY Zenon DEF InputsMissing, At
<1>2. pc \in [All -> Labels] /\ ThreadTypes /\ "missing" \in Labels
  BY Typed, Zenon DEF ThreadTypes, Labels
<1>3. pc' \in [All -> Labels] /\ pc'[t] = "missing" /\ \A u \in All \ {t} : pc'[u] = pc[u]
  BY <1>1, <1>2, GotoIs, Zenon
<1>4. ThreadTypes'
  BY <1>1, <1>2, <1>3, Zenon DEF ThreadTypes
<1>5. Validating(t) /\ Validating(t)'
  BY <1>1, <1>3, Zenon DEF Validating
<1>6. /\ UNCHANGED <<queue, fQuit, tip, applied, forkActive>>
      /\ pc'[t] \notin {"disconnect", "commit", "next", "none", "post"}
  BY <1>1, <1>3, Zenon DEF mapVars, chainVars
<1>7. ThreadOK(t) /\ OnPath(t) /\ Racing(t) /\ applied = Chain[tip]
  BY <1>5, Zenon DEF Invariant, ThreadOK
<1>8. blk[t] \in Arriving \cup Mined
  BY <1>1, <1>7, Zenon DEF ThreadOK
<1>9. Racing(t)'
  BY <1>1, <1>6, <1>7, Zenon DEF Racing, Stopped, Unchanged
<1>10. ThreadOK(t)'
  BY <1>1, <1>6, <1>7, <1>8, <1>9, Zenon DEF ThreadOK, OnPath
<1> QED BY <1>1, <1>3, <1>4, <1>5, <1>10, LocalStep, Zenon

\* The steps that end in a verdict, or go on to the scripts.
LEMMA VerdictKeeps ==
  ASSUME Invariant, NEW t \in All, pc[t] \in {"inputs", "missing", "checks"},
         NEW label \in {"checks", "relock"}, Goto(t, label),
         NEW v \in {"none", "ok", "stop", "scripts"}, result' = [result EXCEPT ![t] = v],
         UNCHANGED <<todo, seen, ok>>,
         UNCHANGED <<csMain, handler, semPV, toCome, blk, cur, target, start, mapVars, late,
                     indexVars, chainVars, dead>>
  PROVE  Invariant'
<1>1. pc \in [All -> Labels] /\ ThreadTypes /\ label \in Labels
  BY Typed, Zenon DEF ThreadTypes, Labels
<1>2. pc' \in [All -> Labels] /\ pc'[t] = label /\ \A u \in All \ {t} : pc'[u] = pc[u]
  BY <1>1, GotoIs, Zenon
<1>3. /\ result' \in [All -> {"none", "ok", "stop", "inputs", "scripts"}]
      /\ result'[t] # "inputs" /\ \A u \in All \ {t} : result'[u] = result[u]
  <2>1. result \in [All -> {"none", "ok", "stop", "inputs", "scripts"}]
    BY <1>1, Zenon DEF ThreadTypes
  <2> QED BY <2>1
<1>4. ThreadTypes'
  BY <1>1, <1>2, <1>3, Zenon DEF ThreadTypes
<1>5. Validating(t) /\ Validating(t)'
  BY <1>2, Zenon DEF Validating
<1>6. /\ UNCHANGED <<queue, fQuit, tip, applied, forkActive>>
      /\ pc'[t] \notin {"disconnect", "commit", "next", "none", "post", "missing"}
      /\ pc[t] \notin {"none", "post"}
  BY <1>2, Zenon DEF mapVars, chainVars
<1>7. ThreadOK(t) /\ OnPath(t) /\ Racing(t)
  BY <1>5, Zenon DEF Invariant, ThreadOK
<1>8. blk[t] \in Arriving \cup Mined
  BY <1>6, <1>7, Zenon DEF ThreadOK
<1>9. Racing(t)'
  BY <1>6, <1>7, Zenon DEF Racing, Stopped, Unchanged
<1>10. ThreadOK(t)'
  BY <1>3, <1>6, <1>7, <1>8, <1>9, Zenon DEF ThreadOK, OnPath
<1> QED BY <1>2, <1>3, <1>4, <1>5, <1>10, LocalStep, Zenon

\* Going on to the scripts, or stopping there.
LEMMA InputsFoundKeeps ==
  ASSUME Invariant, NEW t \in All, InputsFound(t)
  PROVE  Invariant'
<1>1. /\ pc[t] = "inputs"
      /\ UNCHANGED <<todo, seen, ok>>
      /\ UNCHANGED <<csMain, handler, semPV, toCome, blk, cur, target, start, mapVars, late,
                     indexVars, chainVars, dead>>
      /\ \/ Goto(t, "relock") /\ result' = [result EXCEPT ![t] = "stop"]
         \/ Goto(t, "checks") /\ UNCHANGED result
  BY Zenon DEF InputsFound, At
<1>2. result \in [All -> {"none", "ok", "stop", "inputs", "scripts"}]
  BY Typed, Zenon DEF ThreadTypes
<1>3. result[t] # "inputs"
  BY Zenon DEF Invariant, ThreadOK
<1>4. result = [result EXCEPT ![t] = result[t]] /\ result[t] \in {"none", "ok", "stop", "scripts"}
  BY <1>2, <1>3
<1>5. CASE Goto(t, "relock") /\ result' = [result EXCEPT ![t] = "stop"]
  BY <1>1, <1>5, VerdictKeeps, Zenon
<1>6. CASE Goto(t, "checks") /\ UNCHANGED result
  <2>1. result' = [result EXCEPT ![t] = result[t]]
    BY <1>4, <1>6, Zenon
  <2> QED BY <1>1, <1>4, <1>6, <2>1, VerdictKeeps, Zenon
<1> QED BY <1>1, <1>5, <1>6, Zenon

\* A block whose inputs are missing is not blamed: the tip it is to extend has
\* moved on, and ChainWorkHasChanged sees it.
LEMMA MissingKeeps ==
  ASSUME Invariant, NEW t \in All, Missing(t)
  PROVE  Invariant'
<1>1. /\ pc[t] = "missing" /\ Goto(t, "relock")
      /\ result' = [result EXCEPT ![t] = MissingVerdict(t)]
      /\ UNCHANGED <<todo, seen, ok>>
      /\ UNCHANGED <<csMain, handler, semPV, toCome, blk, cur, target, start, mapVars, late,
                     indexVars, chainVars, dead>>
  BY Zenon DEF Missing, At
<1>2. Validating(t)
  BY <1>1, Zenon DEF Validating
<1>3. Racing(t)
  BY <1>2, Zenon DEF Invariant, ThreadOK
<1>4. start \in [All -> Nat] /\ tip \in Blocks
  BY Typed, Zenon DEF ThreadTypes, OtherTypes
<1>5. ~Stopped(t) => nChainWork[tip] # start[t]
  <2>1. ~Stopped(t) => nChainWork[tip] > start[t]
    BY <1>1, <1>3, Zenon DEF Racing
  <2>2. nChainWork[tip] \in Nat /\ start[t] \in Nat
    BY <1>4, WorkIs, Zenon
  <2> QED BY <2>1, <2>2
<1>6. MissingVerdict(t) = "stop"
  BY <1>2, <1>5, QuitSeen, Zenon DEF MissingVerdict, ChainWorkHasChanged
<1> QED BY <1>1, <1>6, VerdictKeeps, Zenon

\* The verdict of the script checks is never that inputs are missing.
LEMMA WaitKeeps ==
  ASSUME Invariant, NEW t \in All, Wait(t)
  PROVE  Invariant'
<1>1. /\ pc[t] = "checks" /\ Goto(t, "relock")
      /\ result' = [result EXCEPT ![t] = WaitVerdict(t)]
      /\ UNCHANGED <<todo, seen, ok>>
      /\ UNCHANGED <<csMain, handler, semPV, toCome, blk, cur, target, start, mapVars, late,
                     indexVars, chainVars, dead>>
  BY Zenon DEF Wait, At
<1>2. WaitVerdict(t) \in {"none", "ok", "stop", "scripts"}
  BY Zenon DEF WaitVerdict
<1> QED BY <1>1, <1>2, VerdictKeeps, Zenon

\* While the tip is where it was, the flag the checks read is the one in force.
LEMMA RunCheckKeeps ==
  ASSUME Invariant, NEW t \in All, RunCheck(t)
  PROVE  Invariant'
<1>1. /\ pc[t] = "checks" /\ todo[t] > 0
      /\ todo' = [todo EXCEPT ![t] = todo[t] - 1]
      /\ ok' = [ok EXCEPT ![t] = ok[t] /\ CheckSig(cur[t], forkActive)]
      /\ seen' = [seen EXCEPT ![t] = seen[t] \cup {forkActive}]
      /\ UNCHANGED <<pc, result>>
      /\ UNCHANGED <<csMain, handler, semPV, toCome, blk, cur, target, start, mapVars, late,
                     indexVars, chainVars, dead>>
  BY Zenon DEF RunCheck, At
<1>2. /\ ThreadTypes /\ todo \in [All -> 0 .. NChecks] /\ seen \in [All -> SUBSET BOOLEAN]
      /\ ok \in [All -> BOOLEAN] /\ forkActive \in BOOLEAN /\ NChecks \in Nat
  BY Typed, PVAssumption, Zenon DEF ThreadTypes, OtherTypes
<1>3. todo' \in [All -> 0 .. NChecks]
  BY <1>1, <1>2
<1>4. ok' \in [All -> BOOLEAN]
  <2>1. (ok[t] /\ CheckSig(cur[t], forkActive)) \in BOOLEAN
    BY Zenon
  <2> QED BY <1>1, <1>2, <2>1
<1>5. /\ seen' \in [All -> SUBSET BOOLEAN] /\ seen'[t] = seen[t] \cup {forkActive}
      /\ \A u \in All \ {t} : seen'[u] = seen[u]
  BY <1>1, <1>2
<1>6. ThreadTypes'
  BY <1>1, <1>2, <1>3, <1>4, <1>5, Zenon DEF ThreadTypes
<1>7. Validating(t) /\ Validating(t)'
  BY <1>1, Zenon DEF Validating
<1>8. /\ UNCHANGED <<queue, fQuit, tip, applied, forkActive>>
      /\ pc'[t] \notin {"disconnect", "commit", "next", "none", "post", "missing"}
  BY <1>1, Zenon DEF mapVars, chainVars
<1>9. ThreadOK(t) /\ OnPath(t) /\ Racing(t)
  BY <1>7, Zenon DEF Invariant, ThreadOK
<1>10. Racing(t)'
  BY <1>1, <1>5, <1>8, <1>9, Zenon DEF Racing, Stopped, Unchanged
<1>11. ThreadOK(t)'
  BY <1>1, <1>8, <1>9, <1>10, Zenon DEF ThreadOK, OnPath
<1> QED BY <1>1, <1>5, <1>6, <1>7, <1>11, LocalStep, Zenon

----------------------------------------------------------------------------
(* The message thread, and workers that come to rest.                      *)

\* A step of no thread, that may tell threads to stop.
LEMMA QuietKeeps ==
  ASSUME Invariant, UNCHANGED <<threadVars, semPV, indexVars, chainVars>>,
         UNCHANGED <<csMain, queue, hash, fIsValidating, nSeq>>,
         fQuit' \in [Threads -> BOOLEAN], \A u \in Threads : fQuit[u] => fQuit'[u], OtherTypes'
  PROVE  Invariant'
<1>1. \A u \in All : Same(u)
  BY Zenon DEF Same, threadVars
<1>2. Moves(Miner) /\ UNCHANGED <<pc, queue, tip, applied, forkActive>>
  BY <1>1, Zenon DEF Moves, threadVars, chainVars
<1>3. Held(Miner) /\ Heeds(Miner) /\ Queued(Miner)
  BY <1>2, Names, Zenon DEF Held, Heeds, Queued, Validating, Invariant, Locks
<1>4. ThreadOK(Miner)'
  BY <1>1, <1>2, Names, ThreadKept, Zenon DEF Invariant
<1>5. ThreadTypes' /\ IndexTypes'
  BY Typed, TypesKept, Zenon
<1>6. MapTypes'
  BY Typed, Zenon DEF MapTypes
<1>7. Grants' /\ semPV' \in 0 .. Cardinality(Threads)
  BY <1>2, Names, Typed, GrantsKept, Zenon DEF Invariant
<1>8. TypeOK'
  BY <1>5, <1>6, <1>7, TypeGroups, Zenon
<1>9. NotBlamedForInputs'
  BY Zenon DEF indexVars, NotBlamedForInputs, Invariant
<1> QED BY <1>2, <1>3, <1>4, <1>7, <1>8, <1>9, Names, StepKeeps, Zenon

\* A block that is given to a thread.
LEMMA LaunchKeeps ==
  ASSUME Invariant, NEW b \in Arriving, Launch(b),
         UNCHANGED <<csMain, mapVars, late, indexVars, chainVars, dead>>,
         handler' \in Arriving \cup {None}, toCome' \subseteq toCome
  PROVE  Invariant'
<1>1. ThreadTypes /\ pc \in [All -> Labels] /\ blk \in [All -> Blocks \cup {None}]
  BY Typed, Zenon DEF ThreadTypes
<1>2. PICK t \in Idle :
        /\ pc' = [pc EXCEPT ![t] = "start"]
        /\ blk' = [blk EXCEPT ![t] = b]
        /\ UNCHANGED <<cur, target, start, todo, seen, ok, result>>
        /\ Grants' /\ semPV' \in 0 .. Cardinality(Threads)
  BY <1>1, LaunchIs, Zenon DEF Invariant
<1>3. t \in Threads /\ pc[t] = "none" /\ t \in All /\ t # Miner
  BY <1>2, Names, Zenon DEF Idle
<1>4. /\ pc' \in [All -> Labels] /\ pc'[t] = "start"
      /\ \A u \in All \ {t} : pc'[u] = pc[u]
  BY <1>1, <1>2, <1>3 DEF Labels
<1>5. b \in Blocks
  BY Incoming, Zenon
<1>6. /\ blk' \in [All -> Blocks \cup {None}] /\ blk'[t] = b
      /\ \A u \in All \ {t} : blk'[u] = blk[u]
  BY <1>1, <1>2, <1>3, <1>5
<1>7. Moves(t)
  BY <1>2, <1>4, <1>6, Zenon DEF Moves, Same, mapVars
<1>8. pc'[t] \notin Holding /\ pc[t] \notin Holding /\ ~Validating(t)' /\ pc'[t] \in Fresh
  BY <1>3, <1>4, Zenon DEF Holding, Validating, Fresh
<1>9. Held(t) /\ Heeds(t) /\ Queued(t)
  BY <1>3, <1>8, Zenon DEF Held, Heeds, Queued, Invariant, Locks
<1>10. ThreadOK(t)'
  <2>1. result'[t] # "inputs"
    BY <1>2, <1>3, Zenon DEF Invariant, ThreadOK
  <2> QED BY <1>3, <1>6, <1>8, <2>1, AtRest, Zenon
<1>11. TypeOK'
  <2>1. ThreadTypes'
    BY <1>1, <1>2, <1>4, <1>6, Zenon DEF ThreadTypes
  <2>2. MapTypes' /\ IndexTypes'
    BY Typed, TypesKept, Zenon
  <2>3. OtherTypes'
    BY Typed, Zenon DEF OtherTypes, chainVars
  <2> QED BY <1>2, <2>1, <2>2, <2>3, TypeGroups, Zenon
<1>12. UNCHANGED <<tip, applied, forkActive>> /\ NotBlamedForInputs'
  BY Zenon DEF chainVars, indexVars, NotBlamedForInputs, Invariant
<1> QED BY <1>2, <1>3, <1>7, <1>9, <1>10, <1>11, <1>12, StepKeeps, Zenon

\* A block arrives, and is handed over or dropped or made to wait.
LEMMA MessagesKeep ==
  ASSUME Invariant, NEW b \in Blocks,
         \/ BlockMessage(b) \/ BlockMessageRejected(b) \/ BlockMessagePreempts(b)
         \/ \E synced \in BOOLEAN : BlockMessageWaits(b, synced)
  PROVE  Invariant'
<1>1. OtherTypes /\ fQuit \in [Threads -> BOOLEAN] /\ b \in Arriving
  BY Typed, Zenon DEF MapTypes, BlockMessage, BlockMessageRejected, BlockMessagePreempts,
                      BlockMessageWaits, CanArrive
<1>2. CASE BlockMessage(b)
  <2>1. /\ Launch(b) /\ toCome' \subseteq toCome /\ handler' = handler
        /\ UNCHANGED <<csMain, mapVars, late, indexVars, chainVars, dead>>
    BY <1>2, Zenon DEF BlockMessage
  <2>2. handler' \in Arriving \cup {None}
    BY <1>1, <2>1, Zenon DEF OtherTypes
  <2> QED BY <1>1, <2>1, <2>2, LaunchKeeps, Zenon
<1>3. CASE BlockMessageRejected(b)
  <2>1. OtherTypes'
    BY <1>1, <1>3, Zenon DEF BlockMessageRejected, OtherTypes, chainVars
  <2> QED BY <1>1, <1>3, <2>1, QuietKeeps, Zenon DEF BlockMessageRejected, mapVars
<1>4. CASE \E synced \in BOOLEAN : BlockMessageWaits(b, synced)
  <2>1. OtherTypes'
    BY <1>1, <1>4, Zenon DEF BlockMessageWaits, OtherTypes, chainVars
  <2> QED BY <1>1, <1>4, <2>1, QuietKeeps, Zenon DEF BlockMessageWaits, mapVars
<1>5. CASE BlockMessagePreempts(b)
  <2>1. /\ toCome' \subseteq toCome /\ handler' \in {b, handler} /\ dead' \in {TRUE, dead}
        /\ fQuit' \in {fQuit, Quitting({Largest(b)})}
        /\ UNCHANGED <<threadVars, semPV, indexVars, chainVars>>
        /\ UNCHANGED <<csMain, queue, hash, fIsValidating, nSeq>> /\ UNCHANGED late
    BY <1>5, Zenon DEF BlockMessagePreempts
  <2>2. OtherTypes'
    BY <1>1, <2>1, Zenon DEF OtherTypes, chainVars
  <2>3. fQuit' \in [Threads -> BOOLEAN] /\ \A u \in Threads : fQuit[u] => fQuit'[u]
    BY <1>1, <2>1, Zenon DEF Quitting
  <2> QED BY <2>1, <2>2, <2>3, QuietKeeps, Zenon
<1> QED BY <1>2, <1>3, <1>4, <1>5, Zenon

\* The block that waited is handed over.
LEMMA GrantHandlerKeeps ==
  ASSUME Invariant, GrantHandler
  PROVE  Invariant'
<1>1. /\ handler # None /\ Launch(handler) /\ handler' = None /\ toCome' \subseteq toCome
      /\ UNCHANGED <<csMain, mapVars, late, indexVars, chainVars, dead>>
  BY Zenon DEF GrantHandler
<1>2. handler \in Arriving
  BY <1>1, Typed, Zenon DEF OtherTypes
<1> QED BY <1>1, <1>2, LaunchKeeps, Zenon

\* Workers come to rest.
LEMMA WorkersRestKeeps ==
  ASSUME Invariant, NEW q \in Queues, WorkersRest(q)
  PROVE  Invariant'
<1>1. OtherTypes /\ fQuit \in [Threads -> BOOLEAN]
  BY Typed, Zenon DEF MapTypes
<1>2. OtherTypes'
  BY <1>1, Zenon DEF WorkersRest, OtherTypes, chainVars
<1> QED BY <1>1, <1>2, QuietKeeps, Zenon DEF WorkersRest, mapVars

----------------------------------------------------------------------------
(* A thread begins and ends.                                               *)

\* InitThread makes the thread's entry.
LEMMA InitThreadKeeps ==
  ASSUME Invariant, NEW t \in All, InitThread(t)
  PROVE  Invariant'
<1>1. /\ t \in Threads /\ pc[t] = "start" /\ Goto(t, "accept")
      /\ queue' = [queue EXCEPT ![t] = 0]
      /\ hash' = [hash EXCEPT ![t] = blk[t]]
      /\ fQuit' = [fQuit EXCEPT ![t] = FALSE]
      /\ fIsValidating' = [fIsValidating EXCEPT ![t] = FALSE]
      /\ nSeq' = [nSeq EXCEPT ![t] = -1]
      /\ UNCHANGED <<csMain, handler, semPV, toCome, blk, cur, target, start, todo, seen, ok,
                     result, late, indexVars, chainVars, dead>>
  BY Zenon DEF InitThread, At
<1>2. /\ ThreadTypes /\ pc \in [All -> Labels] /\ blk \in [All -> Blocks \cup {None}]
      /\ queue \in [All -> Queues \cup {0}] /\ hash \in [Threads -> Blocks \cup {None}]
      /\ fQuit \in [Threads -> BOOLEAN] /\ fIsValidating \in [Threads -> BOOLEAN]
      /\ nSeq \in [Threads -> Nat \cup {-1}] /\ "accept" \in Labels
  BY Typed, Zenon DEF ThreadTypes, MapTypes, Labels
<1>3. pc' \in [All -> Labels] /\ pc'[t] = "accept" /\ \A u \in All \ {t} : pc'[u] = pc[u]
  BY <1>1, <1>2, GotoIs, Zenon
<1>4. /\ queue' \in [All -> Queues \cup {0}] /\ fQuit' \in [Threads -> BOOLEAN]
      /\ \A u \in All \ {t} : queue'[u] = queue[u]
      /\ \A u \in Threads \ {t} : fQuit'[u] = fQuit[u]
  BY <1>1, <1>2
<1>5. MapTypes'
  <2>1. hash' \in [Threads -> Blocks \cup {None}] /\ fIsValidating' \in [Threads -> BOOLEAN]
    BY <1>1, <1>2
  <2>2. nSeq' \in [Threads -> Nat \cup {-1}]
    BY <1>1, <1>2
  <2> QED BY <1>4, <2>1, <2>2, Zenon DEF MapTypes
<1>6. Moves(t)
  BY <1>1, <1>3, <1>4, Zenon DEF Moves, Same
<1>7. pc'[t] \notin Holding /\ pc[t] \notin Holding /\ ~Validating(t)' /\ pc'[t] \in Fresh
      /\ pc[t] # "none" /\ pc'[t] # "none" /\ pc[t] \notin {"none", "post"}
  BY <1>1, <1>3, Zenon DEF Holding, Validating, Fresh
<1>8. Held(t) /\ Heeds(t) /\ Queued(t)
  BY <1>1, <1>7, Names, Zenon DEF Held, Heeds, Queued, Invariant, Locks
<1>9. ThreadOK(t)'
  <2>1. result'[t] # "inputs" /\ blk'[t] \in Arriving \cup Mined
    BY <1>1, <1>7, Zenon DEF Invariant, ThreadOK
  <2> QED BY <1>7, <2>1, AtRest, Zenon
<1>10. Grants' /\ semPV' \in 0 .. Cardinality(Threads)
  BY <1>1, <1>3, <1>7, Typed, GrantsKept, Zenon DEF Invariant
<1>11. TypeOK'
  <2>1. ThreadTypes'
    BY <1>1, <1>2, <1>3, Zenon DEF ThreadTypes
  <2>2. IndexTypes'
    BY <1>1, Typed, TypesKept, Zenon
  <2>3. OtherTypes'
    BY <1>1, Typed, Zenon DEF OtherTypes, chainVars
  <2> QED BY <1>5, <1>10, <2>1, <2>2, <2>3, TypeGroups, Zenon
<1>12. UNCHANGED <<tip, applied, forkActive>> /\ NotBlamedForInputs'
  BY <1>1, Zenon DEF chainVars, indexVars, NotBlamedForInputs, Invariant
<1> QED BY <1>6, <1>8, <1>9, <1>10, <1>11, <1>12, StepKeeps, Zenon

\* AcceptBlock stores the block, and no miner is at work.
LEMMA AcceptBlockKeeps ==
  ASSUME Invariant, NEW t \in All, AcceptBlock(t)
  PROVE  Invariant'
<1>1. /\ t \in Threads /\ pc[t] = "accept" /\ csMain = None /\ Store(blk[t])
      /\ UNCHANGED <<csMain, handler, semPV, toCome, blk, cur, target, start, todo, seen, ok,
                     result, mapVars, late, failed, blamed, chainVars, dead>>
  BY Zenon DEF AcceptBlock, At
<1>2. PICK label \in {"erase", "activate"} : Goto(t, label)
  BY Zenon DEF AcceptBlock
<1>3. ThreadTypes /\ pc \in [All -> Labels] /\ label \in Labels
  BY Typed, Zenon DEF ThreadTypes, Labels
<1>4. pc' \in [All -> Labels] /\ pc'[t] = label /\ \A u \in All \ {t} : pc'[u] = pc[u]
  BY <1>2, <1>3, GotoIs, Zenon
<1>5. Moves(t)
  BY <1>1, <1>4, Zenon DEF Moves, Same, mapVars
<1>6. pc'[t] \notin Holding /\ pc[t] \notin Holding /\ ~Validating(t)'
      /\ pc[t] # "none" /\ pc'[t] # "none" /\ pc[t] \notin {"none", "post"}
  BY <1>1, <1>4, Zenon DEF Holding, Validating
<1>7. Held(t) /\ Heeds(t) /\ Queued(t)
  BY <1>1, <1>6, Names, Zenon DEF Held, Heeds, Queued
<1>8. blk[t] \in Arriving \cup Mined /\ blk[t] \in Blocks
  BY <1>6, Incoming, Zenon DEF Invariant, ThreadOK
<1>9. ThreadOK(t)'
  <2>1. result'[t] # "inputs" /\ blk'[t] \in Arriving \cup Mined
    BY <1>1, <1>8, Zenon DEF Invariant, ThreadOK
  <2> QED BY <1>6, <2>1, AtRest, Zenon
<1>10. Grants' /\ semPV' \in 0 .. Cardinality(Threads)
  BY <1>1, <1>4, <1>6, Typed, GrantsKept, Zenon DEF Invariant
<1>11. TypeOK'
  <2>1. ThreadTypes'
    BY <1>1, <1>3, <1>4, Zenon DEF ThreadTypes
  <2>2. MapTypes' /\ IndexTypes'
    BY <1>1, <1>8, Typed, TypesKept, StoreTypes, Zenon
  <2>3. OtherTypes'
    BY <1>1, Typed, Zenon DEF OtherTypes, chainVars
  <2> QED BY <1>10, <2>1, <2>2, <2>3, TypeGroups, Zenon
<1>12. UNCHANGED <<tip, applied, forkActive>> /\ NotBlamedForInputs'
  BY <1>1, Zenon DEF chainVars, NotBlamedForInputs, Invariant
<1> QED BY <1>5, <1>7, <1>9, <1>10, <1>11, <1>12, StepKeeps, Zenon

\* Erase clears what the thread had.
LEMMA EraseKeeps ==
  ASSUME Invariant, NEW t \in All, Erase(t)
  PROVE  Invariant'
<1>1. /\ pc[t] = "erase"
      /\ blk' = [blk EXCEPT ![t] = None]
      /\ cur' = [cur EXCEPT ![t] = None]
      /\ target' = [target EXCEPT ![t] = None]
      /\ start' = [start EXCEPT ![t] = 0]
      /\ todo' = [todo EXCEPT ![t] = 0]
      /\ seen' = [seen EXCEPT ![t] = {}]
      /\ ok' = [ok EXCEPT ![t] = TRUE]
      /\ result' = [result EXCEPT ![t] = "none"]
      /\ queue' = [queue EXCEPT ![t] = 0]
      /\ UNCHANGED <<handler, semPV, toCome, late, indexVars, chainVars, dead>>
  BY Zenon DEF Erase, At
<1>2. \/ t \in Threads /\ Goto(t, "post") /\ csMain' = csMain
      \/ t = Miner /\ Goto(t, "none") /\ csMain' = None
  BY Names, Zenon DEF Erase, fParallel
<1>3. \/ UNCHANGED <<hash, fQuit, fIsValidating, nSeq>>
      \/ /\ t \in Threads
         /\ hash' = [hash EXCEPT ![t] = None]
         /\ fQuit' = [fQuit EXCEPT ![t] = FALSE]
         /\ fIsValidating' = [fIsValidating EXCEPT ![t] = FALSE]
         /\ nSeq' = [nSeq EXCEPT ![t] = 0]
  BY Zenon DEF Erase, fParallel
<1>4. /\ pc \in [All -> Labels] /\ blk \in [All -> Blocks \cup {None}]
      /\ cur \in [All -> Blocks \cup {None}] /\ target \in [All -> Blocks \cup {None}]
      /\ start \in [All -> Nat] /\ todo \in [All -> 0 .. NChecks]
      /\ seen \in [All -> SUBSET BOOLEAN] /\ ok \in [All -> BOOLEAN]
      /\ result \in [All -> {"none", "ok", "stop", "inputs", "scripts"}]
  BY Typed, Zenon DEF ThreadTypes
<1>5. /\ queue \in [All -> Queues \cup {0}] /\ hash \in [Threads -> Blocks \cup {None}]
      /\ fQuit \in [Threads -> BOOLEAN] /\ fIsValidating \in [Threads -> BOOLEAN]
      /\ nSeq \in [Threads -> Nat \cup {-1}]
  BY Typed, Zenon DEF MapTypes
<1>6. /\ pc' \in [All -> Labels] /\ pc'[t] \in {"none", "post"} /\ (pc'[t] = "none" <=> t = Miner)
      /\ \A u \in All \ {t} : pc'[u] = pc[u]
  <2>1. "none" \in Labels /\ "post" \in Labels
    BY Zenon DEF Labels
  <2> QED BY <1>2, <1>4, <2>1, Names, GotoIs, Zenon
<1>7. ThreadTypes'
  <2>1. blk' \in [All -> Blocks \cup {None}] /\ cur' \in [All -> Blocks \cup {None}]
    BY <1>1, <1>4
  <2>2. target' \in [All -> Blocks \cup {None}] /\ start' \in [All -> Nat]
    BY <1>1, <1>4
  <2>3. todo' \in [All -> 0 .. NChecks]
    <3>1. NChecks \in Nat
      BY PVAssumption, Zenon
    <3>2. 0 \in 0 .. NChecks
      BY <3>1
    <3> QED BY <1>1, <1>4, <3>2
  <2>4. seen' \in [All -> SUBSET BOOLEAN] /\ ok' \in [All -> BOOLEAN]
    BY <1>1, <1>4
  <2>5. result' \in [All -> {"none", "ok", "stop", "inputs", "scripts"}]
    BY <1>1, <1>4
  <2> QED BY <1>6, <2>1, <2>2, <2>3, <2>4, <2>5, Zenon DEF ThreadTypes
<1>8. MapTypes'
  <2>1. queue' \in [All -> Queues \cup {0}]
    BY <1>1, <1>5
  <2>2. CASE UNCHANGED <<hash, fQuit, fIsValidating, nSeq>>
    BY <1>5, <2>1, <2>2, Zenon DEF MapTypes
  <2>3. CASE ~UNCHANGED <<hash, fQuit, fIsValidating, nSeq>>
    <3>1. hash' \in [Threads -> Blocks \cup {None}] /\ fQuit' \in [Threads -> BOOLEAN]
      BY <1>3, <1>5, <2>3, Zenon
    <3>2. fIsValidating' \in [Threads -> BOOLEAN]
      BY <1>3, <1>5, <2>3, Zenon
    <3>3. nSeq' \in [Threads -> Nat \cup {-1}]
      BY <1>3, <1>5, <2>3
    <3> QED BY <2>1, <3>1, <3>2, <3>3, Zenon DEF MapTypes
  <2> QED BY <2>2, <2>3, Zenon
<1>9. (t = Miner => csMain = t) /\ (t \in Threads => csMain # t)
  <2>1. pc[t] \notin Holding /\ pc[t] # "none"
    BY <1>1 DEF Holding
  <2> QED BY <2>1, Zenon DEF Invariant, Locks
<1>10. Moves(t)
  <2>1. /\ \A u \in All \ {t} : blk'[u] = blk[u] /\ cur'[u] = cur[u] /\ target'[u] = target[u]
        /\ \A u \in All \ {t} : start'[u] = start[u] /\ seen'[u] = seen[u]
        /\ \A u \in All \ {t} : result'[u] = result[u] /\ queue'[u] = queue[u]
    BY <1>1, <1>4, <1>5, Zenon
  <2>2. \A u \in Threads \ {t} : fQuit'[u] = fQuit[u]
    BY <1>3, <1>5, Zenon
  <2>3. \A u \in All \ {t} : Same(u)
    BY <1>6, <2>1, <2>2, Zenon DEF Same
  <2> QED BY <1>2, <1>9, <2>3, Zenon DEF Moves
<1>11. pc'[t] \notin Holding /\ ~Validating(t)' /\ pc'[t] \in Fresh
  BY <1>6, Zenon DEF Holding, Validating, Fresh
<1>12. Held(t) /\ Heeds(t) /\ Queued(t)
  BY <1>1, <1>2, <1>6, <1>9, <1>11, Names, Zenon DEF Held, Heeds, Queued
<1>13. ThreadOK(t)'
  <2>1. result'[t] # "inputs"
    BY <1>1, <1>4
  <2> QED BY <1>6, <1>11, <2>1, AtRest, Zenon
<1>14. Grants' /\ semPV' \in 0 .. Cardinality(Threads)
  <2>1. t \in Threads => pc[t] # "none" /\ pc'[t] # "none"
    BY <1>1, <1>6, Names, Zenon
  <2> QED BY <1>1, <1>6, <2>1, Typed, GrantsKept, Zenon DEF Invariant
<1>15. TypeOK'
  <2>1. IndexTypes'
    BY <1>1, Typed, TypesKept, Zenon
  <2>2. csMain' \in All \cup {None}
    BY <1>2, Typed, Zenon DEF OtherTypes
  <2>3. OtherTypes'
    BY <1>1, <2>2, Typed, Zenon DEF OtherTypes, chainVars
  <2> QED BY <1>7, <1>8, <1>14, <2>1, <2>3, TypeGroups, Zenon
<1>16. UNCHANGED <<tip, applied, forkActive>> /\ NotBlamedForInputs'
  BY <1>1, Zenon DEF chainVars, indexVars, NotBlamedForInputs, Invariant
<1> QED BY <1>10, <1>12, <1>13, <1>14, <1>15, <1>16, StepKeeps, Zenon

\* The grant goes back.
LEMMA PostKeeps ==
  ASSUME Invariant, NEW t \in All, Post(t)
  PROVE  Invariant'
<1>1. /\ t \in Threads /\ pc[t] = "post" /\ Goto(t, "none")
      /\ UNCHANGED <<csMain, handler, toCome, blk, cur, target, start, todo, seen, ok, result,
                     mapVars, late, indexVars, chainVars, dead>>
  BY Zenon DEF Post, At
<1>2. ThreadTypes /\ pc \in [All -> Labels] /\ "none" \in Labels
  BY Typed, Zenon DEF ThreadTypes, Labels
<1>3. pc' \in [All -> Labels] /\ pc'[t] = "none" /\ \A u \in All \ {t} : pc'[u] = pc[u]
  BY <1>1, <1>2, GotoIs, Zenon
<1>4. Moves(t)
  BY <1>1, <1>3, Zenon DEF Moves, Same, mapVars
<1>5. pc'[t] \notin Holding /\ pc[t] \notin Holding /\ ~Validating(t)' /\ pc'[t] \in Fresh
  BY <1>1, <1>3, Zenon DEF Holding, Validating, Fresh
<1>6. Held(t) /\ Heeds(t) /\ Queued(t)
  BY <1>1, <1>5, Names, Zenon DEF Held, Heeds, Queued, Invariant, Locks
<1>7. ThreadOK(t)'
  <2>1. result'[t] # "inputs"
    BY <1>1, Zenon DEF Invariant, ThreadOK
  <2> QED BY <1>3, <1>5, <2>1, AtRest, Zenon
<1>8. Grants' /\ semPV' \in 0 .. Cardinality(Threads)
  BY <1>1, <1>2, PostIs, Zenon DEF Invariant
<1>9. TypeOK'
  <2>1. ThreadTypes'
    BY <1>1, <1>2, <1>3, Zenon DEF ThreadTypes
  <2>2. MapTypes' /\ IndexTypes'
    BY <1>1, Typed, TypesKept, Zenon
  <2>3. OtherTypes'
    BY <1>1, Typed, Zenon DEF OtherTypes, chainVars
  <2> QED BY <1>8, <2>1, <2>2, <2>3, TypeGroups, Zenon
<1>10. UNCHANGED <<tip, applied, forkActive>> /\ NotBlamedForInputs'
  BY <1>1, Zenon DEF chainVars, indexVars, NotBlamedForInputs, Invariant
<1> QED BY <1>4, <1>6, <1>7, <1>8, <1>9, <1>10, StepKeeps, Zenon

\* The miner takes cs_main and stops every thread that has an entry.
LEMMA MineBlockKeeps ==
  ASSUME Invariant, NEW b \in Blocks, MineBlock(b)
  PROVE  Invariant'
<1>1. /\ pc[Miner] = "none" /\ csMain = None /\ csMain' = Miner /\ b \in Mined
      /\ toCome' \subseteq toCome /\ Store(b)
      /\ blk' = [blk EXCEPT ![Miner] = b]
      /\ fQuit' = Quitting(Registered \ {Miner})
      /\ UNCHANGED <<handler, semPV, cur, target, start, todo, seen, ok, result, queue, hash,
                     fIsValidating, nSeq, late, failed, blamed, chainVars, dead>>
  BY Zenon DEF MineBlock, At, StopAllValidationThreads
<1>2. PICK label \in {"erase", "activate"} : Goto(Miner, label)
  BY Zenon DEF MineBlock
<1>3. /\ ThreadTypes /\ pc \in [All -> Labels] /\ blk \in [All -> Blocks \cup {None}]
      /\ label \in Labels /\ MapTypes /\ fQuit \in [Threads -> BOOLEAN] /\ Miner \in All
  BY Typed, Names, Zenon DEF ThreadTypes, MapTypes, Labels
<1>4. /\ pc' \in [All -> Labels] /\ pc'[Miner] = label
      /\ \A u \in All \ {Miner} : pc'[u] = pc[u]
  BY <1>2, <1>3, GotoIs, Zenon
<1>5. /\ blk' \in [All -> Blocks \cup {None}] /\ blk'[Miner] = b
      /\ \A u \in All \ {Miner} : blk'[u] = blk[u]
  BY <1>1, <1>3
<1>6. /\ fQuit' \in [Threads -> BOOLEAN] /\ \A u \in Threads : fQuit[u] => fQuit'[u]
      /\ \A u \in Registered : fQuit'[u]
  BY <1>1, <1>3, Names, Zenon DEF Quitting, Registered
<1>7. Moves(Miner)
  BY <1>1, <1>4, <1>5, <1>6, Zenon DEF Moves, Same
<1>8. pc'[Miner] \notin Holding /\ ~Validating(Miner)' /\ pc'[Miner] # "none"
  BY <1>2, <1>4, Zenon DEF Holding, Validating
<1>9. Held(Miner) /\ Queued(Miner)
  BY <1>1, <1>8, Names, Zenon DEF Held, Queued
<1>10. MinerStops'
  <2>1. ASSUME NEW u \in Threads, pc'[u] \notin Fresh PROVE fQuit'[u]
    <3>1. pc[u] \notin Fresh
      BY <1>4, <2>1, Names, Zenon
    <3>2. u \in Registered
      BY <3>1, Zenon DEF Registered, InMap, Fresh
    <3> QED BY <1>6, <3>2, Zenon
  <2> QED BY <2>1, Zenon DEF MinerStops
<1>11. ThreadOK(Miner)'
  <2>1. result'[Miner] # "inputs"
    BY <1>1, <1>3, Zenon DEF Invariant, ThreadOK
  <2> QED BY <1>1, <1>3, <1>5, <1>8, <2>1, AtRest, Zenon
<1>12. Grants' /\ semPV' \in 0 .. Cardinality(Threads)
  BY <1>1, <1>3, <1>4, Names, Typed, GrantsKept, Zenon DEF Invariant
<1>13. TypeOK'
  <2>1. ThreadTypes'
    BY <1>1, <1>3, <1>4, <1>5, Zenon DEF ThreadTypes
  <2>2. MapTypes'
    BY <1>1, <1>3, <1>6, Zenon DEF MapTypes
  <2>3. IndexTypes'
    BY <1>1, Typed, StoreTypes, Zenon
  <2>4. OtherTypes'
    BY <1>1, <1>3, Typed, Zenon DEF OtherTypes, chainVars
  <2> QED BY <1>12, <2>1, <2>2, <2>3, <2>4, TypeGroups, Zenon
<1>14. UNCHANGED <<tip, applied, forkActive>> /\ NotBlamedForInputs'
  BY <1>1, Zenon DEF chainVars, NotBlamedForInputs, Invariant
<1> QED BY <1>3, <1>7, <1>9, <1>10, <1>11, <1>12, <1>13, <1>14, StepKeeps, Zenon

----------------------------------------------------------------------------
(* ActivateBestChain, ConnectTip and DisconnectTip.                        *)

\* A thread that leaves ActivateBestChain gives cs_main back, the miner keeps it.
LEMMA LeaveIs ==
  ASSUME pc \in [All -> Labels], NEW t \in All, Leave(t)
  PROVE  /\ pc' \in [All -> Labels] /\ pc'[t] = "erase"
         /\ \A u \in All \ {t} : pc'[u] = pc[u]
         /\ csMain' \in {None, t} /\ Held(t) /\ Queued(t)
         /\ pc'[t] \notin Holding /\ ~Validating(t)'
<1>1. Goto(t, "erase") /\ csMain' = IF t \in Threads THEN None ELSE t
  BY Zenon DEF Leave, fParallel
<1>2. "erase" \in Labels
  BY Zenon DEF Labels
<1>3. pc' \in [All -> Labels] /\ pc'[t] = "erase" /\ \A u \in All \ {t} : pc'[u] = pc[u]
  BY <1>1, <1>2, GotoIs, Zenon
<1>4. pc'[t] \notin Holding /\ ~Validating(t)' /\ pc'[t] # "none"
  BY <1>3, Zenon DEF Holding, Validating
<1>5. Held(t) /\ Queued(t)
  BY <1>1, <1>4, Names, Zenon DEF Held, Queued
<1> QED BY <1>1, <1>3, <1>4, <1>5, Zenon

\* A thread that holds cs_main, or may take it, does not act beside the miner.
LEMMA NotBeside ==
  ASSUME NEW t \in All, csMain \in {None, t}, pc[t] # "none"
  PROVE  Heeds(t)
BY Names, Zenon DEF Heeds

\* The best chain is looked for and a way to it begun, or there is none.
LEMMA ActivateBestChainKeeps ==
  ASSUME Invariant, NEW t \in All, ActivateBestChain(t)
  PROVE  Invariant'
<1>1. /\ pc[t] = "activate" /\ csMain \in {None, t} /\ FindEffects
      /\ UNCHANGED <<handler, semPV, toCome, blk, start, todo, seen, ok, result, mapVars,
                     late, data, seq, nextSeq, chainVars, dead>>
  BY Zenon DEF ActivateBestChain, At
<1>2. /\ ThreadTypes /\ IndexTypes /\ pc \in [All -> Labels]
      /\ cur \in [All -> Blocks \cup {None}] /\ target \in [All -> Blocks \cup {None}]
      /\ cand \in Seq(Blocks) /\ seq \in [Blocks -> Nat] /\ tip \in Blocks
  BY Typed, Zenon DEF ThreadTypes, IndexTypes, OtherTypes
<1>3. IndexTypes' /\ NotBlamedForInputs'
  BY <1>1, <1>2, FindTypes, Zenon DEF Invariant
<1>4. blk[t] \in Arriving \cup Mined /\ result[t] # "inputs"
  <2>1. pc[t] \notin {"none", "post"}
    BY <1>1
  <2> QED BY <2>1, Zenon DEF Invariant, ThreadOK
<1>5. Heeds(t) /\ pc[t] # "none"
  BY <1>1, NotBeside, Zenon
<1>6. MapTypes' /\ UNCHANGED <<tip, applied, forkActive, queue, fQuit>>
  BY <1>1, Typed, TypesKept, Zenon DEF mapVars, chainVars
<1>7. ASSUME pc' \in [All -> Labels], \A u \in All \ {t} : pc'[u] = pc[u], pc'[t] # "none",
             cur' \in [All -> Blocks \cup {None}], target' \in [All -> Blocks \cup {None}],
             \A u \in All \ {t} : cur'[u] = cur[u] /\ target'[u] = target[u],
             csMain' \in {None, t}, Held(t), Queued(t), ThreadOK(t)'
      PROVE  Invariant'
  <2>1. Moves(t)
    BY <1>1, <1>6, <1>7, Zenon DEF Moves, Same
  <2>2. Grants' /\ semPV' \in 0 .. Cardinality(Threads)
    BY <1>1, <1>5, <1>7, Typed, GrantsKept, Zenon DEF Invariant
  <2>3. ThreadTypes'
    BY <1>1, <1>2, <1>7, Zenon DEF ThreadTypes
  <2>4. OtherTypes'
    BY <1>1, <1>6, <1>7, Typed, Zenon DEF OtherTypes
  <2>5. TypeOK'
    BY <1>3, <1>6, <2>2, <2>3, <2>4, TypeGroups, Zenon
  <2> QED BY <1>3, <1>5, <1>6, <1>7, <2>1, <2>2, <2>5, StepKeeps, Zenon
<1>8. CASE \A m \in Find : nChainWork[m] <= nChainWork[tip]
  <2>1. Leave(t) /\ UNCHANGED <<cur, target>>
    BY <1>8, Zenon DEF ActivateBestChain
  <2>2. ThreadOK(t)'
    BY <1>1, <1>2, <1>4, <2>1, LeaveIs, AtRest, Zenon
  <2>3. pc'[t] # "none"
    BY <1>2, <2>1, LeaveIs
  <2> QED BY <1>2, <1>7, <2>1, <2>2, <2>3, LeaveIs, Zenon
<1>9. CASE ~ \A m \in Find : nChainWork[m] <= nChainWork[tip]
  <2> DEFINE m == PickTarget(t)
             c == NextToConnect(m, nHeight[FindFork(tip, m)])
             label == IF tip \in Chain[m] THEN "connect" ELSE "disconnect"
  <2>1. /\ csMain' = t /\ target' = [target EXCEPT ![t] = m] /\ cur' = [cur EXCEPT ![t] = c]
        /\ Goto(t, label)
    BY <1>9, Zenon DEF ActivateBestChain
  <2>2. m \in Blocks /\ nChainWork[tip] < nChainWork[m]
    BY <1>2, <1>4, <1>9, TargetIs, Zenon
  <2>3. c \in Chain[m] \ {Genesis} /\ c \in Blocks
    BY <1>2, <2>2, ForkIsBelow, NextIs, Zenon
  <2>4. label \in {"connect", "disconnect"} /\ (label = "disconnect" => tip \notin Chain[m])
    BY Zenon
  <2> HIDE DEF m, c, label
  <2>5. label \in Labels
    BY <2>4, Zenon DEF Labels
  <2>6. pc' \in [All -> Labels] /\ pc'[t] = label /\ \A u \in All \ {t} : pc'[u] = pc[u]
    BY <1>2, <2>1, <2>5, GotoIs, Zenon
  <2>7. /\ target' \in [All -> Blocks \cup {None}] /\ target'[t] = m
        /\ \A u \in All \ {t} : target'[u] = target[u]
    BY <1>2, <2>1, <2>2
  <2>8. cur' \in [All -> Blocks \cup {None}] /\ cur'[t] = c /\ \A u \in All \ {t} : cur'[u] = cur[u]
    BY <1>2, <2>1, <2>3
  <2>9. pc'[t] \in Holding /\ ~Validating(t)' /\ pc'[t] \notin {"none", "commit", "next"}
    BY <2>4, <2>6, Zenon DEF Holding, Validating
  <2>10. Held(t) /\ Queued(t)
    BY <2>1, <2>9, Names, Zenon DEF Held, Queued
  <2>11. ThreadOK(t)'
    <3>1. OnPath(t)'
      BY <2>2, <2>3, <2>7, <2>8, Zenon DEF OnPath
    <3>2. pc'[t] = "disconnect" => tip' \notin Chain[target'[t]]
      BY <1>6, <2>4, <2>6, <2>7, Zenon
    <3> QED BY <1>1, <1>4, <2>9, <3>1, <3>2, Zenon DEF ThreadOK
  <2> QED BY <1>7, <2>1, <2>6, <2>7, <2>8, <2>9, <2>10, <2>11, Zenon
<1> QED BY <1>8, <1>9, Zenon

\* The queue that a thread is given is used by no other.
LEMMA OwnQueue ==
  ASSUME Invariant, NEW t \in All, csMain = t, FreeQueues # {}
  PROVE  \A u \in All \ {t} : Validating(u) => queue[u] # FirstFree
<1> SUFFICES ASSUME NEW u \in All \ {t}, Validating(u) PROVE queue[u] # FirstFree
  BY Zenon
<1>1. pc[u] \notin {"none", "start", "post"}
  BY DEF Validating
<1>2. u # Miner
  BY <1>1, Zenon DEF Invariant, Locks
<1>3. u \in Registered
  BY <1>1, <1>2, Names, Zenon DEF Registered, InMap
<1> QED BY <1>3, FirstFreeIs, Zenon DEF FreeQueues

\* A block is taken up on the tip it extends, and on a queue of its own.
LEMMA ConnectKeeps ==
  ASSUME Invariant, NEW t \in All, Connect(t)
  PROVE  Invariant'
<1>1. /\ pc[t] = "connect"
      /\ UNCHANGED <<handler, semPV, toCome, blk, cur, target, result, fQuit, late, indexVars,
                     chainVars, dead>>
  BY Zenon DEF Connect, At
<1>2. /\ ThreadTypes /\ MapTypes /\ pc \in [All -> Labels] /\ start \in [All -> Nat]
      /\ todo \in [All -> 0 .. NChecks] /\ seen \in [All -> SUBSET BOOLEAN]
      /\ ok \in [All -> BOOLEAN] /\ tip \in Blocks
  BY Typed, Zenon DEF ThreadTypes, OtherTypes
<1>3. csMain = t /\ pc[t] \notin {"none", "post"}
  <2>1. pc[t] \in Holding
    BY <1>1, Zenon DEF Holding
  <2> QED BY <1>1, <2>1, Names, Zenon DEF Invariant, Locks
<1>4. Heeds(t) /\ pc[t] # "none"
  BY <1>1, <1>3, NotBeside, Zenon
<1>5. ThreadOK(t) /\ OnPath(t) /\ blk[t] \in Arriving \cup Mined /\ result[t] # "inputs"
  <2>1. pc[t] \in Holding
    BY <1>1, Zenon DEF Holding
  <2> QED BY <1>3, <2>1, Zenon DEF Invariant, ThreadOK
<1>6. IndexTypes' /\ NotBlamedForInputs' /\ UNCHANGED <<tip, applied, forkActive>>
  BY <1>1, Typed, TypesKept, Zenon DEF indexVars, chainVars, NotBlamedForInputs, Invariant
<1>7. ASSUME pc' \in [All -> Labels], \A u \in All \ {t} : pc'[u] = pc[u], pc'[t] # "none",
             start' \in [All -> Nat], todo' \in [All -> 0 .. NChecks],
             seen' \in [All -> SUBSET BOOLEAN], ok' \in [All -> BOOLEAN], MapTypes',
             \A u \in All \ {t} : start'[u] = start[u] /\ seen'[u] = seen[u] /\ queue'[u] = queue[u],
             csMain' \in {None, t}, Held(t), Queued(t), ThreadOK(t)'
      PROVE  Invariant'
  <2>1. Moves(t)
    BY <1>1, <1>3, <1>7, Zenon DEF Moves, Same
  <2>2. Grants' /\ semPV' \in 0 .. Cardinality(Threads)
    BY <1>1, <1>4, <1>7, Typed, GrantsKept, Zenon DEF Invariant
  <2>3. ThreadTypes'
    BY <1>1, <1>2, <1>7, Zenon DEF ThreadTypes
  <2>4. OtherTypes'
    BY <1>1, <1>6, <1>7, Typed, Zenon DEF OtherTypes
  <2>5. TypeOK'
    BY <1>6, <1>7, <2>2, <2>3, <2>4, TypeGroups, Zenon
  <2> QED BY <1>4, <1>6, <1>7, <2>1, <2>2, <2>5, StepKeeps, Zenon
<1>8. ASSUME Leave(t) PROVE ThreadOK(t)' /\ pc'[t] # "none"
  <2>1. pc'[t] = "erase"
    BY <1>2, <1>8, LeaveIs, Zenon
  <2> QED BY <1>1, <1>2, <1>5, <1>8, <2>1, LeaveIs, AtRest, Zenon
<1>9. CASE Parent[cur[t]] # tip
  <2>1. Leave(t) /\ UNCHANGED <<start, todo, seen, ok, queue, hash, fIsValidating, nSeq>>
    BY <1>9, Zenon DEF Connect
  <2>2. MapTypes'
    BY <1>1, <1>2, <2>1, Zenon DEF MapTypes
  <2> QED BY <1>2, <1>7, <1>8, <2>1, <2>2, LeaveIs, Zenon
<1>10. CASE Parent[cur[t]] = tip
  <2> DEFINE n == IF cur[t] \in Preverified THEN 0 ELSE NChecks
  <2>1. /\ FreeQueues # {}
        /\ start' = [start EXCEPT ![t] = nChainWork[tip]]
        /\ queue' = [queue EXCEPT ![t] = FirstFree]
        /\ todo' = [todo EXCEPT ![t] = n]
        /\ seen' = [seen EXCEPT ![t] = {}]
        /\ ok' = [ok EXCEPT ![t] = TRUE]
    BY <1>10, Zenon DEF Connect
  <2>2. start' \in [All -> Nat] /\ start'[t] = nChainWork[tip] /\ \A u \in All \ {t} : start'[u] = start[u]
    <3>1. nChainWork[tip] \in Nat
      BY <1>2, WorkIs, Zenon
    <3> QED BY <1>2, <2>1, <3>1
  <2>3. todo' \in [All -> 0 .. NChecks]
    <3>1. NChecks \in Nat
      BY PVAssumption, Zenon
    <3>2. n \in 0 .. NChecks
      BY <3>1
    <3> HIDE DEF n
    <3> QED BY <1>2, <2>1, <3>2
  <2>4. /\ seen' \in [All -> SUBSET BOOLEAN] /\ seen'[t] = {} /\ \A u \in All \ {t} : seen'[u] = seen[u]
        /\ ok' \in [All -> BOOLEAN]
    BY <1>2, <2>1
  <2>5. /\ queue' \in [All -> Queues \cup {0}] /\ queue'[t] = FirstFree /\ FirstFree \in Queues
        /\ \A u \in All \ {t} : queue'[u] = queue[u]
    <3>1. FirstFree \in Queues /\ queue \in [All -> Queues \cup {0}]
      BY <1>2, <2>1, FirstFreeIs, Zenon DEF MapTypes
    <3> QED BY <2>1, <3>1
  <2>6. ASSUME Goto(t, "inputs"), csMain' = (IF t \in Threads THEN None ELSE t), MapTypes'
        PROVE  Invariant'
    <3>1. "inputs" \in Labels
      BY Zenon DEF Labels
    <3>2. pc' \in [All -> Labels] /\ pc'[t] = "inputs" /\ \A u \in All \ {t} : pc'[u] = pc[u]
      BY <1>2, <2>6, <3>1, GotoIs, Zenon
    <3>3. pc'[t] \notin Holding /\ pc'[t] \notin {"none", "missing", "disconnect", "commit", "next"}
      BY <3>2, Zenon DEF Holding
    <3>4. Held(t)
      BY <2>6, <3>3, Names, Zenon DEF Held
    <3>5. Queued(t)
      BY <1>3, <2>1, <2>5, OwnQueue, Zenon DEF Queued
    <3>6. OnPath(t)'
      BY <1>1, <1>5, Zenon DEF OnPath
    <3>7. Unchanged(t)'
      BY <1>1, <1>6, <1>10, <2>4, Zenon DEF Unchanged
    <3>8. Racing(t)'
      BY <1>1, <1>10, <2>2, <2>5, <3>3, <3>7, Zenon DEF Racing
    <3>9. ThreadOK(t)'
      BY <1>1, <1>5, <3>3, <3>6, <3>8, Zenon DEF ThreadOK
    <3> QED BY <1>7, <2>2, <2>3, <2>4, <2>5, <2>6, <3>2, <3>3, <3>4, <3>5, <3>9, Zenon
  <2>7. /\ hash \in [Threads -> Blocks \cup {None}] /\ fQuit' \in [Threads -> BOOLEAN]
        /\ fIsValidating \in [Threads -> BOOLEAN] /\ nSeq \in [Threads -> Nat \cup {-1}]
        /\ cur[t] \in Blocks
    BY <1>1, <1>2, <1>5, ChainIs, Zenon DEF MapTypes, OnPath
  <2>8. CASE t \notin Threads
    <3>1. Goto(t, "inputs") /\ UNCHANGED <<csMain, hash, fIsValidating, nSeq>>
      BY <1>10, <2>8, Zenon DEF Connect, fParallel
    <3>2. MapTypes'
      BY <2>5, <2>7, <3>1, Zenon DEF MapTypes
    <3> QED BY <1>3, <2>6, <2>8, <3>1, <3>2, Zenon
  <2>9. CASE t \in Threads
    <3>1. hash' = [hash EXCEPT ![t] = cur[t]]
      BY <1>10, <2>9, Zenon DEF Connect, fParallel
    <3>2. hash' \in [Threads -> Blocks \cup {None}]
      BY <2>7, <3>1, Zenon
    <3>3. CASE Initialize(t, cur[t])
      <4> DEFINE k == IF seq[cur[t]] > 0 THEN seq[cur[t]] ELSE nSeq[t]
      <4>1. /\ nSeq' = [nSeq EXCEPT ![t] = k]
            /\ fIsValidating' = [fIsValidating EXCEPT ![t] = TRUE]
            /\ csMain' = None /\ Goto(t, "inputs")
        BY <1>10, <2>9, <3>3, Zenon DEF Connect, fParallel
      <4>2. k \in Nat \cup {-1}
        BY <2>7, <2>9, Typed, Zenon DEF IndexTypes
      <4> HIDE DEF k
      <4>3. nSeq' \in [Threads -> Nat \cup {-1}]
        BY <2>7, <4>1, <4>2, Zenon
      <4>4. fIsValidating' \in [Threads -> BOOLEAN]
        BY <2>7, <4>1, Zenon
      <4>5. MapTypes'
        BY <2>5, <2>7, <3>2, <4>3, <4>4, Zenon DEF MapTypes
      <4> QED BY <2>6, <2>9, <4>1, <4>5, Zenon
    <3>4. CASE ~Initialize(t, cur[t])
      <4>1. Leave(t) /\ UNCHANGED <<fIsValidating, nSeq>>
        BY <1>10, <2>9, <3>4, Zenon DEF Connect, fParallel
      <4>2. MapTypes'
        BY <2>5, <2>7, <3>2, <4>1, Zenon DEF MapTypes
      <4> QED BY <1>2, <1>7, <1>8, <2>2, <2>3, <2>4, <2>5, <4>1, <4>2, LeaveIs, Zenon
    <3> QED BY <3>3, <3>4, Zenon
  <2> QED BY <2>8, <2>9, Zenon
<1> QED BY <1>9, <1>10, Zenon

\* SetLocks gives the queue back.
LEMMA SetLocksIs ==
  ASSUME Invariant, NEW t \in All, SetLocks(t)
  PROVE  /\ pc[t] = "relock" /\ csMain \in {None, t} /\ Validating(t)
         /\ queue' \in [All -> Queues \cup {0}]
         /\ \A u \in All \ {t} : queue'[u] = queue[u]
         /\ late' \subseteq Queues
         /\ OnPath(t) /\ Racing(t) /\ blk[t] \in Arriving \cup Mined /\ result[t] # "inputs"
<1>1. /\ pc[t] = "relock" /\ csMain \in {None, t} /\ queue' = [queue EXCEPT ![t] = 0]
      /\ late' \in {late, late \cup {queue[t]}}
  BY Zenon DEF SetLocks, At
<1>2. Validating(t) /\ pc[t] \notin {"none", "post"}
  BY <1>1, Zenon DEF Validating
<1>3. OnPath(t) /\ Racing(t) /\ blk[t] \in Arriving \cup Mined /\ result[t] # "inputs"
  BY <1>2, Zenon DEF Invariant, ThreadOK
<1>4. queue \in [All -> Queues \cup {0}] /\ late \subseteq Queues
  BY Typed, Zenon DEF MapTypes, OtherTypes
<1>5. queue' \in [All -> Queues \cup {0}] /\ \A u \in All \ {t} : queue'[u] = queue[u]
  BY <1>1, <1>4
<1>6. late' \subseteq Queues
  BY <1>1, <1>3, <1>4, Zenon DEF Racing
<1> QED BY <1>1, <1>2, <1>3, <1>5, <1>6, Zenon

\* Who wins has validated on the tip as it still is, under the flag as it still is.
LEMMA WinKeeps ==
  ASSUME Invariant, NEW t \in All, Win(t)
  PROVE  Invariant'
<1>1. /\ SetLocks(t) /\ Wins(t) /\ csMain' = t /\ Goto(t, "commit")
      /\ fQuit' = Quitting({u \in Registered \ {t} : Parent[blk[u]] = Parent[cur[t]]})
      /\ UNCHANGED <<handler, semPV, toCome, blk, cur, target, start, todo, seen, ok, result,
                     hash, fIsValidating, nSeq, indexVars, chainVars, dead>>
  BY Zenon DEF Win, QuitCompetingThreads
<1>2. /\ pc[t] = "relock" /\ csMain \in {None, t} /\ Validating(t)
      /\ queue' \in [All -> Queues \cup {0}]
      /\ \A u \in All \ {t} : queue'[u] = queue[u]
      /\ late' \subseteq Queues
      /\ OnPath(t) /\ Racing(t) /\ blk[t] \in Arriving \cup Mined /\ result[t] # "inputs"
  BY <1>1, SetLocksIs, Zenon
<1>3. /\ ThreadTypes /\ MapTypes /\ pc \in [All -> Labels] /\ "commit" \in Labels
      /\ fQuit \in [Threads -> BOOLEAN] /\ start \in [All -> Nat] /\ tip \in Blocks
  BY Typed, Zenon DEF ThreadTypes, MapTypes, OtherTypes, Labels
<1>4. pc' \in [All -> Labels] /\ pc'[t] = "commit" /\ \A u \in All \ {t} : pc'[u] = pc[u]
  BY <1>1, <1>3, GotoIs, Zenon
<1>5. fQuit' \in [Threads -> BOOLEAN] /\ \A u \in Threads : fQuit[u] => fQuit'[u]
  BY <1>1, <1>3, Zenon DEF Quitting
<1>6. Moves(t)
  BY <1>1, <1>2, <1>4, <1>5, Zenon DEF Moves, Same
<1>7. pc'[t] \in Holding /\ ~Validating(t)' /\ pc[t] # "none" /\ pc'[t] # "none"
      /\ pc'[t] \notin {"disconnect", "next"}
  BY <1>2, <1>4, Zenon DEF Holding, Validating
<1>8. Held(t) /\ Heeds(t) /\ Queued(t)
  BY <1>1, <1>2, <1>7, Names, NotBeside, Zenon DEF Held, Queued
<1>9. UNCHANGED <<tip, applied, forkActive>> /\ NotBlamedForInputs' /\ IndexTypes'
  BY <1>1, Typed, TypesKept, Zenon DEF chainVars, indexVars, NotBlamedForInputs, Invariant
<1>10. Unchanged(t)
  <2>1. nChainWork[tip] = start[t] /\ ~Stopped(t)
    BY <1>1, <1>2, QuitSeen, Zenon DEF Wins, ChainWorkHasChanged
  <2>2. ~(nChainWork[tip] > start[t])
    <3>1. start[t] \in Nat
      BY <1>3, Zenon
    <3> QED BY <2>1, <3>1
  <2> QED BY <1>2, <2>1, <2>2, Zenon DEF Racing
<1>11. ThreadOK(t)'
  BY <1>1, <1>2, <1>7, <1>9, <1>10, Zenon DEF ThreadOK, OnPath, Unchanged
<1>12. Grants' /\ semPV' \in 0 .. Cardinality(Threads)
  BY <1>1, <1>4, <1>7, Typed, GrantsKept, Zenon DEF Invariant
<1>13. TypeOK'
  <2>1. ThreadTypes'
    BY <1>1, <1>3, <1>4, Zenon DEF ThreadTypes
  <2>2. MapTypes'
    BY <1>1, <1>2, <1>3, <1>5, Zenon DEF MapTypes
  <2>3. OtherTypes'
    BY <1>1, <1>2, <1>9, Typed, Zenon DEF OtherTypes
  <2> QED BY <1>9, <1>12, <2>1, <2>2, <2>3, TypeGroups, Zenon
<1> QED BY <1>6, <1>8, <1>9, <1>11, <1>12, <1>13, StepKeeps, Zenon

\* Who loses leaves, and blames its block for its scripts if at all.
LEMMA LoseKeeps ==
  ASSUME Invariant, NEW t \in All, Lose(t)
  PROVE  Invariant'
<1>1. /\ SetLocks(t) /\ Leave(t)
      /\ UNCHANGED <<handler, semPV, toCome, blk, cur, target, start, todo, seen, ok, result,
                     hash, fQuit, fIsValidating, nSeq, data, seq, nextSeq, chainVars, dead>>
      /\ \/ result[t] \in {"inputs", "scripts"} /\ InvalidBlockFound(t)
         \/ UNCHANGED <<failed, blamed, cand>>
  BY Zenon DEF Lose
<1>2. /\ pc[t] = "relock" /\ csMain \in {None, t}
      /\ queue' \in [All -> Queues \cup {0}]
      /\ \A u \in All \ {t} : queue'[u] = queue[u]
      /\ late' \subseteq Queues
      /\ OnPath(t) /\ blk[t] \in Arriving \cup Mined /\ result[t] # "inputs"
  BY <1>1, SetLocksIs, Zenon
<1>3. ThreadTypes /\ MapTypes /\ IndexTypes /\ pc \in [All -> Labels]
  BY Typed, Zenon DEF ThreadTypes
<1>4. /\ pc' \in [All -> Labels] /\ pc'[t] = "erase" /\ pc'[t] # "none"
      /\ \A u \in All \ {t} : pc'[u] = pc[u]
      /\ csMain' \in {None, t} /\ Held(t) /\ Queued(t)
      /\ pc'[t] \notin Holding /\ ~Validating(t)'
  BY <1>1, <1>3, LeaveIs, Zenon
<1>5. Moves(t)
  BY <1>1, <1>2, <1>4, Zenon DEF Moves, Same
<1>6. Heeds(t) /\ pc[t] # "none"
  BY <1>2, NotBeside, Zenon
<1>7. ThreadOK(t)'
  BY <1>1, <1>2, <1>4, AtRest, Zenon
<1>8. IndexTypes' /\ NotBlamedForInputs'
  <2>1. CASE UNCHANGED <<failed, blamed, cand>>
    BY <1>1, <1>3, <2>1, Zenon DEF IndexTypes, NotBlamedForInputs, Invariant
  <2>2. CASE result[t] \in {"inputs", "scripts"} /\ InvalidBlockFound(t)
    <3>1. /\ failed' = failed \cup {cur[t]}
          /\ blamed' = [blamed EXCEPT ![cur[t]] = "scripts"]
          /\ cand' \in {EraseCandidate(cand, cur[t]), cand}
      BY <1>2, <2>2, Zenon DEF InvalidBlockFound
    <3>2. /\ cur[t] \in Blocks /\ failed \subseteq Blocks /\ cand \in Seq(Blocks)
          /\ blamed \in [Blocks -> {"not", "inputs", "scripts", "parent"}]
      BY <1>2, <1>3, ChainIs, Zenon DEF OnPath, IndexTypes
    <3>3. blamed' \in [Blocks -> {"not", "inputs", "scripts", "parent"}]
      BY <3>1, <3>2
    <3>4. \A b \in Blocks : blamed[b] # "inputs"
      BY Zenon DEF Invariant, NotBlamedForInputs
    <3>5. \A b \in Blocks : blamed'[b] # "inputs"
      BY <3>1, <3>2, <3>4
    <3>6. cand' \in Seq(Blocks)
      BY <3>1, <3>2, ErasedType, Zenon DEF EraseCandidate
    <3>7. IndexTypes'
      BY <1>1, <1>3, <3>1, <3>2, <3>3, <3>6, Zenon DEF IndexTypes
    <3> QED BY <3>5, <3>7, Zenon DEF NotBlamedForInputs
  <2> QED BY <1>1, <2>1, <2>2, Zenon
<1>9. UNCHANGED <<tip, applied, forkActive>>
  BY <1>1, Zenon DEF chainVars
<1>10. Grants' /\ semPV' \in 0 .. Cardinality(Threads)
  BY <1>1, <1>4, <1>6, Typed, GrantsKept, Zenon DEF Invariant
<1>11. TypeOK'
  <2>1. ThreadTypes'
    BY <1>1, <1>3, <1>4, Zenon DEF ThreadTypes
  <2>2. MapTypes'
    BY <1>1, <1>2, <1>3, Zenon DEF MapTypes
  <2>3. OtherTypes'
    BY <1>1, <1>2, <1>4, <1>9, Typed, Zenon DEF OtherTypes
  <2> QED BY <1>8, <1>10, <2>1, <2>2, <2>3, TypeGroups, Zenon
<1> QED BY <1>4, <1>5, <1>6, <1>7, <1>8, <1>9, <1>10, <1>11, StepKeeps, Zenon

\* The next block of a path is on the path.
LEMMA NextBlockKeeps ==
  ASSUME Invariant, NEW t \in All, NextBlock(t)
  PROVE  Invariant'
<1>1. /\ pc[t] = "next" /\ dead' \in BOOLEAN
      /\ UNCHANGED <<handler, semPV, toCome, blk, start, todo, seen, ok, result, mapVars, late,
                     data, seq, nextSeq, chainVars>>
  BY Zenon DEF NextBlock, At
<1>2. /\ ThreadTypes /\ IndexTypes /\ pc \in [All -> Labels]
      /\ cur \in [All -> Blocks \cup {None}] /\ target \in [All -> Blocks \cup {None}]
      /\ cand \in Seq(Blocks)
  BY Typed, Zenon DEF ThreadTypes, IndexTypes
<1>3. csMain = t /\ pc[t] \notin {"none", "post"}
  <2>1. pc[t] \in Holding
    BY <1>1, Zenon DEF Holding
  <2> QED BY <1>1, <2>1, Names, Zenon DEF Invariant, Locks
<1>4. Heeds(t) /\ pc[t] # "none"
  BY <1>1, <1>3, NotBeside, Zenon
<1>5. OnPath(t) /\ blk[t] \in Arriving \cup Mined /\ result[t] # "inputs"
  <2>1. pc[t] \in Holding
    BY <1>1, Zenon DEF Holding
  <2> QED BY <1>3, <2>1, Zenon DEF Invariant, ThreadOK
<1>6. cur[t] \in Blocks /\ target[t] \in Blocks /\ nHeight[cur[t]] \in Nat
  BY <1>5, ChainIs, HeightIs, Zenon DEF OnPath
<1>7. MapTypes' /\ UNCHANGED <<tip, applied, forkActive, queue, fQuit>>
  BY <1>1, Typed, TypesKept, Zenon DEF mapVars, chainVars
<1>8. ASSUME pc' \in [All -> Labels], \A u \in All \ {t} : pc'[u] = pc[u], pc'[t] # "none",
             cur' \in [All -> Blocks \cup {None}], target' \in [All -> Blocks \cup {None}],
             \A u \in All \ {t} : cur'[u] = cur[u] /\ target'[u] = target[u],
             csMain' \in {None, t}, Held(t), Queued(t), ThreadOK(t)', IndexTypes', NotBlamedForInputs'
      PROVE  Invariant'
  <2>1. Moves(t)
    BY <1>1, <1>3, <1>7, <1>8, Zenon DEF Moves, Same
  <2>2. Grants' /\ semPV' \in 0 .. Cardinality(Threads)
    BY <1>1, <1>4, <1>8, Typed, GrantsKept, Zenon DEF Invariant
  <2>3. ThreadTypes'
    BY <1>1, <1>2, <1>8, Zenon DEF ThreadTypes
  <2>4. OtherTypes'
    BY <1>1, <1>7, <1>8, Typed, Zenon DEF OtherTypes
  <2>5. TypeOK'
    BY <1>7, <1>8, <2>2, <2>3, <2>4, TypeGroups, Zenon
  <2> QED BY <1>4, <1>7, <1>8, <2>1, <2>2, <2>5, StepKeeps, Zenon
\* On to the next block c on the way to m.
<1>9. ASSUME NEW m \in Blocks, NEW c \in Chain[m] \ {Genesis}, csMain' = csMain,
             target' = [target EXCEPT ![t] = m], cur' = [cur EXCEPT ![t] = c],
             Goto(t, "connect"), IndexTypes', NotBlamedForInputs'
      PROVE  Invariant'
  <2>1. c \in Blocks /\ "connect" \in Labels
    BY <1>9, ChainIs, Zenon DEF Labels
  <2>2. pc' \in [All -> Labels] /\ pc'[t] = "connect" /\ \A u \in All \ {t} : pc'[u] = pc[u]
    BY <1>2, <1>9, <2>1, GotoIs, Zenon
  <2>3. /\ target' \in [All -> Blocks \cup {None}] /\ target'[t] = m
        /\ \A u \in All \ {t} : target'[u] = target[u]
    BY <1>2, <1>9
  <2>4. cur' \in [All -> Blocks \cup {None}] /\ cur'[t] = c /\ \A u \in All \ {t} : cur'[u] = cur[u]
    BY <1>2, <1>9, <2>1
  <2>5. pc'[t] \in Holding /\ ~Validating(t)' /\ pc'[t] \notin {"none", "disconnect", "commit", "next"}
    BY <2>2, Zenon DEF Holding, Validating
  <2>6. Held(t) /\ Queued(t) /\ csMain' = t
    BY <1>3, <1>9, <2>5, Names, Zenon DEF Held, Queued
  <2>7. OnPath(t)'
    BY <1>9, <2>3, <2>4, Zenon DEF OnPath
  <2>8. ThreadOK(t)'
    BY <1>1, <1>5, <2>5, <2>7, Zenon DEF ThreadOK
  <2> QED BY <1>8, <1>9, <2>2, <2>3, <2>4, <2>5, <2>6, <2>8, Zenon
<1>10. CASE cur[t] # target[t]
  <2>1. /\ cur' = [cur EXCEPT ![t] = NextToConnect(target[t], nHeight[cur[t]])]
        /\ Goto(t, "connect") /\ UNCHANGED <<csMain, target, cand, failed, blamed>>
    BY <1>10, Zenon DEF NextBlock
  <2>2. nHeight[cur[t]] < nHeight[target[t]]
    <3>1. /\ nHeight[cur[t]] <= nHeight[target[t]] /\ nHeight[cur[t]] # nHeight[target[t]]
          /\ nHeight[target[t]] \in Nat
      BY <1>5, <1>6, <1>10, ChainGrows, HeightIs, Zenon DEF OnPath
    <3> QED BY <1>6, <3>1
  <2>3. NextToConnect(target[t], nHeight[cur[t]]) \in Chain[target[t]] \ {Genesis}
    BY <1>6, <2>2, NextIs, Zenon
  <2>4. target' = [target EXCEPT ![t] = target[t]]
    BY <1>2, <2>1
  <2>5. IndexTypes' /\ NotBlamedForInputs'
    BY <1>1, <1>2, <2>1, Zenon DEF IndexTypes, NotBlamedForInputs, Invariant
  <2> QED BY <1>6, <1>9, <2>1, <2>3, <2>4, <2>5, Zenon
<1>11. CASE cur[t] = target[t]
  <2>1. FindEffects
    BY <1>11, Zenon DEF NextBlock
  <2>2. IndexTypes' /\ NotBlamedForInputs'
    BY <1>1, <1>2, <2>1, FindTypes, Zenon DEF Invariant
  <2>3. CASE Find = {} \/ nHeight[Found] <= nHeight[cur[t]]
    <3>1. Leave(t) /\ UNCHANGED <<cur, target>>
      BY <1>11, <2>3, Zenon DEF NextBlock
    <3>2. ThreadOK(t)'
      BY <1>1, <1>2, <1>5, <3>1, LeaveIs, AtRest, Zenon
    <3>3. pc'[t] # "none"
      BY <1>2, <3>1, LeaveIs
    <3> QED BY <1>2, <1>8, <2>2, <3>1, <3>2, <3>3, LeaveIs, Zenon
  <2>4. CASE ~(Find = {} \/ nHeight[Found] <= nHeight[cur[t]])
    <3>1. /\ target' = [target EXCEPT ![t] = Found] /\ csMain' = csMain
          /\ cur' = [cur EXCEPT ![t] = NextToConnect(Found, nHeight[cur[t]])]
          /\ Goto(t, "connect")
      BY <1>11, <2>4, Zenon DEF NextBlock
    <3>2. Found \in Blocks
      <4>1. Found \in Find
        BY <2>4, Zenon DEF Found
      <4>2. Find \subseteq Range(cand)
        BY <1>2, FoundIs, Zenon DEF Find
      <4>3. Range(cand) \subseteq Blocks
        BY <1>2 DEF Range
      <4> QED BY <4>1, <4>2, <4>3, Zenon
    <3>3. nHeight[cur[t]] < nHeight[Found]
      <4>1. nHeight[Found] \in Nat
        BY <3>2, HeightIs, Zenon
      <4> QED BY <1>6, <2>4, <4>1
    <3>4. NextToConnect(Found, nHeight[cur[t]]) \in Chain[Found] \ {Genesis}
      BY <1>6, <3>2, <3>3, NextIs, Zenon
    <3> QED BY <1>9, <2>2, <3>1, <3>2, <3>4, Zenon
  <2> QED BY <2>3, <2>4, Zenon
<1> QED BY <1>10, <1>11, Zenon

\* The holder of cs_main moves the tip: everyone else who validates must be able
\* to tell.
LEMMA TipMoves ==
  ASSUME Invariant, NEW t \in All, Moves(t), TypeOK', Grants',
         csMain = t, csMain' = t, pc'[t] \in Holding, ThreadOK(t)',
         \A u \in All \ {t} : Validating(u) /\ ~Stopped(u)' => nChainWork[tip'] > start[u],
         applied' = Chain[tip'], NotBlamedForInputs'
  PROVE  Invariant'
<1>1. pc[t] # "none" /\ pc'[t] # "none" /\ ~Validating(t)'
  <2>1. "none" \notin Holding
    BY DEF Holding
  <2>2. pc[t] # "none"
    BY <2>1, Names, Zenon DEF Invariant, Locks
  <2>3. ~Validating(t)'
    BY DEF Validating, Holding
  <2> QED BY <2>1, <2>2, <2>3, Zenon
<1>2. Held(t) /\ Queued(t) /\ Heeds(t)
  BY <1>1, NotBeside, Zenon DEF Held, Queued
<1>3. Locks' /\ MinerStops' /\ QueueExclusive'
  BY <1>2, LocksKept, MinerStopsKept, QueuesKept, Zenon DEF Invariant
<1>4. ASSUME NEW u \in All PROVE ThreadOK(u)'
  <2>1. CASE u = t
    BY <2>1, Zenon
  <2>2. CASE u # t
    <3>1. pc[u] \notin Holding
      <4>1. "none" \notin Holding
        BY DEF Holding
      <4> QED BY <2>2, <4>1, Names, Zenon DEF Invariant, Locks
    <3> QED BY <2>2, <3>1, ThreadRaced, Zenon DEF Invariant, Moves
  <2> QED BY <2>1, <2>2, Zenon
<1> QED BY <1>3, <1>4, Zenon DEF Invariant

\* Before the tip goes back every other validating thread has been stopped.
LEMMA DisconnectKeeps ==
  ASSUME Invariant, NEW t \in All, Disconnect(t)
  PROVE  Invariant'
<1>1. /\ pc[t] = "disconnect"
      /\ UNCHANGED <<handler, semPV, toCome, blk, cur, target, start, todo, seen, ok, result,
                     queue, hash, fIsValidating, nSeq, late, indexVars, dead>>
  BY Zenon DEF Disconnect, At
<1>2. /\ ThreadTypes /\ MapTypes /\ pc \in [All -> Labels] /\ fQuit \in [Threads -> BOOLEAN]
      /\ tip \in Blocks /\ forkActive \in BOOLEAN
  BY Typed, Zenon DEF ThreadTypes, MapTypes, OtherTypes
<1>3. csMain = t /\ pc[t] \notin {"none", "post"} /\ pc[t] \in Holding
  <2>1. pc[t] \in Holding
    BY <1>1, Zenon DEF Holding
  <2> QED BY <1>1, <2>1, Names, Zenon DEF Invariant, Locks
<1>4. /\ OnPath(t) /\ blk[t] \in Arriving \cup Mined /\ result[t] # "inputs"
      /\ tip \notin Chain[target[t]] /\ applied = Chain[tip]
  BY <1>1, <1>3, Zenon DEF Invariant, ThreadOK
<1>5. IndexTypes' /\ NotBlamedForInputs'
  BY <1>1, Typed, TypesKept, Zenon DEF indexVars, NotBlamedForInputs, Invariant
<1>6. CASE QuitReceived(t)
  <2>1. Leave(t) /\ UNCHANGED <<tip, applied, forkActive, fQuit>>
    BY <1>6, Zenon DEF Disconnect
  <2>2. /\ pc' \in [All -> Labels] /\ pc'[t] = "erase" /\ pc'[t] # "none"
        /\ \A u \in All \ {t} : pc'[u] = pc[u]
        /\ csMain' \in {None, t} /\ Held(t) /\ Queued(t)
        /\ pc'[t] \notin Holding /\ ~Validating(t)'
    BY <1>2, <2>1, LeaveIs
  <2>3. Moves(t)
    BY <1>1, <1>3, <2>1, <2>2, Zenon DEF Moves, Same
  <2>4. Heeds(t) /\ pc[t] # "none"
    BY <1>3, NotBeside, Zenon
  <2>5. ThreadOK(t)'
    BY <1>1, <1>4, <2>2, AtRest, Zenon
  <2>6. Grants' /\ semPV' \in 0 .. Cardinality(Threads)
    BY <1>1, <2>2, <2>4, Typed, GrantsKept, Zenon DEF Invariant
  <2>7. TypeOK'
    <3>1. ThreadTypes'
      BY <1>1, <1>2, <2>2, Zenon DEF ThreadTypes
    <3>2. MapTypes'
      BY <1>1, <1>2, <2>1, Zenon DEF MapTypes
    <3>3. OtherTypes'
      BY <1>1, <2>1, <2>2, Typed, Zenon DEF OtherTypes
    <3> QED BY <1>5, <2>6, <3>1, <3>2, <3>3, TypeGroups, Zenon
  <2> QED BY <1>5, <2>1, <2>2, <2>3, <2>4, <2>5, <2>6, <2>7, StepKeeps, Zenon
<1>7. CASE ~QuitReceived(t)
  <2> DEFINE label == IF tip' \in Chain[target[t]] THEN "connect" ELSE "disconnect"
  <2>1. /\ tip' = Parent[tip] /\ applied' = applied \ {tip} /\ csMain' = csMain
        /\ forkActive' = (forkActive \/ nHeight[tip'] = ForkHeight)
        /\ IF t \in Threads THEN fQuit' = Quitting(Registered \ {t}) ELSE fQuit' = fQuit
        /\ Goto(t, label)
    BY <1>7, Zenon DEF Disconnect, ActivateFork, fParallel, StopAllValidationThreads
  <2>2. label \in {"connect", "disconnect"} /\ (label = "disconnect" => tip' \notin Chain[target[t]])
    BY Zenon
  <2> HIDE DEF label
  <2>3. tip \in Blocks \ {Genesis}
    BY <1>2, <1>4, ChainEnds, Zenon DEF OnPath
  <2>4. tip' \in Blocks /\ applied' = Chain[tip']
    BY <1>4, <2>1, <2>3, ParentIsLess, Zenon
  <2>5. label \in Labels
    BY <2>2, Zenon DEF Labels
  <2>6. pc' \in [All -> Labels] /\ pc'[t] = label /\ \A u \in All \ {t} : pc'[u] = pc[u]
    BY <1>2, <2>1, <2>5, GotoIs, Zenon
  <2>7. /\ fQuit' \in [Threads -> BOOLEAN] /\ \A u \in Threads : fQuit[u] => fQuit'[u]
        /\ t \in Threads => \A u \in Registered \ {t} : fQuit'[u]
    BY <1>2, <2>1, Zenon DEF Quitting, Registered
  <2>8. Moves(t)
    BY <1>1, <2>1, <2>6, <2>7, Zenon DEF Moves, Same
  <2>9. pc'[t] \in Holding /\ ~Validating(t)' /\ pc'[t] \notin {"none", "commit", "next"}
    BY <2>2, <2>6, Zenon DEF Holding, Validating
  <2>10. ThreadOK(t)'
    <3>1. OnPath(t)'
      BY <1>1, <1>4, Zenon DEF OnPath
    <3>2. pc'[t] = "disconnect" => tip' \notin Chain[target'[t]]
      BY <1>1, <2>2, <2>6, Zenon
    <3> QED BY <1>1, <1>4, <2>9, <3>1, <3>2, Zenon DEF ThreadOK
  <2>11. ASSUME NEW u \in All \ {t}, Validating(u) PROVE Stopped(u)'
    <3>1. pc[u] \notin {"none", "start", "post"} /\ pc[u] \notin Fresh /\ pc[u] # "none"
      BY <2>11 DEF Validating, Fresh
    <3>2. u \in Threads
      BY <1>3, <3>1, Names, Zenon DEF Invariant, Locks
    <3>3. u \in Registered
      BY <3>1, <3>2, Zenon DEF Registered, InMap
    <3>4. CASE t \in Threads
      BY <2>7, <2>11, <3>2, <3>3, <3>4, Zenon DEF Stopped
    <3>5. CASE t = Miner
      BY <1>3, <2>7, <3>1, <3>2, <3>5, Zenon DEF Invariant, MinerStops, Stopped
    <3> QED BY <3>4, <3>5, Names, Zenon
  <2>12. Grants' /\ semPV' \in 0 .. Cardinality(Threads)
    BY <1>1, <1>3, <2>6, <2>9, Typed, GrantsKept, Zenon DEF Invariant
  <2>13. TypeOK'
    <3>1. ThreadTypes'
      BY <1>1, <1>2, <2>6, Zenon DEF ThreadTypes
    <3>2. MapTypes'
      BY <1>1, <1>2, <2>7, Zenon DEF MapTypes
    <3>3. applied' \subseteq Blocks /\ forkActive' \in BOOLEAN
      BY <2>1, <2>4, ChainIs, Zenon
    <3>4. OtherTypes'
      BY <1>1, <2>1, <2>4, <3>3, Typed, Zenon DEF OtherTypes
    <3> QED BY <1>5, <2>12, <3>1, <3>2, <3>4, TypeGroups, Zenon
  <2> QED BY <1>3, <1>5, <2>1, <2>4, <2>8, <2>9, <2>10, <2>11, <2>12, <2>13, TipMoves, Zenon
<1> QED BY <1>6, <1>7, Zenon

\* The tip grows: everyone else who validates sees more work than there was.
LEMMA CommitKeeps ==
  ASSUME Invariant, NEW t \in All, Commit(t)
  PROVE  Invariant'
<1>1. /\ pc[t] = "commit" /\ applied' = applied \cup {cur[t]} /\ Cleanup(t) /\ tip' = cur[t]
      /\ forkActive' = (forkActive \/ nHeight[tip'] = ForkHeight)
      /\ cand' = PruneBlockIndexCandidates(cand, tip', seq') /\ dead' \in BOOLEAN
      /\ Goto(t, "next")
      /\ UNCHANGED <<csMain, handler, semPV, toCome, blk, cur, target, start, todo, seen, ok,
                     result, mapVars, late, data, failed, blamed, nextSeq>>
  BY Zenon DEF Commit, At, ActivateFork
<1>2. /\ ThreadTypes /\ MapTypes /\ IndexTypes /\ pc \in [All -> Labels] /\ "next" \in Labels
      /\ start \in [All -> Nat] /\ tip \in Blocks /\ cand \in Seq(Blocks)
  BY Typed, Zenon DEF ThreadTypes, IndexTypes, OtherTypes, Labels
<1>3. csMain = t /\ pc[t] \notin {"none", "post"} /\ pc[t] \in Holding
  <2>1. pc[t] \in Holding
    BY <1>1, Zenon DEF Holding
  <2> QED BY <1>1, <2>1, Names, Zenon DEF Invariant, Locks
<1>4. /\ OnPath(t) /\ blk[t] \in Arriving \cup Mined /\ result[t] # "inputs"
      /\ Unchanged(t) /\ applied = Chain[tip]
  BY <1>1, <1>3, Zenon DEF Invariant, ThreadOK
<1>5. cur[t] \in Blocks \ {Genesis} /\ tip = Parent[cur[t]]
  BY <1>4, ChainIs, Zenon DEF OnPath, Unchanged
<1>6. nChainWork[tip] < nChainWork[tip'] /\ Chain[tip] = Chain[tip'] \ {tip'}
  BY <1>1, <1>5, ParentIsLess, Zenon
<1>7. tip' \in Blocks /\ applied' = Chain[tip']
  BY <1>1, <1>4, <1>5, <1>6, ChainEnds, Zenon
<1>8. pc' \in [All -> Labels] /\ pc'[t] = "next" /\ \A u \in All \ {t} : pc'[u] = pc[u]
  BY <1>1, <1>2, GotoIs, Zenon
<1>9. Moves(t)
  BY <1>1, <1>8, Zenon DEF Moves, Same, mapVars
<1>10. pc'[t] \in Holding /\ ~Validating(t)' /\ pc'[t] \notin {"none", "disconnect", "commit"}
  BY <1>8, Zenon DEF Holding, Validating
<1>11. ThreadOK(t)'
  <2>1. OnPath(t)' /\ cur'[t] = tip'
    BY <1>1, <1>4, Zenon DEF OnPath
  <2> QED BY <1>1, <1>4, <1>10, <2>1, Zenon DEF ThreadOK
<1>12. ASSUME NEW u \in All \ {t}, Validating(u), ~Stopped(u)' PROVE nChainWork[tip'] > start[u]
  <2>1. ~Stopped(u)
    BY <1>9, <1>12, Zenon DEF Moves, Same, Stopped
  <2>2. Racing(u)
    BY <1>12, Zenon DEF Invariant, ThreadOK
  <2>3. nChainWork[tip] > start[u] \/ nChainWork[tip] = start[u]
    BY <2>1, <2>2, Zenon DEF Racing, Unchanged
  <2>4. nChainWork[tip] \in Nat /\ nChainWork[tip'] \in Nat /\ start[u] \in Nat
    BY <1>2, <1>7, WorkIs, Zenon
  <2> QED BY <1>6, <2>3, <2>4
<1>13. Grants' /\ semPV' \in 0 .. Cardinality(Threads)
  BY <1>1, <1>3, <1>8, <1>10, Typed, GrantsKept, Zenon DEF Invariant
<1>14. TypeOK' /\ NotBlamedForInputs'
  <2>1. ThreadTypes'
    BY <1>1, <1>2, <1>8, Zenon DEF ThreadTypes
  <2>2. MapTypes'
    BY <1>1, <1>2, TypesKept, Zenon
  <2>3. seq' \in [Blocks -> Nat]
    BY <1>1, <1>2, <1>5, CleanupTypes, Zenon
  <2>4. cand' \in Seq(Blocks)
    BY <1>1, <1>2, PruneType, Zenon
  <2>5. IndexTypes'
    BY <1>1, <1>2, <2>3, <2>4, Zenon DEF IndexTypes
  <2>6. applied' \subseteq Blocks /\ forkActive' \in BOOLEAN
    BY <1>1, <1>7, ChainIs, Zenon
  <2>7. OtherTypes'
    BY <1>1, <1>7, <2>6, Typed, Zenon DEF OtherTypes
  <2>8. NotBlamedForInputs'
    BY <1>1, Zenon DEF NotBlamedForInputs, Invariant
  <2> QED BY <1>13, <2>1, <2>2, <2>5, <2>7, <2>8, TypeGroups, Zenon
<1> QED BY <1>1, <1>3, <1>7, <1>9, <1>10, <1>11, <1>12, <1>13, <1>14, TipMoves, Zenon

----------------------------------------------------------------------------
(* The theorems.                                                           *)

\* The invariant holds at first, when every thread is idle.
LEMMA InitInvariant == ASSUME Init PROVE Invariant
<1>1. InitTip \in Blocks /\ SideBlocks \subseteq Blocks /\ Chain[InitTip] \subseteq Blocks
  BY PVAssumption, ChainIs, Zenon
<1>2. \A t \in All : pc[t] = "none" /\ result[t] = "none"
  BY Zenon DEF Init
<1>3. ThreadTypes
  <2>1. /\ pc \in [All -> Labels] /\ blk \in [All -> Blocks \cup {None}]
        /\ cur \in [All -> Blocks \cup {None}] /\ target \in [All -> Blocks \cup {None}]
    BY Zenon DEF Init, Labels
  <2>2. start \in [All -> Nat] /\ todo \in [All -> 0 .. NChecks]
    <3>1. 0 \in Nat /\ 0 \in 0 .. NChecks
      BY PVAssumption
    <3>2. start = [t \in All |-> 0] /\ todo = [t \in All |-> 0]
      BY Zenon DEF Init
    <3> QED BY <3>1, <3>2, Zenon
  <2>3. /\ seen \in [All -> SUBSET BOOLEAN] /\ ok \in [All -> BOOLEAN]
        /\ result \in [All -> {"none", "ok", "stop", "inputs", "scripts"}]
    BY Zenon DEF Init
  <2> QED BY <2>1, <2>2, <2>3, Zenon DEF ThreadTypes
<1>4. MapTypes
  <2>1. queue = [t \in All |-> 0] /\ nSeq = [t \in Threads |-> 0]
    BY Zenon DEF Init
  <2>2. queue \in [All -> Queues \cup {0}] /\ nSeq \in [Threads -> Nat \cup {-1}]
    BY <2>1
  <2>3. /\ hash \in [Threads -> Blocks \cup {None}] /\ fQuit \in [Threads -> BOOLEAN]
        /\ fIsValidating \in [Threads -> BOOLEAN]
    BY Zenon DEF Init
  <2> QED BY <2>2, <2>3, Zenon DEF MapTypes
<1>5. IndexTypes
  <2>1. /\ seq = [b \in Blocks |-> 0] /\ nextSeq = 1 /\ cand = <<InitTip>>
        /\ blamed = [b \in Blocks |-> "not"]
    BY Zenon DEF Init
  <2>2. seq \in [Blocks -> Nat] /\ nextSeq \in Nat
    BY <2>1
  <2>3. cand \in Seq(Blocks)
    BY <1>1, <2>1
  <2>4. blamed \in [Blocks -> {"not", "inputs", "scripts", "parent"}]
    BY <2>1, Zenon
  <2>5. data \subseteq Blocks /\ failed \subseteq Blocks
    BY <1>1, Zenon DEF Init
  <2> QED BY <2>2, <2>3, <2>4, <2>5, Zenon DEF IndexTypes
<1>6. OtherTypes
  <2>1. forkActive = (nHeight[InitTip] >= ForkHeight)
    BY Zenon DEF Init
  <2>2. forkActive \in BOOLEAN
    BY <2>1, SMT
  <2> QED BY <1>1, <2>2, Zenon DEF Init, OtherTypes
<1>7. Grants /\ semPV \in 0 .. Cardinality(Threads)
  <2>1. Idle = Threads
    BY <1>2, Names, Zenon DEF Idle
  <2>2. semPV = Cardinality(Threads)
    BY Zenon DEF Init
  <2> QED BY <2>1, <2>2, ThreadCount DEF Grants
<1>8. TypeOK
  BY <1>3, <1>4, <1>5, <1>6, <1>7, TypeGroups, Zenon
<1>9. \A t \in All : pc[t] \notin Holding /\ ~Validating(t)
                      /\ pc[t] \notin {"disconnect", "commit", "next"}
  BY <1>2, Zenon DEF Holding, Validating
<1>10. Locks
  <2>1. csMain = None
    BY Zenon DEF Init
  <2> QED BY <1>2, <1>9, <2>1, Names, Zenon DEF Locks
<1>11. QueueExclusive /\ MinerStops
  BY <1>2, <1>9, Names, Zenon DEF QueueExclusive, MinerStops
<1>12. ASSUME NEW t \in All PROVE ThreadOK(t)
  BY <1>2, <1>9, Zenon DEF ThreadOK
<1>13. applied = Chain[tip]
  BY Zenon DEF Init
<1>14. NotBlamedForInputs
  BY Zenon DEF Init, NotBlamedForInputs
<1> QED BY <1>7, <1>8, <1>10, <1>11, <1>12, <1>13, <1>14, Zenon DEF Invariant

\* Every step of every thread keeps the invariant.
LEMMA NextInvariant == Invariant /\ [Next]_vars => Invariant'
<1> SUFFICES ASSUME Invariant, [Next]_vars PROVE Invariant'
  BY Zenon
<1>1. ASSUME NEW t \in All, Step(t) PROVE Invariant'
  <2>1. CASE InitThread(t) \/ AcceptBlock(t) \/ Erase(t) \/ Post(t)
    BY <2>1, InitThreadKeeps, AcceptBlockKeeps, EraseKeeps, PostKeeps, Zenon
  <2>2. CASE ActivateBestChain(t) \/ Disconnect(t) \/ Connect(t)
    BY <2>2, ActivateBestChainKeeps, DisconnectKeeps, ConnectKeeps, Zenon
  <2>3. CASE InputsMissing(t) \/ InputsFound(t) \/ Missing(t) \/ RunCheck(t) \/ Wait(t)
    BY <2>3, InputsMissingKeeps, InputsFoundKeeps, MissingKeeps, RunCheckKeeps, WaitKeeps, Zenon
  <2>4. CASE Win(t) \/ Lose(t) \/ Commit(t) \/ NextBlock(t)
    BY <2>4, WinKeeps, LoseKeeps, CommitKeeps, NextBlockKeeps, Zenon
  <2> QED BY <1>1, <2>1, <2>2, <2>3, <2>4, Zenon DEF Step
<1>2. ASSUME NEW b \in Blocks, NewBlock(b) PROVE Invariant'
  BY <1>2, MessagesKeep, MineBlockKeeps, Zenon DEF NewBlock
<1>3. CASE UNCHANGED vars
  <2>1. /\ UNCHANGED <<threadVars, semPV, indexVars, chainVars>>
        /\ UNCHANGED <<csMain, queue, hash, fIsValidating, nSeq>>
        /\ UNCHANGED fQuit /\ UNCHANGED <<handler, toCome, late, dead>>
    BY <1>3, Zenon DEF vars, mapVars
  <2>2. OtherTypes'
    BY <2>1, Typed, Zenon DEF OtherTypes, chainVars
  <2>3. fQuit' \in [Threads -> BOOLEAN]
    BY <2>1, Typed, Zenon DEF MapTypes
  <2> QED BY <2>1, <2>2, <2>3, QuietKeeps, Zenon
<1> QED BY <1>1, <1>2, <1>3, GrantHandlerKeeps, WorkersRestKeeps, Zenon DEF Next, Progress

\* The invariant holds throughout.
LEMMA Always == Spec => []Invariant
<1>1. Init => Invariant
  BY InitInvariant
<1> QED BY <1>1, NextInvariant, PTL DEF Spec

\* Every variable of the threads, of mapBlockValidationThreads, of the block index
\* and of the semaphore keeps its type.
THEOREM TypeCorrect == Spec => []TypeOK
<1>1. Invariant => TypeOK
  BY Zenon DEF Invariant
<1> QED BY <1>1, Always, PTL

\* pcoinsTip holds the coins of the active chain whenever cs_main is free, for any
\* number of threads that race, any tree of blocks and any amounts of work: a
\* thread that has not been stopped and sees the work it began with is on the tip
\* it began with.
THEOREM CoinsCorrect == Spec => []CoinsMatchTip
<1>1. Invariant => CoinsMatchTip
  BY Zenon DEF Invariant, CoinsMatchTip
<1> QED BY <1>1, Always, PTL

\* Two threads never use one script check queue, the miner included.
THEOREM QueuesCorrect == Spec => []QueueExclusive
<1>1. Invariant => QueueExclusive
  BY Zenon DEF Invariant
<1> QED BY <1>1, Always, PTL

\* The checks of a block that is connected all read the fork flag that is in force
\* when it is connected.
THEOREM OneRuleCorrect == Spec => []CheckedUnderOneRule
<1>1. Invariant => CheckedUnderOneRule
  BY Zenon DEF Invariant, ThreadOK, Unchanged, CheckedUnderOneRule
<1> QED BY <1>1, Always, PTL

\* No block is marked invalid for inputs that another block took.
THEOREM NotBlamedCorrect == Spec => []NotBlamedForInputs
<1>1. Invariant => NotBlamedForInputs
  BY Zenon DEF Invariant
<1> QED BY <1>1, Always, PTL
=============================================================================
