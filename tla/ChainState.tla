----------------------------- MODULE ChainState -----------------------------
(***************************************************************************)
(* The chain state of main.cpp as one thread drives it under cs_main: the  *)
(* block index, the candidates for the best chain, the active chain with   *)
(* its coins, and their copies on disk.  Blocks are stored in any order,   *)
(* the best chain is activated block by block, an operator may mark blocks *)
(* invalid and take that back, and the process may end between any two     *)
(* writes to disk.                                                         *)
(***************************************************************************)
EXTENDS BlockTree, CoinsView, FiniteSetsExt, SequencesExt, TLC

CONSTANTS
    None,
    Txs,            \* the transactions of each block, the coinbase first
    BadScripts,     \* blocks that ConnectBlock finds invalid
    BadForm,        \* blocks that ContextualCheckBlock finds invalid
    Excessive,      \* blocks above the excessive size
    excessiveAcceptDepth,
    EXCESSIVE_BLOCK_CHAIN_RESET,
    InitCoins,      \* coins unspent at Genesis, where the modelled chain begins
    HeadersFirst,   \* blocks whose header may come before their data
    Looked,         \* transactions whose coins the memory pool looks at
    MaxCalls,       \* calls of invalidateblock and reconsiderblock
    MaxStops        \* crashes, shutdowns and failed writes

ASSUME ChainAssumption ==
    /\ None \notin Blocks
    /\ \A b \in Blocks \ {Genesis} :
          /\ Txs[b] \in Seq([id : Txids, vin : SUBSET Txids])
          /\ Txs[b][1].vin = {}
    /\ {nHeight[b] : b \in Blocks} \subseteq Coins
    /\ InitCoins \in [Txids -> Coins \cup {Absent}]
    /\ excessiveAcceptDepth \in Nat /\ EXCESSIVE_BLOCK_CHAIN_RESET \in Nat
    /\ HeadersFirst \subseteq Blocks /\ Looked \subseteq Txids

VARIABLES
    pc, invalid, target,    \* where the thread is, and the block it works towards
    status,                 \* nStatus, as the set of flags
    linked,                 \* blocks whose nChainTx is set
    unlinked,               \* mapBlocksUnlinked
    seq, nextSeq, cand,     \* nSequenceId, nBlockSequenceId, setBlockIndexCandidates
    dirty,                  \* setDirtyBlockIndex
    tip,                    \* chainActive.Tip()
    cache, best,            \* pcoinsTip: cacheCoins and hashBlock
    rev,                    \* undo data, by block
    db, dbBest, dbStatus,   \* the coin database and the block index database
    calls, stops,
    settled,                \* the last ActivateBestChain succeeded
    reconsidered,           \* ReconsiderBlock has been called
    torn,                   \* a block's coins went in without its undo data
    aborted                 \* the assertion in PruneBlockIndexCandidates failed

memory  == <<pc, invalid, target, status, linked, unlinked, seq, nextSeq, cand,
             dirty, tip, cache, best>>
disk    == <<rev, db, dbBest, dbStatus>>
history == <<calls, stops, settled, reconsidered, torn, aborted>>
vars == <<memory, disk, history>>

Flags == {"known", "data", "undo", "failedValid", "failedChild"}
With(flag) == {b \in Blocks : flag \in status[b]}
Failed == With("failedValid") \cup With("failedChild")
Set(st, bs, flag) == [b \in Blocks |-> st[b] \cup IF b \in bs THEN {flag} ELSE {}]
Clear(st, bs) ==
    [b \in Blocks |-> st[b] \ IF b \in bs THEN {"failedValid", "failedChild"} ELSE {}]

----------------------------------------------------------------------------
(* Coins: what connecting and disconnecting a block does to pcoinsTip.     *)

pcoins == GetCoins(cache, db)

Vin(b) == UNION {Txs[b][i].vin : i \in DOMAIN Txs[b]}
Ids(b) == {Txs[b][i].id : i \in DOMAIN Txs[b]}

\* The view on top of pcoinsTip fills pcoinsTip with what it looks up.
Fetched(ks) == FoldSet(LAMBDA k, c : FetchCoins(c, db, k), cache, ks)

ModifyAll(view, ks, content) ==
    FoldSet(LAMBDA k, v : ModifyCoins(v, pcoins, k, content[k]), view, ks)

\* Mutant: the undo data does not record the height of the coin that was spent.
UpdateCoinsNoHeight(acc, tx, h) ==
    LET seen  == GetCoins(acc.view, pcoins)
        spent == ModifyAll(acc.view, tx.vin, [k \in tx.vin |-> Pruned])
    IN  [view |-> IF tx.vin = {} THEN ModifyCoins(spent, pcoins, tx.id, h)
                  ELSE ModifyNewCoins(spent, tx.id, h),
         undo |-> acc.undo @@ [k \in tx.vin |-> h],
         ok   |-> acc.ok /\ \A k \in tx.vin : ~IsPruned(seen[k])]

\* UpdateCoins, after HaveInputs; a coinbase goes through ModifyCoins.
UpdateCoins(acc, tx, h) ==
    LET seen  == GetCoins(acc.view, pcoins)
        spent == ModifyAll(acc.view, tx.vin, [k \in tx.vin |-> Pruned])
    IN  [view |-> IF tx.vin = {} THEN ModifyCoins(spent, pcoins, tx.id, h)
                  ELSE ModifyNewCoins(spent, tx.id, h),
         undo |-> acc.undo @@ [k \in tx.vin |-> seen[k]],
         ok   |-> acc.ok /\ \A k \in tx.vin : ~IsPruned(seen[k])]

ConnectCoins(b) ==
    FoldLeft(LAMBDA acc, tx : UpdateCoins(acc, tx, nHeight[b]),
             [view |-> EmptyCache, undo |-> <<>>, ok |-> b \notin BadScripts], Txs[b])

\* DisconnectBlock: transactions in reverse order, outputs out and inputs back in.
DisconnectCoins(b) ==
    FoldRight(LAMBDA tx, v : ModifyAll(ModifyCoins(v, pcoins, tx.id, Pruned), tx.vin, rev[b]),
              Txs[b], EmptyCache)

----------------------------------------------------------------------------
Init ==
    /\ pc = "idle" /\ invalid = None /\ target = None
    /\ status = [b \in Blocks |-> IF b = Genesis THEN {"known", "data"} ELSE {}]
    /\ linked = {Genesis} /\ unlinked = {}
    /\ seq = [b \in Blocks |-> 0] /\ nextSeq = 1 /\ cand = <<Genesis>>
    /\ dirty = {}
    /\ tip = Genesis /\ best = Genesis /\ cache = EmptyCache
    /\ rev = [b \in Blocks |-> <<>>]
    /\ db = InitCoins /\ dbBest = Genesis /\ dbStatus = status
    /\ calls = 0 /\ stops = 0
    /\ settled = TRUE /\ reconsidered = FALSE /\ torn = FALSE /\ aborted = FALSE

----------------------------------------------------------------------------
(* Blocks and headers arrive.                                              *)

\* AcceptBlockHeader lets b pass: it is known and not failed, or it is new and
\* its parent is known and not failed.
HeaderOK(b) ==
    /\ b # Genesis
    /\ LET a == IF b \in With("known") THEN b ELSE Parent[b]
       IN  a \in With("known") \ Failed

AcceptBlockHeader(b) ==
    /\ pc = "idle"
    /\ b \in HeadersFirst \ With("known") /\ HeaderOK(b)
    /\ status' = Set(status, {b}, "known")
    /\ dirty' = dirty \cup {b}
    /\ UNCHANGED <<pc, invalid, target, linked, unlinked, seq, nextSeq, cand, tip,
                   cache, best, disk, history>>

\* Blocks that wait in mapBlocksUnlinked for b, directly or through each other.
Waiting(b) ==
    {d \in Blocks \ {b} : b \in Chain[d] /\
        \A a \in (Chain[d] \ Chain[b]) : <<Parent[a], a>> \in unlinked}

\* Mutant: only the block itself is linked, not those that waited for it.
LinkedByAlone(b) == IF Parent[b] \in linked THEN {b} ELSE {}

LinkedBy(b) == IF Parent[b] \in linked THEN {b} \cup Waiting(b) ELSE {}

\* ReceivedBlockTransactions; parents are linked before their children.
ReceivedBlockTransactions(b) ==
    LET new == LinkedBy(b)
    IN  \E order \in {s \in SetToSeqs(new) : \A i, j \in DOMAIN s :
                          nHeight[s[i]] < nHeight[s[j]] => i < j} :
          /\ linked' = linked \cup new
          /\ seq' = [d \in Blocks |->
                       IF d \in new THEN nextSeq + (CHOOSE i \in DOMAIN order : order[i] = d) - 1
                       ELSE seq[d]]
          /\ nextSeq' = nextSeq + Cardinality(new)
          /\ cand' = FoldLeft(LAMBDA c, d : IF Worse(d, tip, seq') THEN c
                                            ELSE InsertCandidate(c, d, seq'), cand, order)
          /\ unlinked' =
               IF new # {} THEN {p \in unlinked : p[1] \notin new}
               ELSE unlinked \cup {<<Parent[b], b>> : x \in {Parent[b]} \ Failed}

\* ProcessNewBlock of a requested block: AcceptBlock, then ActivateBestChain.
ProcessNewBlock(b) ==
    /\ pc = "idle"
    /\ HeaderOK(b) /\ b \notin With("data") \cup BadForm
    /\ status' = Set(Set(status, {b}, "known"), {b}, "data")
    /\ dirty' = dirty \cup {b}
    /\ ReceivedBlockTransactions(b)
    /\ pc' = "find"
    /\ UNCHANGED <<invalid, target, tip, cache, best, disk, history>>

\* A block whose data is stored already: AcceptBlock leaves it at that.
ProcessStoredBlock(b) ==
    /\ pc = "idle"
    /\ HeaderOK(b) /\ b \in With("data")
    /\ pc' = "find"
    /\ UNCHANGED <<invalid, target, status, linked, unlinked, seq, nextSeq, cand, dirty,
                   tip, cache, best, disk, history>>

\* AcceptBlock of a block that is not well formed: its header stays, marked.
RefuseBlock(b) ==
    /\ pc = "idle"
    /\ HeaderOK(b) /\ b \in BadForm
    /\ status' = Set(Set(status, {b}, "known"), {b}, "failedValid")
    /\ dirty' = dirty \cup {b}
    /\ UNCHANGED <<pc, invalid, target, linked, unlinked, seq, nextSeq, cand, tip,
                   cache, best, disk, history>>

----------------------------------------------------------------------------
(* FindMostWorkChain: one candidate after the other.                       *)

Depth(c, b) == nHeight[c] - nHeight[b]
Off(c) == Chain[c] \ Chain[tip]

\* The walk from candidate c stops at a failed or a recent excessive block.
Stops(c) ==
    {b \in Off(c) : \/ b \in Failed
                    \/ b \in Excessive /\ Depth(c, b) < excessiveAcceptDepth}
StopsAt(c) == CHOOSE b \in Stops(c) : \A a \in Stops(c) : nHeight[a] <= nHeight[b]

\* An excessive block further back has made this chain acceptable before.
fOldExcessive(c) ==
    \E b \in Chain[c] \cap Excessive :
        /\ Depth(c, b) >= excessiveAcceptDepth
        /\ Depth(c, b) < excessiveAcceptDepth + EXCESSIVE_BLOCK_CHAIN_RESET

Rejected(c) == Stops(c) # {} /\ (StopsAt(c) \in Failed \/ ~fOldExcessive(c))

Best == cand[Len(cand)]

\* Mutant: only the block at which the walk stopped is no longer a candidate.
FindRejectStop ==
    /\ pc \in {"find", "more"} /\ cand # <<>> /\ Rejected(Best)
    /\ LET stop == StopsAt(Best)
           over == {b \in Off(Best) : nHeight[b] > nHeight[stop]}
       IN  /\ cand' = EraseCandidate(cand, stop)
           /\ IF stop \in Failed
              THEN status' = Set(status, over, "failedChild") /\ UNCHANGED unlinked
              ELSE /\ unlinked' = unlinked \cup {<<Parent[b], b>> : b \in over}
                   /\ UNCHANGED status
    /\ UNCHANGED <<pc, invalid, target, linked, seq, nextSeq, dirty, tip, cache,
                   best, disk, history>>

\* The best candidate is given up, with what was walked over on the way.
FindReject ==
    /\ pc \in {"find", "more"} /\ cand # <<>> /\ Rejected(Best)
    /\ LET stop == StopsAt(Best)
           over == {b \in Off(Best) : nHeight[b] > nHeight[stop]}
       IN  /\ cand' = Erased(cand, over \cup {stop})
           /\ IF stop \in Failed
              THEN status' = Set(status, over, "failedChild") /\ UNCHANGED unlinked
              ELSE /\ unlinked' = unlinked \cup {<<Parent[b], b>> : b \in over}
                   /\ UNCHANGED status
    /\ UNCHANGED <<pc, invalid, target, linked, seq, nextSeq, dirty, tip, cache,
                   best, disk, history>>

\* ActivateBestChain has nothing to do.
FindNothing ==
    /\ pc = "find"
    /\ cand # <<>> => ~Rejected(Best) /\ nChainWork[Best] <= nChainWork[tip]
    /\ pc' = "idle" /\ settled' = TRUE
    /\ UNCHANGED <<invalid, target, status, linked, unlinked, seq, nextSeq, cand,
                   dirty, tip, cache, best, disk, calls, stops, reconsidered, torn, aborted>>

FindBetter ==
    /\ pc = "find" /\ cand # <<>> /\ ~Rejected(Best)
    /\ nChainWork[Best] > nChainWork[tip]
    /\ pc' = "step" /\ target' = Best
    /\ UNCHANGED <<invalid, status, linked, unlinked, seq, nextSeq, cand, dirty, tip,
                   cache, best, disk, history>>

----------------------------------------------------------------------------
(* ActivateBestChainStep: disconnect to the fork, then connect.            *)

\* DisconnectTip, up to the flush.
Disconnect ==
    /\ best = tip /\ "undo" \in status[tip]
    /\ cache' = BatchWrite(DisconnectCoins(tip), Fetched(Ids(tip) \cup Vin(tip)))
    /\ best' = Parent[tip]
    /\ pc' = "write"

StepBack ==
    /\ pc = "step" /\ tip \notin Chain[target]
    /\ Disconnect
    /\ UNCHANGED <<invalid, target, status, linked, unlinked, seq, nextSeq, cand,
                   dirty, tip, disk, history>>

NextBlock == GetAncestor(target, nHeight[tip] + 1)
Connecting == pc = "step" /\ tip \in Chain[target] /\ tip # target /\ best = tip
Result == ConnectCoins(NextBlock)
Looks(b) == Fetched((Vin(b) \ Ids(b)) \cup {Txs[b][1].id})

\* ConnectTip, up to the flush.  Undo data is written once for a block.
ConnectTip ==
    /\ Connecting /\ Result.ok
    /\ cache' = BatchWrite(Result.view, Looks(NextBlock))
    /\ best' = NextBlock
    /\ IF "undo" \in status[NextBlock] THEN UNCHANGED <<rev, status, dirty>>
       ELSE /\ rev' = [rev EXCEPT ![NextBlock] = Result.undo]
            /\ status' = Set(status, {NextBlock}, "undo")
            /\ dirty' = dirty \cup {NextBlock}
    /\ pc' = "write"
    /\ UNCHANGED <<invalid, target, linked, unlinked, seq, nextSeq, cand, tip, db,
                   dbBest, dbStatus, history>>

\* The undo data cannot be written: AbortNode asks for a shutdown.  The coins are
\* in pcoinsTip, and the best block is what the temporary view had, if anything.
UndoWriteFails ==
    /\ Connecting /\ Result.ok /\ "undo" \notin status[NextBlock]
    /\ stops < MaxStops /\ stops' = stops + 1
    /\ cache' = BatchWrite(Result.view, Looks(NextBlock))
    /\ best' = IF Len(Txs[NextBlock]) = 1 THEN None ELSE tip
    /\ torn' = TRUE /\ settled' = FALSE /\ pc' = "exit" /\ target' = None
    /\ UNCHANGED <<invalid, status, linked, unlinked, seq, nextSeq, cand,
                   dirty, tip, disk, calls, reconsidered, aborted>>

\* InvalidBlockFound; ActivateBestChain returns with the chain where it got to.
ConnectFails ==
    /\ Connecting /\ ~Result.ok
    /\ cache' = Looks(NextBlock)
    /\ status' = Set(status, {NextBlock}, "failedValid")
    /\ dirty' = dirty \cup {NextBlock}
    /\ cand' = EraseCandidate(cand, NextBlock)
    /\ pc' = "idle" /\ target' = None /\ settled' = FALSE
    /\ UNCHANGED <<invalid, linked, unlinked, seq, nextSeq, tip, best, disk, calls,
                   stops, reconsidered, torn, aborted>>

\* UpdateTip, and PruneBlockIndexCandidates after a block was connected.
UpdateTip ==
    /\ pc = "tip"
    /\ tip' = best
    /\ cand' = IF nHeight[best] > nHeight[tip]
               THEN PruneBlockIndexCandidates(cand, best, seq) ELSE cand
    /\ pc' = IF invalid # None THEN "invalidate" ELSE IF best = target THEN "more" ELSE "step"
    /\ UNCHANGED <<invalid, target, status, linked, unlinked, seq, nextSeq, dirty,
                   cache, best, disk, history>>

\* At the target: FindMostWorkChain once more, then the periodic flush.
TargetReached ==
    /\ pc = "more" /\ cand # <<>> /\ ~Rejected(Best)
    /\ nHeight[Best] <= nHeight[tip]
    /\ pc' = "periodic" /\ target' = None /\ settled' = TRUE
    /\ UNCHANGED <<invalid, status, linked, unlinked, seq, nextSeq, cand, dirty, tip,
                   cache, best, disk, calls, stops, reconsidered, torn, aborted>>

----------------------------------------------------------------------------
(* FlushStateToDisk: the block index first, then the coins.                *)

\* Where the thread goes on after a flush.
After == CASE pc \in {"write", "coins"} -> "tip"
           [] pc \in {"periodic", "coinsPeriodic"} -> "idle"
           [] pc \in {"exit", "coinsExit"} -> "down"

SkipFlush ==
    /\ pc \in {"write", "periodic"}
    /\ pc' = After
    /\ UNCHANGED <<invalid, target, status, linked, unlinked, seq, nextSeq, cand,
                   dirty, tip, cache, best, disk, history>>

\* Mutant: the block index is left for later.
WriteIndexLater ==
    /\ pc \in {"write", "periodic", "exit"}
    /\ pc' \in CASE pc = "write" -> {"coins"}
                 [] pc = "periodic" -> {"coinsPeriodic", "idle"}
                 [] pc = "exit" -> {"coinsExit"}
    /\ UNCHANGED <<invalid, target, status, linked, unlinked, seq, nextSeq, cand, tip,
                   dirty, cache, best, disk, history>>

\* PERIODIC may end after the index (fPeriodicWrite); the other modes go on.
WriteIndex ==
    /\ pc \in {"write", "periodic", "exit"}
    /\ dbStatus' = [b \in Blocks |-> IF b \in dirty THEN status[b] ELSE dbStatus[b]]
    /\ dirty' = {}
    /\ pc' \in CASE pc = "write" -> {"coins"}
                 [] pc = "periodic" -> {"coinsPeriodic", "idle"}
                 [] pc = "exit" -> {"coinsExit"}
    /\ UNCHANGED <<invalid, target, status, linked, unlinked, seq, nextSeq, cand, tip,
                   cache, best, rev, db, dbBest, history>>

\* pcoinsTip->Flush: one batch, with the best block unless it is null.
FlushCoins ==
    /\ pc \in {"coins", "coinsPeriodic", "coinsExit"}
    /\ db' = BatchWriteDB(cache, db)
    /\ dbBest' = IF best = None THEN dbBest ELSE best
    /\ cache' = EmptyCache
    /\ pc' = After
    /\ UNCHANGED <<invalid, target, status, linked, unlinked, seq, nextSeq, cand,
                   dirty, tip, best, rev, dbStatus, history>>

\* AcceptToMemoryPool looks at a coin, and forgets it if the transaction is refused
\* and the coin was not cached before.  After a message the periodic flush follows,
\* after a call of sendrawtransaction it does not.
AcceptToMemoryPool(k) ==
    /\ pc = "idle"
    /\ LET seen == FetchCoins(cache, db, k)
       IN  cache' \in {seen, IF Has(cache, k) THEN seen ELSE Uncache(seen, k)}
    /\ pc' \in {"idle", "periodic"}
    /\ UNCHANGED <<invalid, target, status, linked, unlinked, seq, nextSeq, cand,
                   dirty, tip, best, disk, history>>

----------------------------------------------------------------------------
(* The operator's calls.                                                   *)

InvalidateBlock(b) ==
    /\ pc = "idle" /\ calls < MaxCalls /\ calls' = calls + 1
    /\ b \in With("known") \ {Genesis}
    /\ status' = Set(status, {b}, "failedValid")
    /\ dirty' = dirty \cup {b}
    /\ cand' = EraseCandidate(cand, b)
    /\ invalid' = b /\ pc' = "invalidate"
    /\ UNCHANGED <<target, linked, unlinked, seq, nextSeq, tip, cache, best, disk,
                   stops, settled, reconsidered, torn, aborted>>

InvalidateTip ==
    /\ pc = "invalidate" /\ invalid \in Chain[tip]
    /\ status' = Set(status, {tip}, "failedChild")
    /\ dirty' = dirty \cup {tip}
    /\ cand' = EraseCandidate(cand, tip)
    /\ Disconnect
    /\ UNCHANGED <<invalid, target, linked, unlinked, seq, nextSeq, tip, disk, history>>

\* Mutant: the blocks that are best now are not made candidates again.
InvalidateDoneOnly ==
    /\ pc = "invalidate" /\ invalid \notin Chain[tip]
    /\ cand' = cand
    /\ invalid' = None /\ pc' = "find"
    /\ UNCHANGED <<target, status, linked, unlinked, seq, nextSeq, dirty, tip, cache,
                   best, disk, history>>

\* Every usable block that is no worse than the tip becomes a candidate.
InvalidateDone ==
    /\ pc = "invalidate" /\ invalid \notin Chain[tip]
    /\ cand' = FoldSet(LAMBDA b, c : InsertCandidate(c, b, seq), cand,
                       {b \in linked \ Failed : ~Worse(b, tip, seq)})
    /\ invalid' = None /\ pc' = "find"
    /\ UNCHANGED <<target, status, linked, unlinked, seq, nextSeq, dirty, tip, cache,
                   best, disk, history>>

ReconsiderBlock(b) ==
    /\ pc = "idle" /\ calls < MaxCalls /\ calls' = calls + 1
    /\ b \in With("known")
    /\ LET below == {d \in Failed : b \in Chain[d]}
           above == Chain[b] \cap Failed
       IN  /\ status' = Clear(status, below \cup above)
           /\ dirty' = dirty \cup below \cup above
           /\ cand' = FoldSet(LAMBDA d, c : InsertCandidate(c, d, seq), cand,
                              {d \in below \cap linked : Worse(tip, d, seq)})
    /\ reconsidered' = TRUE /\ pc' = "find"
    /\ UNCHANGED <<invalid, target, linked, unlinked, seq, nextSeq, tip, cache, best,
                   disk, stops, settled, torn, aborted>>

----------------------------------------------------------------------------
(* The process ends and starts again.                                      *)

\* Shutdown flushes everything.
Shutdown ==
    /\ pc = "idle" /\ stops < MaxStops /\ stops' = stops + 1
    /\ pc' = "exit"
    /\ UNCHANGED <<invalid, target, status, linked, unlinked, seq, nextSeq, cand,
                   dirty, tip, cache, best, disk, calls, settled, reconsidered, torn, aborted>>

\* Power is lost.  What memory held is gone; rev files without index entry too.
Crash ==
    /\ pc # "down" /\ stops < MaxStops /\ stops' = stops + 1
    /\ pc' = "down" /\ invalid' = None /\ target' = None
    /\ status' = dbStatus /\ linked' = {} /\ unlinked' = {}
    /\ seq' = [b \in Blocks |-> 0] /\ nextSeq' = 1 /\ cand' = <<>> /\ dirty' = {}
    /\ tip' = dbBest /\ best' = dbBest /\ cache' = EmptyCache
    /\ rev' = [b \in Blocks |-> IF "undo" \in dbStatus[b] THEN rev[b] ELSE <<>>]
    /\ UNCHANGED <<db, dbBest, dbStatus, calls, settled, reconsidered, torn, aborted>>

\* LoadBlockIndexDB, then ActivateBestChain.
Start ==
    /\ pc = "down"
    /\ LET data == {b \in Blocks : "data" \in dbStatus[b]}
           all  == {b \in data : Chain[b] \subseteq data}
           none == [b \in Blocks |-> 0]
           good == {b \in all : dbStatus[b] \cap {"failedValid", "failedChild"} = {}}
       IN  /\ linked' = all
           /\ unlinked' = {<<Parent[b], b>> : b \in {d \in data \ {Genesis} : Parent[d] \notin all}}
           /\ seq' = none /\ nextSeq' = 1
           /\ cand' = PruneBlockIndexCandidates(
                        FoldSet(LAMBDA b, c : InsertCandidate(c, b, none), <<>>, good), dbBest, none)
    /\ status' = dbStatus /\ dirty' = {}
    /\ tip' = dbBest /\ best' = dbBest /\ cache' = EmptyCache
    /\ aborted' = (cand' = <<>>)
    /\ pc' = IF aborted' THEN "down" ELSE "find"
    /\ UNCHANGED <<invalid, target, disk, calls, stops, settled, reconsidered, torn>>

----------------------------------------------------------------------------
Progress ==
    \/ FindReject \/ FindNothing \/ FindBetter
    \/ StepBack \/ ConnectTip \/ ConnectFails \/ UpdateTip \/ TargetReached
    \/ SkipFlush \/ WriteIndex \/ FlushCoins
    \/ InvalidateTip \/ InvalidateDone

Environment ==
    \/ \E b \in Blocks : \/ AcceptBlockHeader(b) \/ RefuseBlock(b)
                         \/ ProcessNewBlock(b) \/ ProcessStoredBlock(b)
                         \/ InvalidateBlock(b) \/ ReconsiderBlock(b)
    \/ \E k \in Looked : AcceptToMemoryPool(k)
    \/ Shutdown \/ Crash \/ UndoWriteFails \/ Start

Next == Progress \/ Environment

Spec == Init /\ [][Next]_vars

----------------------------------------------------------------------------
(* Properties.                                                             *)

Places == {"idle", "find", "step", "write", "coins", "tip", "more", "periodic",
           "coinsPeriodic", "exit", "coinsExit", "invalidate", "down"}

\* The variables have their types.
TypeOK ==
    /\ pc \in Places
    /\ {invalid, target, best} \subseteq Blocks \cup {None}
    /\ {tip, dbBest} \subseteq Blocks
    /\ status \in [Blocks -> SUBSET Flags] /\ dbStatus \in [Blocks -> SUBSET Flags]
    /\ linked \subseteq Blocks /\ dirty \subseteq Blocks
    /\ unlinked \subseteq Blocks \X Blocks
    /\ seq \in [Blocks -> Nat] /\ nextSeq \in Nat /\ cand \in Seq(Blocks)
    /\ cache \in Caches /\ db \in [Txids -> Coins \cup {Absent}]
    /\ calls \in 0 .. MaxCalls /\ stops \in 0 .. MaxStops
    /\ {settled, reconsidered, torn, aborted} \subseteq BOOLEAN

\* Reference: the coins that the chain ending in b leaves unspent.
UTXO[b \in Blocks] ==
    IF b = Genesis THEN InitCoins
    ELSE [k \in Txids |-> IF k \in Vin(b) THEN Absent
                          ELSE IF k \in Ids(b) THEN nHeight[b]
                          ELSE UTXO[Parent[b]][k]]

Promise == INSTANCE Ledger WITH coins <- Unspent(pcoins),
                                diskBest <- dbBest, diskCoins <- db

\* Through every reorganisation, flush, crash and restart the chain state keeps
\* the promise of Ledger: pcoinsTip shows exactly the coins of its best block,
\* which moves by single blocks, and the coin database changes only by taking
\* over what pcoinsTip shows, best block included (ConnectBlock, DisconnectBlock,
\* CCoinsViewCache::BatchWrite, FlushStateToDisk).
KeepsLedger == Promise!Spec

\* The FRESH and DIRTY flags of pcoinsTip are right about the database: nothing
\* is dropped at a flush that the database still holds, or left out that it
\* lacks (CCoinsViewCache::ModifyCoins, BatchWrite, Uncache).
CacheFlagsSound == ~torn => FlagsSound(cache, db)

\* Wherever the process ends, the block index on disk knows every block of the
\* chain that the coin database stands for, with its data and the undo data
\* needed to leave it again (the order of the writes in FlushStateToDisk).
IndexCoversCoins ==
    \A b \in Chain[dbBest] \ {Genesis} : {"known", "data", "undo"} \subseteq dbStatus[b]

Usable(b) == Chain[b] \cap Failed = {} /\ ~Rejected(b)

\* After ActivateBestChain has succeeded no usable chain that is stored has more
\* work than the active one, whatever order the blocks came in and whatever was
\* marked invalid or lost in between: "The result is either failure or an
\* activated best chain."  ReconsiderBlock may leave out a block that was never
\* marked itself.
BestChainActive ==
    pc = "idle" /\ settled /\ ~reconsidered =>
        \A b \in linked : Usable(b) => nChainWork[b] <= nChainWork[tip]

\* What CheckBlockIndex asserts after every block and every activation: nChainTx
\* is set for exactly the blocks whose ancestors all have data; only those have a
\* sequence number; a block fails only with a failed ancestor; data that waits
\* for a parent is in mapBlocksUnlinked, and nothing else is, but for what was
\* refused as excessive.  ReconsiderBlock may leave a block failed without a
\* cause, or waiting in vain.
CheckBlockIndex ==
    pc = "idle" =>
        /\ linked = {b \in Blocks : Chain[b] \subseteq With("data")}
        /\ \A b \in Blocks \ linked : seq[b] = 0
        /\ With("undo") \subseteq With("data")
        /\ ~reconsidered =>
             \A b \in Blocks \ {Genesis} :
               LET cause == Chain[b] \cap With("failedValid")
               IN  /\ cause = {} => b \notin Failed
                   /\ b \in With("data") \ linked /\ cause = {} => <<Parent[b], b>> \in unlinked
        /\ \A p \in unlinked :
             /\ p[2] \in With("data")
             /\ p[2] \in linked => Chain[p[2]] \cap Excessive # {}

\* The node can only fail to start, with no candidate left, when the tip on disk
\* was marked failed by invalidateblock and the coins were not written since.
StartsAgain ==
    aborted => \E b \in Chain[dbBest] : dbStatus[b] \cap {"failedValid", "failedChild"} # {}

\* FindMostWorkChain returns "the tip of the chain with the most work in it, that
\* isn't known to be invalid".
TargetNotKnownInvalid ==
    pc = "step" => (Chain[target] \ Chain[tip]) \cap Failed = {}

\* How far a call is from its end: the stage it is in, the candidates it may still
\* have to reject or the blocks it still has to move over, and the place within.
Busy == pc \notin {"idle", "down"}
Within == CASE pc \in {"write", "periodic", "exit"} -> 3
            [] pc \in {"coins", "coinsPeriodic", "coinsExit"} -> 2
            [] pc = "tip" -> 1
            [] OTHER -> 0
Rank ==
    CASE invalid # None ->
           <<3, Cardinality({b \in Chain[best] : invalid \in Chain[b]}), Within>>
      [] invalid = None /\ pc = "find" -> <<2, Len(cand), 0>>
      [] invalid = None /\ target # None /\ pc # "find" ->
           <<1, IF pc = "more" THEN Len(cand)
                ELSE Cardinality((Chain[best] \ Chain[target]) \cup (Chain[target] \ Chain[best]))
                     + Cardinality(Blocks), Within>>
      [] OTHER -> <<0, 0, Within>>
Below(r, s) ==
    \/ r[1] < s[1]
    \/ r[1] = s[1] /\ r[2] < s[2]
    \/ r[1] = s[1] /\ r[2] = s[2] /\ r[3] < s[3]

\* Every call comes to an end: as long as a call lasts, each step of FindMostWorkChain,
\* ActivateBestChainStep, InvalidateBlock and FlushStateToDisk brings it nearer to
\* its return.
CallsAdvance == [][Busy /\ Busy' => Below(Rank', Rank)]_vars
=============================================================================
