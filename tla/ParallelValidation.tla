------------------------ MODULE ParallelValidation ------------------------
(***************************************************************************)
(* Parallel block validation (parallel.cpp, and the parts of main.cpp that *)
(* it threads through): several threads validate competing blocks, each on *)
(* a script check queue of its own and with cs_main released, and the      *)
(* first to finish connects its block and stops the others.  A node's own  *)
(* miner takes the same path without ever releasing cs_main.               *)
(*                                                                         *)
(* What runs under one hold of cs_main is one step, unless a thread        *)
(* without the lock can see its middle.                                    *)
(***************************************************************************)
EXTENDS BlockTree

CONSTANTS
    Threads,        \* validation threads, as many as there are queues
    Miner,          \* the thread that connects the node's own blocks
    None,
    Arriving,       \* blocks that peers will send
    Mined,          \* blocks this node will mine
    Preverified,    \* blocks whose transactions are all in setPreVerifiedTxHash
    nBlockSize,
    InitTip,
    SideBlocks,     \* blocks received earlier that the tip was preferred to
    ForkHeight,     \* FinalActivateForkHeight
    NChecks         \* script checks in a block

ASSUME PVAssumption ==
    /\ Miner \notin Threads
    /\ None \notin Threads \cup {Miner} \cup Blocks
    /\ IsFiniteSet(Threads)
    /\ Arriving \cup Mined \subseteq Blocks \ {Genesis}
    /\ Preverified \subseteq Blocks
    /\ nBlockSize \in [Blocks -> Nat \ {0}]
    /\ InitTip \in Blocks /\ SideBlocks \subseteq Blocks
    /\ \A b \in SideBlocks : Parent[b] \in Chain[InitTip] \cup SideBlocks
    /\ ForkHeight \in Nat
    /\ NChecks \in Nat

All == Threads \cup {Miner}
Queues == 1 .. Cardinality(Threads)

VARIABLES
    csMain,         \* the thread that holds cs_main, or None
    handler,        \* the block the message thread waits to hand over, or None
    semPV,          \* grants left
    toCome,         \* blocks still to be sent or mined
    pc, blk,        \* of each thread: where it is, and the block it was given
    cur, target,    \* the block it connects, and pindexMostWork
    start,          \* nStartingChainWork
    todo, seen, ok, \* script checks to run, fork flags they read, their verdict
    result,         \* what ConnectBlock will return
    queue, hash, fQuit, fIsValidating, nSeq,   \* mapBlockValidationThreads
    late,           \* queues whose workers have not come to rest after a Quit
    tip, applied,   \* chainActive.Tip(), and the blocks whose coins are in pcoinsTip
    data, failed,   \* blocks received, blocks marked invalid
    blamed,         \* why a block was marked invalid
    seq, nextSeq, cand,     \* nSequenceId, nBlockSequenceId, setBlockIndexCandidates
    forkActive,     \* isMVFHardForkActive
    dead            \* the process ended, on a null pointer or an assertion

threadVars == <<pc, blk, cur, target, start, todo, seen, ok, result>>
mapVars    == <<queue, hash, fQuit, fIsValidating, nSeq>>
indexVars  == <<data, failed, blamed, seq, nextSeq, cand>>
chainVars  == <<tip, applied, forkActive>>
vars == <<csMain, handler, semPV, toCome, threadVars, mapVars, late, indexVars,
          chainVars, dead>>

----------------------------------------------------------------------------
\* An entry of mapBlockValidationThreads lives from InitThread to Erase.
InMap(t) == t \in Threads /\ pc[t] \notin {"none", "start", "post"}
Registered == {t \in Threads : InMap(t)}

fParallel(t) == t \in Threads

QuitReceived(t) == InMap(t) /\ fQuit[t]

ChainWorkHasChanged(t) == nChainWork[tip] # start[t]

\* Setting fQuit also calls Quit on the thread's script queue, if it has one.
Quitting(ts) == [t \in Threads |-> fQuit[t] \/ t \in ts]

QuitCompetingThreads(t, prev) ==
    fQuit' = Quitting({u \in Registered \ {t} : Parent[blk[u]] = prev})

StopAllValidationThreads(t) == fQuit' = Quitting(Registered \ {t})

\* Mutant: a queue between two batches looks idle and is handed out again.
FreeQueuesIdleOnly == {q \in Queues : q \notin late}

\* GetScriptCheckQueue: the first queue that is idle and that no thread has.
FreeQueues == {q \in Queues : q \notin late /\ \A t \in Registered : queue[t] # q}
FirstFree == CHOOSE q \in FreeQueues : \A r \in FreeQueues : q <= r

\* A script check accepts the signatures of the rules in force when it runs.
\* Every block here is signed for its height.
CheckSig(b, active) == active = (nHeight[b] > ForkHeight)

ActivateFork(b) == forkActive' = (forkActive \/ nHeight[b] = ForkHeight)

----------------------------------------------------------------------------
Init ==
    /\ csMain = None /\ handler = None
    /\ semPV = Cardinality(Threads)
    /\ toCome = Arriving \cup Mined
    /\ pc = [t \in All |-> "none"]
    /\ blk = [t \in All |-> None]
    /\ cur = [t \in All |-> None]
    /\ target = [t \in All |-> None]
    /\ start = [t \in All |-> 0]
    /\ todo = [t \in All |-> 0]
    /\ seen = [t \in All |-> {}]
    /\ ok = [t \in All |-> TRUE]
    /\ result = [t \in All |-> "none"]
    /\ queue = [t \in All |-> 0]
    /\ hash = [t \in Threads |-> None]
    /\ fQuit = [t \in Threads |-> FALSE]
    /\ fIsValidating = [t \in Threads |-> FALSE]
    /\ nSeq = [t \in Threads |-> 0]
    /\ late = {}
    /\ tip = InitTip /\ applied = Chain[InitTip]
    /\ data = Chain[InitTip] \cup SideBlocks /\ failed = {}
    /\ blamed = [b \in Blocks |-> "not"]
    /\ seq = [b \in Blocks |-> 0] /\ nextSeq = 1
    /\ cand = <<InitTip>>
    /\ forkActive = (nHeight[InitTip] >= ForkHeight)
    /\ dead = FALSE

----------------------------------------------------------------------------
(* The message thread: HandleBlockMessage.                                 *)

\* Threads are interchangeable, so the first free one will do.
Launch(b) ==
    LET t == CHOOSE u \in Threads : pc[u] = "none"
    IN  /\ semPV > 0
        /\ semPV' = semPV - 1
        /\ pc' = [pc EXCEPT ![t] = "start"]
        /\ blk' = [blk EXCEPT ![t] = b]
        /\ UNCHANGED <<cur, target, start, todo, seen, ok, result>>

\* The registered thread with the largest competing block.
Competitors(b) == {t \in Registered : Parent[blk[t]] = Parent[b]}
Largest(b) ==
    CHOOSE t \in Competitors(b) :
        \A u \in Competitors(b) : nBlockSize[blk[u]] <= nBlockSize[blk[t]]

\* All the grants are out, and every one of them has an entry in the map.
Crowded == semPV = 0 /\ Cardinality(Registered) >= Cardinality(Queues)

CanArrive(b) ==
    ~dead /\ handler = None /\ b \in toCome \cap Arriving /\ Parent[b] \in data

BlockMessage(b) ==
    /\ CanArrive(b)
    /\ toCome' = toCome \ {b}
    /\ Launch(b)
    /\ UNCHANGED <<csMain, handler, mapVars, late, indexVars, chainVars, dead>>

\* No grant: wait for one.  While the chain is not nearly synced, and when a
\* grant is out that has no entry, nothing else happens.
BlockMessageWaits(b, synced) ==
    /\ CanArrive(b)
    /\ semPV = 0
    /\ ~(synced /\ Crowded)
    /\ handler' = b
    /\ toCome' = toCome \ {b}
    /\ UNCHANGED <<csMain, semPV, threadVars, mapVars, late, indexVars, chainVars, dead>>

\* The new block is no smaller than the largest competitor, or competes with
\* none: it is dropped.
BlockMessageRejected(b) ==
    /\ CanArrive(b)
    /\ Crowded
    /\ \A t \in Competitors(b) : nBlockSize[blk[t]] <= nBlockSize[b]
    /\ toCome' = toCome \ {b}
    /\ UNCHANGED <<csMain, handler, semPV, threadVars, mapVars, late, indexVars,
                   chainVars, dead>>

\* The largest competitor is stopped; its pScriptQueue is used without a test.
BlockMessagePreempts(b) ==
    /\ CanArrive(b)
    /\ Crowded
    /\ \E t \in Competitors(b) : nBlockSize[blk[t]] > nBlockSize[b]
    /\ toCome' = toCome \ {b}
    /\ IF queue[Largest(b)] = 0
       THEN dead' = TRUE /\ UNCHANGED <<handler, fQuit>>
       ELSE /\ handler' = b
            /\ fQuit' = Quitting({Largest(b)})
            /\ UNCHANGED dead
    /\ UNCHANGED <<csMain, semPV, threadVars, queue, hash, fIsValidating, nSeq, late,
                   indexVars, chainVars>>

GrantHandler ==
    /\ ~dead /\ handler # None
    /\ Launch(handler)
    /\ handler' = None
    /\ UNCHANGED <<csMain, toCome, mapVars, late, indexVars, chainVars, dead>>

----------------------------------------------------------------------------
(* A validation thread: HandleBlockMessageThread and ProcessNewBlock.      *)

At(t, label) == ~dead /\ pc[t] = label
Goto(t, label) == pc' = [pc EXCEPT ![t] = label]

InitThread(t) ==
    /\ t \in Threads /\ At(t, "start")
    /\ Goto(t, "accept")
    /\ queue' = [queue EXCEPT ![t] = 0]
    /\ hash' = [hash EXCEPT ![t] = blk[t]]
    /\ fQuit' = [fQuit EXCEPT ![t] = FALSE]
    /\ fIsValidating' = [fIsValidating EXCEPT ![t] = FALSE]
    /\ nSeq' = [nSeq EXCEPT ![t] = -1]      \* INT_MAX: not known yet
    /\ UNCHANGED <<csMain, handler, semPV, toCome, blk, cur, target, start, todo, seen,
                   ok, result, late, indexVars, chainVars, dead>>

\* AcceptBlockHeader refuses a failed block and the child of one; a block is
\* stored, numbered and, unless it is worse than the tip, made a candidate.
Refused(b) == {b, Parent[b]} \cap failed # {}

Store(b) ==
    IF Refused(b) \/ b \in data THEN UNCHANGED <<data, seq, nextSeq, cand>>
    ELSE /\ data' = data \cup {b}
         /\ seq' = [seq EXCEPT ![b] = nextSeq]
         /\ nextSeq' = nextSeq + 1
         /\ cand' = IF Worse(b, tip, seq') THEN cand ELSE InsertCandidate(cand, b, seq')

AcceptBlock(t) ==
    /\ t \in Threads /\ At(t, "accept")
    /\ csMain = None
    /\ Store(blk[t])
    /\ Goto(t, IF Refused(blk[t]) THEN "erase" ELSE "activate")
    /\ UNCHANGED <<csMain, handler, semPV, toCome, blk, cur, target, start, todo, seen,
                   ok, result, mapVars, late, failed, blamed, chainVars, dead>>

\* The node's own block: cs_main is taken first and kept, every validation
\* thread is stopped (all blocks here have the same nBits).
MineBlock(b) ==
    /\ At(Miner, "none") /\ csMain = None
    /\ b \in toCome \cap Mined /\ Parent[b] \in data
    /\ toCome' = toCome \ {b}
    /\ csMain' = Miner
    /\ blk' = [blk EXCEPT ![Miner] = b]
    /\ StopAllValidationThreads(Miner)
    /\ Store(b)
    /\ Goto(Miner, IF Refused(b) THEN "erase" ELSE "activate")
    /\ UNCHANGED <<handler, semPV, cur, target, start, todo, seen, ok, result, queue, hash,
                   fIsValidating, nSeq, late, failed, blamed, chainVars, dead>>

\* A parallel thread clears its entry and then returns its grant.  Nothing of
\* its stack is left.
Erase(t) ==
    /\ At(t, "erase")
    /\ Goto(t, IF fParallel(t) THEN "post" ELSE "none")
    /\ csMain' = IF fParallel(t) THEN csMain ELSE None
    /\ blk' = [blk EXCEPT ![t] = None]
    /\ cur' = [cur EXCEPT ![t] = None]
    /\ target' = [target EXCEPT ![t] = None]
    /\ start' = [start EXCEPT ![t] = 0]
    /\ todo' = [todo EXCEPT ![t] = 0]
    /\ seen' = [seen EXCEPT ![t] = {}]
    /\ ok' = [ok EXCEPT ![t] = TRUE]
    /\ result' = [result EXCEPT ![t] = "none"]
    /\ queue' = [queue EXCEPT ![t] = 0]
    /\ IF fParallel(t)
       THEN /\ hash' = [hash EXCEPT ![t] = None]
            /\ fQuit' = [fQuit EXCEPT ![t] = FALSE]
            /\ fIsValidating' = [fIsValidating EXCEPT ![t] = FALSE]
            /\ nSeq' = [nSeq EXCEPT ![t] = 0]
       ELSE UNCHANGED <<hash, fQuit, fIsValidating, nSeq>>
    /\ UNCHANGED <<handler, semPV, toCome, late, indexVars, chainVars, dead>>

\* Mutant: the grant is returned twice.
PostTwice(t) ==
    /\ t \in Threads /\ At(t, "post")
    /\ semPV' = semPV + 2
    /\ Goto(t, "none")
    /\ UNCHANGED <<csMain, handler, toCome, blk, cur, target, start, todo, seen, ok, result,
                   mapVars, late, indexVars, chainVars, dead>>


Post(t) ==
    /\ t \in Threads /\ At(t, "post")
    /\ semPV' = semPV + 1
    /\ Goto(t, "none")
    /\ UNCHANGED <<csMain, handler, toCome, blk, cur, target, start, todo, seen, ok, result,
                   mapVars, late, indexVars, chainVars, dead>>

----------------------------------------------------------------------------
(* ActivateBestChain and ActivateBestChainStep.                            *)

\* Return from ActivateBestChain: cs_main is released unless the caller holds
\* it too.
Leave(t) == Goto(t, "erase") /\ csMain' = IF fParallel(t) THEN None ELSE t

\* FindMostWorkChain drops the candidates it walks over.
Find == FindMostWorkChain(cand, tip, failed)
Found == CHOOSE m \in Find : TRUE
FindEffects ==
    /\ cand' = Erased(cand, GivenUp(cand, tip, failed))
    /\ failed' = failed \cup GivenUp(cand, tip, failed)
    /\ blamed' = [b \in Blocks |->
                    IF b \in failed' \ failed THEN "parent" ELSE blamed[b]]

\* Among candidates of equal work a parallel thread takes the lowest number.
LowestSequence(m) ==
    LET tied == {c \in Range(cand) : nChainWork[c] = nChainWork[m] /\ seq[c] < seq[m]}
    IN  IF tied = {} THEN m ELSE CHOOSE c \in tied : \A d \in tied : seq[c] <= seq[d]

\* A parallel thread whose block extends the tip tries that block, whatever
\* else there is.
PickTarget(t) ==
    IF fParallel(t) /\ Parent[blk[t]] = tip /\ tip # Genesis THEN blk[t]
    ELSE IF fParallel(t) THEN LowestSequence(Found) ELSE Found

NextToConnect(m, h) == GetAncestor(m, h + 1)

ActivateBestChain(t) ==
    /\ At(t, "activate")
    /\ csMain \in {None, t}
    /\ FindEffects
    /\ IF \A m \in Find : nChainWork[m] <= nChainWork[tip]
       THEN Leave(t) /\ UNCHANGED <<cur, target>>
       ELSE /\ csMain' = t
            /\ target' = [target EXCEPT ![t] = PickTarget(t)]
            /\ cur' = [cur EXCEPT ![t] =
                        NextToConnect(PickTarget(t), nHeight[FindFork(tip, PickTarget(t))])]
            /\ Goto(t, IF tip \in Chain[PickTarget(t)] THEN "connect" ELSE "disconnect")
    /\ UNCHANGED <<handler, semPV, toCome, blk, start, todo, seen, ok, result, mapVars,
                   late, data, seq, nextSeq, chainVars, dead>>

\* One DisconnectTip; the first one of a parallel thread stops the others.
Disconnect(t) ==
    /\ At(t, "disconnect")
    /\ IF QuitReceived(t)
       THEN Leave(t) /\ UNCHANGED <<tip, applied, forkActive, fQuit>>
       ELSE /\ tip' = Parent[tip]
            /\ applied' = applied \ {tip}
            /\ ActivateFork(tip')
            /\ IF fParallel(t) THEN StopAllValidationThreads(t) ELSE UNCHANGED fQuit
            /\ Goto(t, IF tip' \in Chain[target[t]] THEN "connect" ELSE "disconnect")
            /\ UNCHANGED csMain
    /\ UNCHANGED <<handler, semPV, toCome, blk, cur, target, start, todo, seen, ok, result,
                   queue, hash, fIsValidating, nSeq, late, indexVars, dead>>

----------------------------------------------------------------------------
(* ConnectTip and ConnectBlock.                                            *)

\* PV.Initialize: a thread that was stopped, or that would repeat another's
\* work, does not begin.
Initialize(t, b) ==
    /\ ~fQuit[t]
    /\ \A u \in Registered \ {t} : ~(hash[u] = b /\ fIsValidating[u] /\ ~fQuit[u])

\* ConnectTip up to the release of cs_main.  A thread that finds no free queue
\* waits here, with cs_main held.
Connect(t) ==
    /\ At(t, "connect")
    /\ IF Parent[cur[t]] # tip
       THEN Leave(t) /\ UNCHANGED <<start, todo, seen, ok, queue, hash, fIsValidating, nSeq>>
       ELSE /\ FreeQueues # {}
            /\ start' = [start EXCEPT ![t] = nChainWork[tip]]
            /\ queue' = [queue EXCEPT ![t] = FirstFree]
            /\ todo' = [todo EXCEPT ![t] = IF cur[t] \in Preverified THEN 0 ELSE NChecks]
            /\ seen' = [seen EXCEPT ![t] = {}]
            /\ ok' = [ok EXCEPT ![t] = TRUE]
            /\ IF ~fParallel(t)
               THEN Goto(t, "inputs") /\ UNCHANGED <<csMain, hash, fIsValidating, nSeq>>
               ELSE /\ hash' = [hash EXCEPT ![t] = cur[t]]
                    /\ IF Initialize(t, cur[t])
                       THEN /\ nSeq' = [nSeq EXCEPT ![t] = IF seq[cur[t]] > 0 THEN seq[cur[t]] ELSE @]
                            /\ fIsValidating' = [fIsValidating EXCEPT ![t] = TRUE]
                            /\ csMain' = None
                            /\ Goto(t, "inputs")
                       ELSE Leave(t) /\ UNCHANGED <<fIsValidating, nSeq>>
    /\ UNCHANGED <<handler, semPV, toCome, blk, cur, target, result, fQuit, late, indexVars,
                   chainVars, dead>>

\* The loop over the transactions.  With the coins of another block in
\* pcoinsTip an input may be missing, or may not.
InputsMissing(t) ==
    /\ At(t, "inputs")
    /\ applied # Chain[Parent[cur[t]]]
    /\ Goto(t, "missing")
    /\ UNCHANGED <<csMain, handler, semPV, toCome, blk, cur, target, start, todo, seen, ok,
                   result, mapVars, late, indexVars, chainVars, dead>>

\* CheckInputs asks for the spend height, for which it needs cs_main.
InputsFound(t) ==
    /\ At(t, "inputs")
    /\ csMain \in {None, t} \/ cur[t] \in Preverified
    /\ IF QuitReceived(t)
       THEN Goto(t, "relock") /\ result' = [result EXCEPT ![t] = "stop"]
       ELSE Goto(t, "checks") /\ UNCHANGED result
    /\ UNCHANGED <<csMain, handler, semPV, toCome, blk, cur, target, start, todo, seen, ok,
                   mapVars, late, indexVars, chainVars, dead>>

\* Mutant: only the quit flag is looked at.
MissingVerdictQuitOnly(t) == IF QuitReceived(t) THEN "stop" ELSE "inputs"

\* Whether missing inputs are the block's fault is decided under cs_main.
MissingVerdict(t) == IF ChainWorkHasChanged(t) \/ QuitReceived(t) THEN "stop" ELSE "inputs"

Missing(t) ==
    /\ At(t, "missing")
    /\ csMain \in {None, t}
    /\ result' = [result EXCEPT ![t] = MissingVerdict(t)]
    /\ Goto(t, "relock")
    /\ UNCHANGED <<csMain, handler, semPV, toCome, blk, cur, target, start, todo, seen, ok,
                   mapVars, late, indexVars, chainVars, dead>>

\* A worker runs one script check, and reads the fork flag without a lock.
RunCheck(t) ==
    /\ At(t, "checks")
    /\ todo[t] > 0
    /\ todo' = [todo EXCEPT ![t] = @ - 1]
    /\ ok' = [ok EXCEPT ![t] = @ /\ CheckSig(cur[t], forkActive)]
    /\ seen' = [seen EXCEPT ![t] = @ \cup {forkActive}]
    /\ UNCHANGED <<csMain, handler, semPV, toCome, pc, blk, cur, target, start, result,
                   mapVars, late, indexVars, chainVars, dead>>

\* control.Wait: the checks are done, or a Quit has dropped the rest.  The
\* verdict is looked at before the quit flag.
WaitVerdict(t) ==
    IF ~ok[t] THEN "scripts" ELSE IF QuitReceived(t) THEN "stop" ELSE "ok"

Wait(t) ==
    /\ At(t, "checks")
    /\ todo[t] = 0 \/ QuitReceived(t)
    /\ result' = [result EXCEPT ![t] = WaitVerdict(t)]
    /\ Goto(t, "relock")
    /\ UNCHANGED <<csMain, handler, semPV, toCome, blk, cur, target, start, todo, seen, ok,
                   mapVars, late, indexVars, chainVars, dead>>

\* SetLocks: cs_main again, and the queue given back; workers may still be on
\* their way to rest if the session was quit.
SetLocks(t) ==
    /\ At(t, "relock")
    /\ csMain \in {None, t}
    /\ queue' = [queue EXCEPT ![t] = 0]
    /\ late' \in IF QuitReceived(t) /\ todo[t] > 0 THEN {late, late \cup {queue[t]}} ELSE {late}

\* Mutant: the quit flag is not looked at again.
WinsUnlessWorkChanged(t) == result[t] = "ok" /\ ~ChainWorkHasChanged(t)

\* Mutant: only a tip that went back is noticed.
WinsUnlessWorkLost(t) == result[t] = "ok" /\ nChainWork[tip] >= start[t]

\* The last test before the coins are updated.
Wins(t) == result[t] = "ok" /\ ~(ChainWorkHasChanged(t) \/ QuitReceived(t))

Win(t) ==
    /\ SetLocks(t)
    /\ Wins(t)
    /\ csMain' = t
    /\ QuitCompetingThreads(t, Parent[cur[t]])
    /\ Goto(t, "commit")
    /\ UNCHANGED <<handler, semPV, toCome, blk, cur, target, start, todo, seen, ok, result,
                   hash, fIsValidating, nSeq, indexVars, chainVars, dead>>

\* Stopped, or found invalid: InvalidBlockFound erases the candidate by key,
\* and a lookup may miss in a set whose order is no longer the comparator's.
InOrder(b) ==
    \A i, j \in DOMAIN cand : (i < j /\ b \in {cand[i], cand[j]}) => Worse(cand[i], cand[j], seq)

InvalidBlockFound(t) ==
    /\ failed' = failed \cup {cur[t]}
    /\ blamed' = [blamed EXCEPT ![cur[t]] = result[t]]
    /\ cand' \in IF InOrder(cur[t]) THEN {EraseCandidate(cand, cur[t])}
                 ELSE {EraseCandidate(cand, cur[t]), cand}

Lose(t) ==
    /\ SetLocks(t)
    /\ ~Wins(t)
    /\ Leave(t)
    /\ IF result[t] \in {"inputs", "scripts"} THEN InvalidBlockFound(t)
       ELSE UNCHANGED <<failed, blamed, cand>>
    /\ UNCHANGED <<handler, semPV, toCome, blk, cur, target, start, todo, seen, ok, result,
                   hash, fQuit, fIsValidating, nSeq, data, seq, nextSeq, chainVars, dead>>

\* Cleanup rotates the sequence numbers of the winner and of the competitors
\* with lower numbers, so that the winner has the lowest.  An entry never
\* holds the number 0.
Cleanup(t) ==
    LET rivals == {u \in Registered \ {t} :
                        /\ Parent[blk[u]] = Parent[cur[t]]
                        /\ nSeq[u] # -1 /\ nSeq[u] < seq[cur[t]]}
        ids == {nSeq[u] : u \in rivals} \cup {seq[cur[t]]}
        Above(n) == CHOOSE k \in ids : k > n /\ \A l \in ids : l > n => k <= l
    IN  seq' = [b \in Blocks |->
                  IF b = cur[t] THEN CHOOSE k \in ids : \A l \in ids : k <= l
                  ELSE IF \E u \in rivals : hash[u] = b
                  THEN Above(nSeq[CHOOSE u \in rivals : hash[u] = b])
                  ELSE seq[b]]

\* The coins are flushed, the numbers rotated, and the tip moves.  There must be
\* a candidate left, and below too: FindMostWorkChain must find one.
Commit(t) ==
    /\ At(t, "commit")
    /\ applied' = applied \cup {cur[t]}
    /\ Cleanup(t)
    /\ tip' = cur[t]
    /\ ActivateFork(tip')
    /\ cand' = PruneBlockIndexCandidates(cand, tip', seq')
    /\ dead' = (cand' = <<>>)
    /\ Goto(t, "next")
    /\ UNCHANGED <<csMain, handler, semPV, toCome, blk, cur, target, start, todo, seen, ok,
                   result, mapVars, late, data, failed, blamed, nextSeq>>

\* On to the next block of the path, or of a better path found meanwhile.
NextBlock(t) ==
    /\ At(t, "next")
    /\ IF cur[t] # target[t]
       THEN /\ cur' = [cur EXCEPT ![t] = NextToConnect(target[t], nHeight[cur[t]])]
            /\ Goto(t, "connect")
            /\ UNCHANGED <<csMain, target, cand, failed, blamed>>
       ELSE /\ FindEffects
            /\ IF Find = {} \/ nHeight[Found] <= nHeight[cur[t]]
               THEN Leave(t) /\ UNCHANGED <<cur, target>>
               ELSE /\ target' = [target EXCEPT ![t] = Found]
                    /\ cur' = [cur EXCEPT ![t] = NextToConnect(Found, nHeight[cur[t]])]
                    /\ Goto(t, "connect")
                    /\ UNCHANGED csMain
    /\ dead' = (cur[t] = target[t] /\ Find = {})
    /\ UNCHANGED <<handler, semPV, toCome, blk, start, todo, seen, ok, result, mapVars, late,
                   data, seq, nextSeq, chainVars>>

\* A worker of a queue that was quit comes to rest.
WorkersRest(q) ==
    /\ ~dead /\ q \in late
    /\ late' = late \ {q}
    /\ UNCHANGED <<csMain, handler, semPV, toCome, threadVars, mapVars, indexVars, chainVars,
                   dead>>

----------------------------------------------------------------------------
Step(t) ==
    \/ InitThread(t) \/ AcceptBlock(t) \/ Erase(t) \/ Post(t)
    \/ ActivateBestChain(t) \/ Disconnect(t) \/ Connect(t)
    \/ InputsMissing(t) \/ InputsFound(t) \/ Missing(t) \/ RunCheck(t) \/ Wait(t)
    \/ Win(t) \/ Lose(t) \/ Commit(t) \/ NextBlock(t)

NewBlock(b) ==
    \/ BlockMessage(b) \/ BlockMessageRejected(b) \/ BlockMessagePreempts(b)
    \/ \E synced \in BOOLEAN : BlockMessageWaits(b, synced)
    \/ MineBlock(b)

Progress ==
    \/ GrantHandler
    \/ \E t \in All : Step(t)
    \/ \E q \in Queues : WorkersRest(q)

Next == Progress \/ \E b \in Blocks : NewBlock(b)

Spec == Init /\ [][Next]_vars

\* No fairness between the threads is needed, nor any arrival of a block: only
\* that the process goes on while some thread can.
FairSpec == Spec /\ WF_vars(Progress)

----------------------------------------------------------------------------
Labels == {"none", "start", "accept", "activate", "disconnect", "connect", "inputs",
           "missing", "checks", "relock", "commit", "next", "erase", "post"}

TypeOK ==
    /\ csMain \in All \cup {None}
    /\ handler \in Arriving \cup {None}
    /\ semPV \in 0 .. Cardinality(Threads)
    /\ toCome \subseteq Arriving \cup Mined
    /\ pc \in [All -> Labels]
    /\ blk \in [All -> Blocks \cup {None}]
    /\ cur \in [All -> Blocks \cup {None}]
    /\ target \in [All -> Blocks \cup {None}]
    /\ start \in [All -> Nat]
    /\ todo \in [All -> 0 .. NChecks]
    /\ seen \in [All -> SUBSET BOOLEAN]
    /\ ok \in [All -> BOOLEAN]
    /\ result \in [All -> {"none", "ok", "stop", "inputs", "scripts"}]
    /\ queue \in [All -> Queues \cup {0}]
    /\ hash \in [Threads -> Blocks \cup {None}]
    /\ fQuit \in [Threads -> BOOLEAN]
    /\ fIsValidating \in [Threads -> BOOLEAN]
    /\ nSeq \in [Threads -> Nat \cup {-1}]
    /\ late \subseteq Queues
    /\ tip \in Blocks
    /\ applied \subseteq Blocks /\ data \subseteq Blocks /\ failed \subseteq Blocks
    /\ blamed \in [Blocks -> {"not", "inputs", "scripts", "parent"}]
    /\ seq \in [Blocks -> Nat] /\ nextSeq \in Nat
    /\ cand \in Seq(Blocks)
    /\ forkActive \in BOOLEAN
    /\ dead \in BOOLEAN

\* Whenever cs_main is free, pcoinsTip holds the coins of the active chain and of
\* nothing else: no thread ever connects its block on a tip that is not its
\* parent, although ChainWorkHasChanged compares only amounts of work and
\* QuitCompetingThreads only the parent of the block a thread was launched for.
CoinsMatchTip == csMain = None => applied = Chain[tip]

\* Two threads never put their script checks on the same queue, although the
\* miner's use of a queue is not registered anywhere and a thread that was quit
\* may leave workers behind.
Validating(t) == pc[t] \in {"inputs", "missing", "checks", "relock"}
QueueExclusive ==
    \A t, u \in All : t # u /\ Validating(t) /\ Validating(u) => queue[t] # queue[u]

\* The signatures of a block that is about to be connected were all checked
\* under the rules that are in force when it is connected, although the checks
\* read isMVFHardForkActive without a lock and the flag may change under them.
CheckedUnderOneRule == \A t \in All : pc[t] = "commit" => seen[t] \subseteq {forkActive}

\* A block is never marked invalid because another block, which won the race,
\* has spent or created its inputs (main.cpp:2651: "return without DOSing the
\* node").  All the blocks of the model are valid.
NotBlamedForInputs == \A b \in Blocks : blamed[b] # "inputs"

\* All the blocks of the model are valid where they are in the tree, so none is
\* ever marked invalid.
ValidNotFailed == failed = {}

\* Every queue belongs to a thread that waits for cs_main, and the holder of
\* cs_main waits for a queue.
Starved ==
    /\ pc[Miner] = "connect"
    /\ \A q \in Queues : \E t \in Registered :
            /\ queue[t] = q
            /\ \/ pc[t] \in {"missing", "relock"}
               \/ pc[t] = "inputs" /\ cur[t] \notin Preverified

\* Every block that is handed over is dealt with: its thread ends and the
\* message thread gets its grant, unless the process ends or the miner starves.
Busy == handler # None \/ \E t \in All : pc[t] # "none"
=============================================================================
