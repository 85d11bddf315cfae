---------------------------- MODULE CheckQueue ----------------------------
(***************************************************************************)
(* CCheckQueue: one queue of script checks, its worker threads, and the    *)
(* master, the validation thread that owns the queue for one block at a    *)
(* time (a session).  "As the order of booleans doesn't matter" the stack   *)
(* of checks is a set, from which any batch of the right size is taken.    *)
(*                                                                         *)
(* A session runs from GetScriptCheckQueue, which finds the queue idle, to *)
(* the return of CCheckQueueControl's Wait, which an early return of       *)
(* ConnectBlock reaches through the destructor.                            *)
(***************************************************************************)
EXTENDS Integers, FiniteSets

CONSTANTS
    Workers,        \* the nScriptCheckThreads threads of this queue
    Master,         \* the block validation thread
    None,           \* no thread
    Checks,         \* bound: the checks one block may have
    nBatchSize      \* the maximum number of elements to be processed in one batch

Threads == Workers \cup {Master}

ASSUME QueueAssumption ==
    /\ IsFiniteSet(Workers)
    /\ Master \notin Workers
    /\ None \notin Workers \cup {Master}
    /\ IsFiniteSet(Checks)
    /\ nBatchSize \in Nat \ {0}

VARIABLES
    queue,          \* the checks not yet taken
    nIdle,
    nTotal,
    fAllOk,
    nTodo,
    fQuit,
    mutex,          \* the thread inside the critical section of Loop, or None
    pc,             \* where each thread is
    vChecks,        \* each thread's batch, until it is accounted for
    fOk,            \* each thread's fOk
    bad,            \* the checks of this session's block that fail
    added,          \* history: the checks added in this session
    quit,           \* history: Quit has been called in this session
    result          \* what Wait returned, "none" before it has

status  == <<nIdle, nTotal, fAllOk, nTodo, fQuit>>
locals  == <<vChecks, fOk>>
session == <<bad, added, quit, result>>
vars    == <<queue, status, mutex, pc, locals, session>>

InSession == pc[Master] # "free"

Max(a, b) == IF a >= b THEN a ELSE b
Min(a, b) == IF a <= b THEN a ELSE b

Init ==
    /\ queue = {}
    /\ nIdle = 0
    /\ nTotal = 0
    /\ fAllOk = TRUE
    /\ nTodo = 0
    /\ fQuit = FALSE
    /\ mutex = None
    /\ pc = [t \in Threads |-> IF t = Master THEN "free" ELSE "start"]
    /\ vChecks = [t \in Threads |-> {}]
    /\ fOk = [t \in Threads |-> TRUE]
    /\ bad = {}
    /\ added = {}
    /\ quit = FALSE
    /\ result = "none"

-----------------------------------------------------------------------------
(***************************************************************************)
(* The owner: GetScriptCheckQueue, the constructor of CCheckQueueControl,  *)
(* Add and Wait.                                                           *)
(***************************************************************************)
IsIdle == nTotal = nIdle /\ nTodo = 0 /\ fAllOk

\* Bug: a queue with nothing left to do is taken for idle.
GetScriptCheckQueueEarly ==
    /\ pc[Master] = "free"
    /\ mutex = None
    /\ nTodo = 0
    /\ pc' = [pc EXCEPT ![Master] = "acquired"]
    /\ fQuit' = FALSE
    /\ bad' \in SUBSET Checks
    /\ added' = {}
    /\ quit' = FALSE
    /\ result' = "none"
    /\ UNCHANGED <<queue, nIdle, nTotal, fAllOk, nTodo, mutex, locals>>

GetScriptCheckQueue ==
    /\ pc[Master] = "free"
    /\ mutex = None
    /\ IsIdle
    /\ pc' = [pc EXCEPT ![Master] = "acquired"]
    /\ fQuit' = FALSE
    /\ bad' \in SUBSET Checks
    /\ added' = {}
    /\ quit' = FALSE
    /\ result' = "none"
    /\ UNCHANGED <<queue, nIdle, nTotal, fAllOk, nTodo, mutex, locals>>

\* assert(isIdle) is ControlFindsIdle below.
CCheckQueueControl ==
    /\ pc[Master] = "acquired"
    /\ mutex = None
    /\ pc' = [pc EXCEPT ![Master] = "adding"]
    /\ UNCHANGED <<queue, status, mutex, locals, session>>

Waiting == {w \in Workers : pc[w] = "waiting"}

Woken(W) == [t \in Threads |-> IF t \in W THEN "woken" ELSE pc[t]]

\* condWorker.notify_one() for one check, notify_all() for several.  Adding none
\* changes nothing.
Notified(n) ==
    IF n = 1 /\ Waiting # {} THEN {Woken({w}) : w \in Waiting} ELSE {Woken(Waiting)}

Add(S) ==
    /\ pc[Master] = "adding"
    /\ mutex = None
    /\ queue' = queue \cup S
    /\ nTodo' = nTodo + Cardinality(S)
    /\ added' = added \cup S
    /\ pc' \in Notified(Cardinality(S))
    /\ UNCHANGED <<nIdle, nTotal, fAllOk, fQuit, mutex, locals, bad, quit, result>>

Wait ==
    /\ pc[Master] = "adding"
    /\ pc' = [pc EXCEPT ![Master] = "start"]
    /\ UNCHANGED <<queue, status, mutex, locals, session>>

\* A competitor, through the pScriptQueue this session's thread has registered.
Quit ==
    /\ fQuit' = TRUE
    /\ quit' = TRUE
    /\ UNCHANGED <<queue, nIdle, nTotal, fAllOk, nTodo, mutex, pc, locals, bad, added, result>>

-----------------------------------------------------------------------------
(***************************************************************************)
(* Loop.  A thread takes the mutex at the top of the do loop, in its first *)
(* iteration, with a batch to account for, or as it wakes up; and releases *)
(* it with a new batch, by going to sleep, or (the master) by returning.   *)
(***************************************************************************)
FirstIteration(t) ==
    /\ pc[t] = "start"
    /\ mutex = None
    /\ mutex' = t
    /\ nTotal' = nTotal + 1
    /\ pc' = [pc EXCEPT ![t] = "locked"]
    /\ fOk' = [fOk EXCEPT ![t] = TRUE]
    /\ UNCHANGED <<queue, nIdle, fAllOk, nTodo, fQuit, vChecks, session>>

WakeUp(t) ==
    /\ pc[t] = "woken"
    /\ mutex = None
    /\ mutex' = t
    /\ nIdle' = nIdle - 1
    /\ pc' = [pc EXCEPT ![t] = "locked"]
    /\ UNCHANGED <<queue, nTotal, fAllOk, nTodo, fQuit, locals, session>>

\* Bug: the verdict is that of the last batch.
VerdictLast(t) == fOk[t]

Verdict(t) == fAllOk /\ fOk[t]

\* Bug: a batch larger than what is left is subtracted all the same.
RemainingUnchecked(t) == nTodo - Cardinality(vChecks[t])

Remaining(t) ==
    LET nNow == Cardinality(vChecks[t])
    IN  IF nTodo >= nNow THEN nTodo - nNow ELSE nTodo

\* Bug: any worker that finishes drops what is left.
DropsQueueAlways(t) == t # Master

DropsQueue(t) == t # Master /\ (Remaining(t) = 0 \/ fQuit)

\* Bug: the master is not told.
CleanedSilently(t) == [pc EXCEPT ![t] = "locked"]

\* condMaster.notify_one(), and on to the test of the queue.
Cleaned(t) ==
    [u \in Threads |-> IF u = t THEN "locked"
                       ELSE IF u = Master /\ pc[u] = "waiting" /\ DropsQueue(t) THEN "woken"
                       ELSE pc[u]]

CleanUp(t) ==
    /\ pc[t] = "done"
    /\ mutex = None
    /\ mutex' = t
    /\ fAllOk' = Verdict(t)
    /\ nTodo' = IF t # Master /\ fQuit THEN 0 ELSE Remaining(t)
    /\ queue' = IF DropsQueue(t) THEN {} ELSE queue
    /\ pc' = Cleaned(t)
    /\ vChecks' = [vChecks EXCEPT ![t] = {}]
    /\ UNCHANGED <<nIdle, nTotal, fQuit, fOk, session>>

\* Bug: the master leaves when the queue is empty.
FinishedEarly(t) == t = Master

Finished(t) == t = Master /\ nTodo = 0

\* Bug: the status is not reset for new work later.
StatusKept == fAllOk

StatusReset == TRUE

Return(t) ==
    /\ pc[t] = "locked"
    /\ queue = {}
    /\ Finished(t)
    /\ nTotal' = nTotal - 1
    /\ result' = IF fAllOk THEN "ok" ELSE "failed"
    /\ fAllOk' = StatusReset
    /\ fQuit' = FALSE
    /\ mutex' = None
    /\ pc' = [pc EXCEPT ![t] = "free"]
    /\ UNCHANGED <<queue, nIdle, nTodo, locals, bad, added, quit>>

Sleep(t) ==
    /\ pc[t] = "locked"
    /\ queue = {}
    /\ ~Finished(t)
    /\ nIdle' = nIdle + 1
    /\ mutex' = None
    /\ pc' = [pc EXCEPT ![t] = "waiting"]
    /\ UNCHANGED <<queue, nTotal, fAllOk, nTodo, fQuit, locals, session>>

BatchLength == Max(1, Min(nBatchSize, Cardinality(queue) \div (nTotal + nIdle + 1)))

TakeBatch(t, S) ==
    /\ pc[t] = "locked"
    /\ Cardinality(S) = BatchLength
    /\ queue' = queue \ S
    /\ vChecks' = [vChecks EXCEPT ![t] = S]
    /\ fOk' = [fOk EXCEPT ![t] = fAllOk]
    /\ mutex' = None
    /\ pc' = [pc EXCEPT ![t] = "working"]
    /\ UNCHANGED <<status, session>>

\* The checks run without the mutex; the batch stays in vChecks until it is
\* accounted for.
Execute(t) ==
    /\ pc[t] = "working"
    /\ fOk' = [fOk EXCEPT ![t] = @ /\ vChecks[t] \cap bad = {}]
    /\ pc' = [pc EXCEPT ![t] = "done"]
    /\ UNCHANGED <<queue, status, mutex, vChecks, session>>

\* A condition variable may wake up without a notification.
SpuriousWakeUp(t) ==
    /\ pc[t] = "waiting"
    /\ pc' = [pc EXCEPT ![t] = "woken"]
    /\ UNCHANGED <<queue, status, mutex, locals, session>>

Loop(t) ==
    \/ FirstIteration(t)
    \/ WakeUp(t)
    \/ CleanUp(t)
    \/ Return(t)
    \/ Sleep(t)
    \/ \E S \in SUBSET queue : TakeBatch(t, S)
    \/ Execute(t)

Next ==
    \/ GetScriptCheckQueue
    \/ CCheckQueueControl
    \/ \E S \in SUBSET (Checks \ added) \ {{}} : Add(S)
    \/ Wait
    \/ Quit
    \/ \E t \in Threads : Loop(t) \/ SpuriousWakeUp(t)

Spec == Init /\ [][Next]_vars

(***************************************************************************)
(* The threads are scheduled and the mutex is not withheld from any of     *)
(* them for ever; a check terminates.  Nothing makes a block arrive, and   *)
(* no wake-up is owed to a thread that was not notified.                   *)
(***************************************************************************)
FairSpec == Spec /\ WF_vars(Wait) /\ \A t \in Threads : SF_vars(Loop(t))
-----------------------------------------------------------------------------
(***************************************************************************)
(* Properties.                                                             *)
(***************************************************************************)
\* Type correctness of CCheckQueue's members and the threads' local variables.
TypeOK ==
    /\ queue \in SUBSET Checks
    /\ nIdle \in Nat
    /\ nTotal \in Nat
    /\ fAllOk \in BOOLEAN
    /\ nTodo \in Nat
    /\ fQuit \in BOOLEAN
    /\ mutex \in Threads \cup {None}
    /\ pc \in [Threads -> {"free", "acquired", "adding", "start", "locked", "waiting",
                           "woken", "working", "done"}]
    /\ vChecks \in [Threads -> SUBSET Checks]
    /\ fOk \in [Threads -> BOOLEAN]
    /\ bad \in SUBSET Checks
    /\ added \in SUBSET Checks
    /\ quit \in BOOLEAN
    /\ result \in {"none", "ok", "failed"}

Outstanding == queue \cup UNION {vChecks[t] : t \in Threads}

\* nTodo, the "number of verifications that haven't completed yet", counts the
\* queued checks and those in the workers' batches exactly, unless Quit was called:
\* the batches of an earlier block's session are never counted against this one.
TodoExact ==
    InSession /\ ~quit => nTodo = Cardinality(Outstanding)

\* Wait returns "whether all evaluations were successful": true only if every
\* check added passes (or Quit was called, after which the caller must look at its
\* own quit flag), and false only if a check of this very block failed.
VerdictRight ==
    /\ result = "ok" => quit \/ added \cap bad = {}
    /\ result = "failed" => added \cap bad # {}

\* The assertion in CCheckQueueControl's constructor: "passed queue is supposed to
\* be unused".  Between the test in GetScriptCheckQueue and the constructor nothing
\* makes the queue busy.
ControlFindsIdle ==
    pc[Master] = "acquired" /\ mutex = None =>
        IsIdle /\ \A w \in Workers : pc[w] \notin {"working", "done"}

\* Unless a competitor called Quit, Wait returns only when no worker holds a batch
\* of the block, whose transactions and resource tracker the caller may now destroy.
FinishedUnlessQuit ==
    ~InSession /\ ~quit => \A w \in Workers : pc[w] \notin {"working", "done"}

\* Wait returns, whatever competitors call Quit.
WaitReturns ==
    pc[Master] = "start" ~> ~InSession

\* After a session that was not quit the queue becomes idle, so that the next block
\* can have it.
IdleUnlessQuit ==
    ~InSession ~> InSession \/ IsIdle \/ quit

\* The same after any session.
IdleAgain ==
    ~InSession ~> InSession \/ IsIdle
=============================================================================
