------------------------- MODULE CheckQueueProofs -------------------------
(***************************************************************************)
(* Proofs about CheckQueue, for any number of workers, any batch size and  *)
(* any finite set of checks.                                               *)
(***************************************************************************)
EXTENDS CheckQueue, FiniteSetTheorems, TLAPS

Started == {t \in Threads : pc[t] \in {"locked", "waiting", "woken", "working", "done"}}
Asleep  == {t \in Threads : pc[t] \in {"waiting", "woken"}}

(***************************************************************************)
(* The shape of the threads: the counters count, the mutex excludes, and   *)
(* only the master is ever outside Loop once started.                      *)
(***************************************************************************)
ShapeInv ==
    /\ TypeOK
    /\ nTotal = Cardinality(Started)
    /\ nIdle = Cardinality(Asleep)
    /\ \A t \in Threads : pc[t] = "locked" <=> mutex = t
    /\ \A w \in Workers : pc[w] \notin {"free", "acquired", "adding"}

\* The threads, and those among them that count as started or idle, are finitely many.
LEMMA FiniteThreads ==
    /\ IsFiniteSet(Threads)
    /\ IsFiniteSet(Started) /\ Cardinality(Started) \in Nat
    /\ IsFiniteSet(Asleep) /\ Cardinality(Asleep) \in Nat
<1>1. IsFiniteSet(Threads)
  BY QueueAssumption, FS_AddElement DEF Threads
<1>2. Started \in SUBSET Threads /\ Asleep \in SUBSET Threads
  BY DEF Started, Asleep
<1> QED BY <1>1, <1>2, FS_Subset, FS_CardinalityType

\* The same in the next state.
LEMMA FiniteThreadsNext ==
    /\ IsFiniteSet(Started') /\ Cardinality(Started') \in Nat
    /\ IsFiniteSet(Asleep') /\ Cardinality(Asleep') \in Nat
<1>1. Started' \in SUBSET Threads /\ Asleep' \in SUBSET Threads
  BY DEF Started, Asleep
<1> QED BY <1>1, FiniteThreads, FS_Subset, FS_CardinalityType

\* A batch has at least one check (the std::max in Loop).
LEMMA BatchLengthPositive ==
  ASSUME TypeOK
  PROVE  BatchLength \in Nat /\ BatchLength >= 1
<1>1. Cardinality(queue) \in Nat
  BY QueueAssumption, FS_Subset, FS_CardinalityType DEF TypeOK
<1>2. Cardinality(queue) \div (nTotal + nIdle + 1) \in Int
  BY <1>1 DEF TypeOK
<1> QED BY <1>2, QueueAssumption DEF BatchLength, Max, Min

\* What the notifications of Add may do to the program counters.
LEMMA NotifiedShape ==
  ASSUME TypeOK, NEW n, NEW p \in Notified(n)
  PROVE  /\ p \in [Threads -> {"free", "acquired", "adding", "start", "locked", "waiting",
                               "woken", "working", "done"}]
         /\ \A t \in Threads : p[t] = pc[t] \/ (t \in Workers /\ pc[t] = "waiting" /\ p[t] = "woken")
  BY DEF Notified, Woken, Waiting, TypeOK, Threads

\* Init establishes the shape.
LEMMA ShapeInit == Init => ShapeInv
<1> SUFFICES ASSUME Init PROVE ShapeInv
  OBVIOUS
<1>1. TypeOK
  BY QueueAssumption, Zenon DEF Init, TypeOK, Threads
<1>2. Started = {} /\ Asleep = {}
  BY DEF Init, Started, Asleep
<1> QED BY <1>1, <1>2, FS_EmptySet, QueueAssumption DEF Init, ShapeInv, Threads

\* The master's own steps, outside Loop, keep the shape.
LEMMA ShapeOwner ==
  ASSUME ShapeInv,
         \/ GetScriptCheckQueue
         \/ CCheckQueueControl
         \/ \E S \in SUBSET (Checks \ added) \ {{}} : Add(S)
         \/ Wait
         \/ Quit
  PROVE  ShapeInv'
<1> USE DEF ShapeInv
<1>1. CASE GetScriptCheckQueue
  <2>1. TypeOK'
    BY <1>1, Zenon DEF GetScriptCheckQueue, TypeOK, locals
  <2>2. Started' = Started /\ Asleep' = Asleep
    BY <1>1 DEF GetScriptCheckQueue, TypeOK, Started, Asleep, Threads
  <2> QED BY <1>1, <2>1, <2>2, QueueAssumption DEF GetScriptCheckQueue, TypeOK, Threads
<1>2. CASE CCheckQueueControl
  <2>1. TypeOK'
    BY <1>2, Zenon DEF CCheckQueueControl, TypeOK, status, locals, session
  <2>2. Started' = Started /\ Asleep' = Asleep
    BY <1>2 DEF CCheckQueueControl, TypeOK, Started, Asleep, Threads
  <2> QED BY <1>2, <2>1, <2>2, QueueAssumption DEF CCheckQueueControl, TypeOK, Threads, status
<1>3. ASSUME NEW S \in SUBSET (Checks \ added), Add(S) PROVE ShapeInv'
  <2>1. Cardinality(S) \in Nat
    BY QueueAssumption, FS_Subset, FS_CardinalityType
  <2>2. /\ pc' \in [Threads -> {"free", "acquired", "adding", "start", "locked", "waiting",
                                "woken", "working", "done"}]
        /\ \A t \in Threads : pc'[t] = pc[t] \/ (t \in Workers /\ pc[t] = "waiting" /\ pc'[t] = "woken")
    BY <1>3, NotifiedShape DEF Add
  <2>3. TypeOK'
    BY <1>3, <2>1, <2>2 DEF Add, TypeOK, locals
  <2>4. Started' = Started /\ Asleep' = Asleep
    BY <2>2 DEF Started, Asleep
  <2> QED BY <1>3, <2>2, <2>3, <2>4 DEF Add, Threads
<1>4. CASE Wait
  <2>1. TypeOK'
    BY <1>4, Zenon DEF Wait, TypeOK, status, locals, session
  <2>2. Started' = Started /\ Asleep' = Asleep
    BY <1>4 DEF Wait, TypeOK, Started, Asleep, Threads
  <2> QED BY <1>4, <2>1, <2>2, QueueAssumption DEF Wait, TypeOK, Threads, status
<1>5. CASE Quit
  <2>1. TypeOK'
    BY <1>5 DEF Quit, TypeOK, locals
  <2> QED BY <1>5, <2>1 DEF Quit, Started, Asleep
<1> QED BY <1>1, <1>2, <1>3, <1>4, <1>5

\* Loop's steps keep the shape: nTotal and nIdle follow the threads that enter,
\* leave, fall asleep and wake up.
LEMMA ShapeLoop ==
  ASSUME ShapeInv, NEW t \in Threads, Loop(t) \/ SpuriousWakeUp(t)
  PROVE  ShapeInv'
<1> USE DEF ShapeInv
<1>0. None \notin Threads /\ Master \in Threads /\ Master \notin Workers
  BY QueueAssumption DEF Threads
<1>1. CASE FirstIteration(t)
  <2>1. TypeOK'
    BY <1>1 DEF FirstIteration, TypeOK, session
  <2>2. t \notin Started /\ Started' = Started \cup {t} /\ Asleep' = Asleep
    BY <1>1 DEF FirstIteration, TypeOK, Started, Asleep
  <2>3. Cardinality(Started') = Cardinality(Started) + 1
    BY <2>2, FiniteThreads, FS_AddElement, Zenon
  <2> QED BY <1>0, <1>1, <2>1, <2>2, <2>3 DEF FirstIteration, TypeOK
<1>2. CASE WakeUp(t)
  <2>1. t \in Asleep /\ Started' = Started /\ Asleep' = Asleep \ {t}
    BY <1>2 DEF WakeUp, TypeOK, Started, Asleep
  <2>2. Cardinality(Asleep') = Cardinality(Asleep) - 1
    BY <2>1, FiniteThreads, FS_RemoveElement, Zenon
  <2>3. nIdle' = Cardinality(Asleep') /\ nIdle' \in Nat
    BY <1>2, <2>2, FiniteThreadsNext DEF WakeUp
  <2>4. TypeOK'
    BY <1>2, <2>3 DEF WakeUp, TypeOK, locals, session
  <2> QED BY <1>0, <1>2, <2>1, <2>3, <2>4 DEF WakeUp, TypeOK
<1>3. CASE CleanUp(t)
  <2>1. /\ pc' \in [Threads -> {"free", "acquired", "adding", "start", "locked", "waiting",
                                "woken", "working", "done"}]
        /\ pc'[t] = "locked"
        /\ \A u \in Threads \ {t} :
              pc'[u] = pc[u] \/ (u = Master /\ pc[u] = "waiting" /\ pc'[u] = "woken")
    BY <1>3 DEF CleanUp, Cleaned, TypeOK
  <2>2. Cardinality(vChecks[t]) \in Nat
    BY QueueAssumption, FS_Subset, FS_CardinalityType DEF TypeOK
  <2>3. Remaining(t) \in Nat
    BY <2>2 DEF Remaining, TypeOK
  <2>4. TypeOK'
    BY <1>3, <2>1, <2>3, Zenon DEF CleanUp, TypeOK, session, Verdict
  <2>5. Started' = Started /\ Asleep' = Asleep
    BY <1>3, <2>1 DEF CleanUp, Started, Asleep
  <2> QED BY <1>0, <1>3, <2>1, <2>4, <2>5 DEF CleanUp, Threads
<1>4. CASE Return(t)
  <2>0. t = Master
    BY <1>4 DEF Return, Finished
  <2>1. t \in Started /\ Started' = Started \ {t} /\ Asleep' = Asleep
    BY <1>4 DEF Return, TypeOK, Started, Asleep
  <2>2. Cardinality(Started') = Cardinality(Started) - 1
    BY <2>1, FiniteThreads, FS_RemoveElement, Zenon
  <2>3. nTotal' = Cardinality(Started') /\ nTotal' \in Nat
    BY <1>4, <2>2, FiniteThreadsNext DEF Return
  <2>4. TypeOK'
    BY <1>4, <2>3, Zenon DEF Return, TypeOK, locals, StatusReset
  <2> QED BY <1>0, <1>4, <2>0, <2>1, <2>3, <2>4 DEF Return, TypeOK
<1>5. CASE Sleep(t)
  <2>1. TypeOK'
    BY <1>5 DEF Sleep, TypeOK, locals, session
  <2>2. t \notin Asleep /\ Started' = Started /\ Asleep' = Asleep \cup {t}
    BY <1>5 DEF Sleep, TypeOK, Started, Asleep
  <2>3. Cardinality(Asleep') = Cardinality(Asleep) + 1
    BY <2>2, FiniteThreads, FS_AddElement, Zenon
  <2> QED BY <1>0, <1>5, <2>1, <2>2, <2>3 DEF Sleep, TypeOK
<1>6. ASSUME NEW S \in SUBSET queue, TakeBatch(t, S) PROVE ShapeInv'
  <2>1. TypeOK'
    BY <1>6 DEF TakeBatch, TypeOK, status, session
  <2>2. Started' = Started /\ Asleep' = Asleep
    BY <1>6 DEF TakeBatch, TypeOK, Started, Asleep
  <2> QED BY <1>0, <1>6, <2>1, <2>2 DEF TakeBatch, TypeOK, status
<1>7. CASE Execute(t)
  <2>1. TypeOK'
    BY <1>7 DEF Execute, TypeOK, status, session
  <2>2. Started' = Started /\ Asleep' = Asleep
    BY <1>7 DEF Execute, TypeOK, Started, Asleep
  <2> QED BY <1>0, <1>7, <2>1, <2>2 DEF Execute, TypeOK, status
<1>8. CASE SpuriousWakeUp(t)
  <2>1. TypeOK'
    BY <1>8 DEF SpuriousWakeUp, TypeOK, status, locals, session
  <2>2. Started' = Started /\ Asleep' = Asleep
    BY <1>8 DEF SpuriousWakeUp, TypeOK, Started, Asleep
  <2> QED BY <1>0, <1>8, <2>1, <2>2 DEF SpuriousWakeUp, TypeOK, status
<1> QED BY <1>1, <1>2, <1>3, <1>4, <1>5, <1>6, <1>7, <1>8 DEF Loop

\* Every step keeps the shape.
LEMMA ShapeStep ==
  ASSUME ShapeInv, [Next]_vars
  PROVE  ShapeInv'
<1>1. CASE Next
  BY <1>1, ShapeOwner, ShapeLoop DEF Next
<1>2. CASE UNCHANGED vars
  BY <1>2 DEF vars, status, locals, session, ShapeInv, TypeOK, Started, Asleep
<1> QED BY <1>1, <1>2

\* CCheckQueue's counters never go below zero, and its members keep their types.
THEOREM TypeCorrect == Spec => []TypeOK
<1>1. ShapeInv => TypeOK
  BY DEF ShapeInv
<1>2. ShapeInv /\ [Next]_vars => ShapeInv'
  BY ShapeStep
<1> QED BY <1>1, <1>2, ShapeInit, PTL DEF Spec
-----------------------------------------------------------------------------
(***************************************************************************)
(* The sessions: a check is in the queue or in one batch, batches belong   *)
(* to the session in progress or to a quit one, nTodo counts them, and a   *)
(* failing check is still outstanding or has cleared fAllOk.               *)
(***************************************************************************)
BatchInv ==
    /\ \A t \in Threads : vChecks[t] # {} => pc[t] \in {"working", "done"}
    /\ queue \subseteq added
    /\ \A t \in Threads : vChecks[t] \subseteq added /\ vChecks[t] \cap queue = {}
    /\ \A t, u \in Threads : t # u => vChecks[t] \cap vChecks[u] = {}
    /\ pc[Master] \in {"free", "acquired"} => queue = {}

AcquiredInv ==
    pc[Master] = "acquired" =>
        /\ nTodo = 0
        /\ fAllOk
        /\ \A w \in Workers : pc[w] \notin {"working", "done"}

TodoInv ==
    /\ InSession /\ fQuit => quit
    /\ TodoExact

OkInv ==
    /\ \A t \in Threads : pc[t] = "done" /\ fOk[t] => vChecks[t] \cap bad = {}
    /\ InSession /\ ~quit /\ fAllOk => added \cap bad \subseteq Outstanding
    /\ ~fAllOk => added \cap bad # {}
    /\ \A t \in Threads : pc[t] \in {"working", "done"} /\ ~fOk[t] => added \cap bad # {}
    /\ InSession => result = "none"
    /\ VerdictRight

QueueInv == ShapeInv /\ BatchInv /\ AcquiredInv /\ TodoInv /\ OkInv

\* What IsIdle's comparison of the counters means: every started thread sleeps.
LEMMA IdleMeansAsleep ==
  ASSUME ShapeInv, nTotal = nIdle
  PROVE  \A t \in Threads : pc[t] \notin {"locked", "working", "done"}
<1>1. Asleep \in SUBSET Started /\ Cardinality(Asleep) = Cardinality(Started)
  BY DEF ShapeInv, Asleep, Started
<1>2. Asleep = Started
  BY <1>1, FiniteThreads, FS_Subset
<1> QED BY <1>2 DEF Asleep, Started

\* The converse, while the master is outside Loop and nobody holds the mutex.
LEMMA AsleepMeansIdle ==
  ASSUME ShapeInv, mutex = None, pc[Master] = "acquired",
         \A w \in Workers : pc[w] \notin {"working", "done"}
  PROVE  nTotal = nIdle
<1>1. \A t \in Threads : pc[t] # "locked"
  BY QueueAssumption DEF ShapeInv, Threads
<1>2. Asleep = Started
  BY <1>1 DEF Asleep, Started, Threads
<1> QED BY <1>2 DEF ShapeInv

\* The outstanding checks are finitely many.
LEMMA OutstandingFinite ==
  ASSUME TypeOK
  PROVE  Outstanding \in SUBSET Checks /\ IsFiniteSet(Outstanding)
<1>1. Outstanding \in SUBSET Checks
  BY DEF Outstanding, TypeOK
<1> QED BY <1>1, QueueAssumption, FS_Subset

\* Adding new checks adds their number.
LEMMA CardinalityAdd ==
  ASSUME NEW A \in SUBSET Checks, NEW B \in SUBSET Checks, A \cap B = {}
  PROVE  Cardinality(A \cup B) = Cardinality(A) + Cardinality(B)
<1>1. IsFiniteSet(A) /\ IsFiniteSet(B)
  BY QueueAssumption, FS_Subset
<1>2. Cardinality(A) \in Nat /\ Cardinality(B) \in Nat
  BY <1>1, FS_CardinalityType
<1>3. Cardinality(A \cap B) = 0
  BY FS_EmptySet
<1>4. Cardinality(A \cup B) = Cardinality(A) + Cardinality(B) - Cardinality(A \cap B)
  BY <1>1, FS_Union
<1> QED BY <1>2, <1>3, <1>4

\* Init establishes the invariant.
LEMMA QueueInit == Init => QueueInv
<1> SUFFICES ASSUME Init PROVE QueueInv
  OBVIOUS
<1>1. BatchInv /\ AcquiredInv
  BY QueueAssumption DEF Init, BatchInv, AcquiredInv, Threads
<1>2. TodoInv
  BY QueueAssumption DEF Init, TodoInv, TodoExact, InSession, Threads
<1>3. OkInv
  BY QueueAssumption DEF Init, OkInv, InSession, VerdictRight, Threads
<1> QED BY <1>1, <1>2, <1>3, ShapeInit DEF QueueInv

\* A session starts from a clean queue.
LEMMA QueueGet ==
  ASSUME QueueInv, GetScriptCheckQueue, ShapeInv'
  PROVE  QueueInv'
<1>0. Master \in Threads /\ pc' = [pc EXCEPT ![Master] = "acquired"] /\ TypeOK
  BY DEF Threads, GetScriptCheckQueue, QueueInv, ShapeInv
<1>1. \A t \in Threads : pc[t] \notin {"locked", "working", "done"}
  BY IdleMeansAsleep DEF GetScriptCheckQueue, IsIdle, QueueInv
<1>2. /\ \A t \in Threads : vChecks[t] = {}
      /\ queue = {}
  BY <1>1 DEF QueueInv, BatchInv, GetScriptCheckQueue
<1>3. Outstanding' = {}
  BY <1>2 DEF Outstanding, GetScriptCheckQueue, locals
<1>4. BatchInv'
  BY <1>0, <1>2 DEF BatchInv, GetScriptCheckQueue, locals
<1>5. AcquiredInv'
  BY <1>0, <1>1, QueueAssumption DEF AcquiredInv, GetScriptCheckQueue, IsIdle, TypeOK, Threads
<1>6. TodoInv'
  BY <1>3, FS_EmptySet DEF TodoInv, TodoExact, GetScriptCheckQueue, IsIdle
<1>7. OkInv'
  BY <1>0, <1>1, QueueAssumption
  DEF OkInv, VerdictRight, GetScriptCheckQueue, IsIdle, TypeOK, Threads
<1> QED BY <1>4, <1>5, <1>6, <1>7 DEF QueueInv

\* Add puts new checks into the queue and into nTodo.
LEMMA QueueAdd ==
  ASSUME QueueInv, NEW S \in SUBSET (Checks \ added), Add(S), ShapeInv'
  PROVE  QueueInv'
<1>0. TypeOK /\ Master \in Threads
  BY DEF QueueInv, ShapeInv, Threads
<1>1. \A t \in Threads : pc'[t] = pc[t] \/ (t \in Workers /\ pc[t] = "waiting" /\ pc'[t] = "woken")
  BY <1>0, NotifiedShape DEF Add
<1>2. pc[Master] = "adding" /\ pc'[Master] = "adding"
  BY <1>0, <1>1 DEF Add
<1>3. vChecks' = vChecks /\ fOk' = fOk
  BY DEF Add, locals
<1>4. Outstanding' = Outstanding \cup S
  BY <1>3 DEF Outstanding, Add
<1>5. Outstanding \cap S = {} /\ Outstanding \in SUBSET Checks /\ S \in SUBSET Checks
  BY <1>0, OutstandingFinite DEF QueueInv, BatchInv, Outstanding
<1>6. BatchInv'
  BY <1>1, <1>2, <1>3 DEF QueueInv, BatchInv, Add
<1>7. AcquiredInv'
  BY <1>2 DEF AcquiredInv
<1>8. TodoInv'
  BY <1>2, <1>4, <1>5, CardinalityAdd DEF QueueInv, TodoInv, TodoExact, InSession, Add
<1>9. OkInv'
  BY <1>1, <1>2, <1>3, <1>4 DEF QueueInv, OkInv, InSession, VerdictRight, Add
<1> QED BY <1>6, <1>7, <1>8, <1>9 DEF QueueInv

\* Steps that only move a thread, or raise the quit flag.
LEMMA QueueMove ==
  ASSUME QueueInv, ShapeInv',
         \/ CCheckQueueControl
         \/ Wait
         \/ Quit
         \/ \E t \in Threads : FirstIteration(t) \/ WakeUp(t) \/ Sleep(t) \/ SpuriousWakeUp(t)
  PROVE  QueueInv'
<1>0. TypeOK /\ Master \in Threads
  BY DEF QueueInv, ShapeInv, Threads
<1>1. /\ queue' = queue /\ vChecks' = vChecks /\ fAllOk' = fAllOk /\ nTodo' = nTodo
      /\ bad' = bad /\ added' = added /\ result' = result
  BY Zenon DEF CCheckQueueControl, Wait, Quit, FirstIteration, WakeUp, Sleep, SpuriousWakeUp,
         status, locals, session
<1>2. Outstanding' = Outstanding
  BY <1>1 DEF Outstanding
<1>3. /\ (quit' = quit /\ fQuit' = fQuit) \/ quit'
      /\ quit => quit'
  BY DEF CCheckQueueControl, Wait, Quit, FirstIteration, WakeUp, Sleep, SpuriousWakeUp,
         status, locals, session
<1>4. \A t \in Threads :
         \/ pc'[t] = pc[t] /\ fOk'[t] = fOk[t]
         \/ pc[t] \notin {"working", "done", "free"} /\ pc'[t] \notin {"working", "done", "free", "acquired"}
  <2>1. pc \in [Threads -> {"free", "acquired", "adding", "start", "locked", "waiting",
                           "woken", "working", "done"}]
        /\ fOk \in [Threads -> BOOLEAN]
    BY <1>0, Zenon DEF TypeOK
  <2>2. CASE CCheckQueueControl
    BY <1>0, <2>1, <2>2 DEF CCheckQueueControl, locals, session
  <2>3. CASE Wait
    BY <1>0, <2>1, <2>3 DEF Wait, locals, session
  <2>4. CASE Quit
    BY <2>4 DEF Quit, locals
  <2>5. ASSUME NEW t \in Threads, FirstIteration(t) \/ WakeUp(t) \/ Sleep(t) \/ SpuriousWakeUp(t)
        PROVE  /\ pc[t] \notin {"working", "done", "free"}
               /\ pc'[t] \notin {"working", "done", "free", "acquired"}
               /\ \A u \in Threads \ {t} : pc'[u] = pc[u] /\ fOk'[u] = fOk[u]
    <3>1. CASE FirstIteration(t)
      BY <2>1, <3>1 DEF FirstIteration, locals, session
    <3>2. CASE WakeUp(t)
      BY <2>1, <3>2 DEF WakeUp, locals, session
    <3>3. CASE Sleep(t)
      BY <2>1, <3>3 DEF Sleep, locals, session
    <3>4. CASE SpuriousWakeUp(t)
      BY <2>1, <3>4 DEF SpuriousWakeUp, locals, session
    <3> QED BY <2>5, <3>1, <3>2, <3>3, <3>4
  <2> QED BY <2>2, <2>3, <2>4, <2>5, Zenon
<1>5. BatchInv'
  BY <1>0, <1>1, <1>4, Zenon DEF QueueInv, BatchInv
<1>6. AcquiredInv'
  BY <1>0, <1>1, <1>4, QueueAssumption, Zenon DEF QueueInv, AcquiredInv, Threads
<1>7. TodoInv'
  <2>1. InSession' <=> InSession
    BY <1>0, <1>4 DEF InSession
  <2> QED BY <1>1, <1>2, <1>3, <2>1 DEF QueueInv, TodoInv, TodoExact
<1>8. OkInv'
  BY <1>0, <1>1, <1>2, <1>3, <1>4, Zenon DEF QueueInv, OkInv, InSession, VerdictRight
<1> QED BY <1>5, <1>6, <1>7, <1>8 DEF QueueInv

\* Taking a batch moves checks from the queue to the thread.
LEMMA QueueTake ==
  ASSUME QueueInv, ShapeInv', NEW t \in Threads, NEW S \in SUBSET queue, TakeBatch(t, S)
  PROVE  QueueInv'
<1>0. TypeOK /\ Master \in Threads
  BY DEF QueueInv, ShapeInv, Threads
<1>1. S # {}
  BY <1>0, BatchLengthPositive, FS_EmptySet DEF TakeBatch
<1>2. pc[Master] \notin {"free", "acquired"}
  BY <1>1 DEF QueueInv, BatchInv
<1>3. /\ vChecks[t] = {} /\ vChecks' = [vChecks EXCEPT ![t] = S]
      /\ pc[t] = "locked" /\ pc' = [pc EXCEPT ![t] = "working"]
      /\ fOk' = [fOk EXCEPT ![t] = fAllOk] /\ queue' = queue \ S
      /\ UNCHANGED <<fAllOk, nTodo, fQuit, bad, added, quit, result>>
  BY DEF QueueInv, BatchInv, TakeBatch, status, session
<1>4. \A u \in Threads : vChecks'[u] = IF u = t THEN S ELSE vChecks[u]
  BY <1>0, <1>3 DEF TypeOK
<1>5. Outstanding' = Outstanding
  BY <1>3, <1>4 DEF Outstanding
<1>6. pc'[Master] \notin {"free", "acquired"}
  BY <1>0, <1>2, <1>3 DEF TypeOK
<1>7. BatchInv'
  <2>1. \A u \in Threads : vChecks'[u] # {} => pc'[u] \in {"working", "done"}
    BY <1>0, <1>3, <1>4 DEF QueueInv, BatchInv, TypeOK
  <2>2. \A u, v \in Threads : u # v => vChecks'[u] \cap vChecks'[v] = {}
    BY <1>4 DEF QueueInv, BatchInv
  <2>3. \A u \in Threads : vChecks'[u] \subseteq added' /\ vChecks'[u] \cap queue' = {}
    BY <1>3, <1>4 DEF QueueInv, BatchInv
  <2> QED BY <1>3, <1>6, <2>1, <2>2, <2>3 DEF QueueInv, BatchInv
<1>8. AcquiredInv'
  BY <1>6 DEF AcquiredInv
<1>9. TodoInv'
  BY <1>2, <1>3, <1>5 DEF QueueInv, TodoInv, TodoExact, InSession
<1>10. OkInv'
  BY <1>0, <1>2, <1>3, <1>4, <1>5 DEF QueueInv, OkInv, InSession, VerdictRight, TypeOK
<1> QED BY <1>7, <1>8, <1>9, <1>10 DEF QueueInv

\* Executing a batch settles the thread's fOk.
LEMMA QueueExecute ==
  ASSUME QueueInv, ShapeInv', NEW t \in Threads, Execute(t)
  PROVE  QueueInv'
<1>0. TypeOK /\ Master \in Threads
  BY DEF QueueInv, ShapeInv, Threads
<1>1. /\ pc[t] = "working" /\ pc' = [pc EXCEPT ![t] = "done"]
      /\ fOk' = [fOk EXCEPT ![t] = fOk[t] /\ vChecks[t] \cap bad = {}]
      /\ UNCHANGED <<queue, vChecks, fAllOk, nTodo, fQuit, bad, added, quit, result>>
  BY DEF Execute, status, session
<1>2. Outstanding' = Outstanding
  BY <1>1 DEF Outstanding
<1>3. BatchInv'
  BY <1>0, <1>1 DEF QueueInv, BatchInv, TypeOK
<1>4. AcquiredInv'
  BY <1>0, <1>1, QueueAssumption DEF QueueInv, AcquiredInv, TypeOK, Threads
<1>5. TodoInv'
  BY <1>0, <1>1, <1>2 DEF QueueInv, TodoInv, TodoExact, InSession, TypeOK
<1>6. OkInv'
  <2>1. \A u \in Threads : pc'[u] = "done" /\ fOk'[u] => vChecks'[u] \cap bad' = {}
    BY <1>0, <1>1, Zenon DEF QueueInv, OkInv, TypeOK
  <2>2. \A u \in Threads : pc'[u] \in {"working", "done"} /\ ~fOk'[u] => added' \cap bad' # {}
    BY <1>0, <1>1 DEF QueueInv, OkInv, BatchInv, TypeOK
  <2> QED BY <1>0, <1>1, <1>2, <2>1, <2>2 DEF QueueInv, OkInv, InSession, VerdictRight, TypeOK
<1> QED BY <1>3, <1>4, <1>5, <1>6 DEF QueueInv

\* Accounting for a batch: the checks of the batch leave the outstanding ones, and
\* a worker drops the queue only when it is empty, or after Quit.
LEMMA QueueCleanUp ==
  ASSUME QueueInv, ShapeInv', NEW t \in Threads, CleanUp(t)
  PROVE  QueueInv'
<1>0. TypeOK /\ Master \in Threads
  BY DEF QueueInv, ShapeInv, Threads
<1>1. /\ pc[t] = "done"
      /\ vChecks' = [vChecks EXCEPT ![t] = {}]
      /\ fAllOk' = (fAllOk /\ fOk[t])
      /\ nTodo' = IF t # Master /\ fQuit THEN 0 ELSE Remaining(t)
      /\ queue' = IF DropsQueue(t) THEN {} ELSE queue
      /\ UNCHANGED <<fQuit, fOk, bad, added, quit, result>>
  BY DEF CleanUp, session, Verdict
<1>2. /\ pc'[t] = "locked"
      /\ \A u \in Threads \ {t} :
            pc'[u] = pc[u] \/ (u = Master /\ pc[u] = "waiting" /\ pc'[u] = "woken")
  BY DEF CleanUp, Cleaned
<1>3. \A u \in Threads : vChecks'[u] = IF u = t THEN {} ELSE vChecks[u]
  BY <1>0, <1>1 DEF TypeOK
<1>4. pc[Master] \in {"free", "acquired"} <=> pc'[Master] \in {"free", "acquired"}
  BY <1>0, <1>1, <1>2
<1>5. InSession <=> InSession'
  BY <1>0, <1>1, <1>2 DEF InSession
<1>20. /\ \A u \in Threads : vChecks[u] \subseteq added /\ vChecks[u] \cap queue = {}
       /\ \A u, v \in Threads : u # v => vChecks[u] \cap vChecks[v] = {}
  BY Zenon DEF QueueInv, BatchInv
<1>6. BatchInv'
  <2>1. \A u \in Threads : vChecks'[u] # {} => pc'[u] \in {"working", "done"}
    BY <1>2, <1>3, Zenon DEF QueueInv, BatchInv
  <2>2. \A u, v \in Threads : u # v => vChecks'[u] \cap vChecks'[v] = {}
    BY <1>3 DEF QueueInv, BatchInv
  <2>3. queue' \subseteq queue /\ added' = added
    BY <1>1
  <2>4. \A u \in Threads : vChecks'[u] \subseteq added' /\ vChecks'[u] \cap queue' = {}
    BY <1>3, <1>20, <2>3
  <2> QED BY <1>1, <1>4, <2>1, <2>2, <2>3, <2>4, Zenon DEF QueueInv, BatchInv
<1>7. AcquiredInv'
  <2>1. pc[Master] # "acquired"
    BY <1>0, <1>1, Zenon DEF QueueInv, AcquiredInv, Threads
  <2> QED BY <1>0, <1>1, <1>2, <2>1, Zenon DEF AcquiredInv
<1>8. Outstanding \ vChecks[t] = queue \cup UNION {vChecks'[u] : u \in Threads}
  BY <1>3, <1>20 DEF Outstanding
<1>9. ASSUME InSession, ~quit
      PROVE  /\ Outstanding' = Outstanding \ vChecks[t]
             /\ nTodo' = Cardinality(Outstanding')
  <2> DEFINE rest == Outstanding \ vChecks[t]
  <2>1. ~fQuit /\ nTodo = Cardinality(Outstanding)
    BY <1>9 DEF QueueInv, TodoInv, TodoExact
  <2>2. vChecks[t] \in SUBSET Checks /\ rest \in SUBSET Checks /\ rest \cap vChecks[t] = {}
    BY <1>0, OutstandingFinite DEF TypeOK
  <2>3. Outstanding = rest \cup vChecks[t]
    BY DEF Outstanding
  <2>4. Cardinality(Outstanding) = Cardinality(rest) + Cardinality(vChecks[t])
    BY <2>2, <2>3, CardinalityAdd, Zenon
  <2>5. Cardinality(rest) \in Nat /\ Cardinality(vChecks[t]) \in Nat /\ IsFiniteSet(rest)
    BY <2>2, QueueAssumption, FS_Subset, FS_CardinalityType
  <2>6. Remaining(t) = Cardinality(rest)
    BY <2>1, <2>4, <2>5 DEF Remaining
  <2>7. nTodo' = Cardinality(rest)
    BY <1>1, <2>1, <2>6, Zenon
  <2>8. queue' = queue
    <3>1. CASE DropsQueue(t)
      <4>1. rest = {}
        BY <2>1, <2>5, <2>6, <3>1, FS_EmptySet DEF DropsQueue
      <4> QED BY <1>1, <1>8, <3>1, <4>1
    <3>2. CASE ~DropsQueue(t)
      BY <1>1, <3>2
    <3> QED BY <3>1, <3>2
  <2>9. Outstanding' = rest
    BY <1>8, <2>8 DEF Outstanding
  <2> QED BY <2>7, <2>9, Zenon
<1>10. TodoInv'
  BY <1>1, <1>5, <1>9 DEF QueueInv, TodoInv, TodoExact
<1>11. OkInv'
  <2>1. \A u \in Threads : pc'[u] = "done" /\ fOk'[u] => vChecks'[u] \cap bad' = {}
    BY <1>1, <1>2, <1>3, Zenon DEF QueueInv, OkInv
  <2>2. \A u \in Threads : pc'[u] \in {"working", "done"} /\ ~fOk'[u] => added' \cap bad' # {}
    BY <1>1, <1>2, Zenon DEF QueueInv, OkInv
  <2>3. ~fAllOk' => added' \cap bad' # {}
    BY <1>1, Zenon DEF QueueInv, OkInv
  <2>4. ASSUME InSession', ~quit', fAllOk' PROVE added' \cap bad' \subseteq Outstanding'
    <3>1. added \cap bad \subseteq Outstanding /\ vChecks[t] \cap bad = {}
      BY <1>1, <1>5, <2>4, Zenon DEF QueueInv, OkInv
    <3>2. Outstanding' = Outstanding \ vChecks[t]
      BY <1>1, <1>5, <1>9, <2>4
    <3> QED BY <1>1, <3>1, <3>2
  <2> QED BY <1>1, <1>5, <2>1, <2>2, <2>3, <2>4, Zenon DEF QueueInv, OkInv, VerdictRight
<1> QED BY <1>6, <1>7, <1>10, <1>11 DEF QueueInv

\* Wait returns when nothing is outstanding, so its verdict covers every check.
LEMMA QueueReturn ==
  ASSUME QueueInv, ShapeInv', NEW t \in Threads, Return(t)
  PROVE  QueueInv'
<1>0. TypeOK /\ t = Master
  BY DEF QueueInv, ShapeInv, Return, Finished
<1>1. /\ pc[Master] = "locked" /\ pc' = [pc EXCEPT ![Master] = "free"]
      /\ queue = {} /\ nTodo = 0 /\ fAllOk' = TRUE
      /\ result' = IF fAllOk THEN "ok" ELSE "failed"
      /\ UNCHANGED <<queue, nTodo, vChecks, fOk, bad, added, quit>>
  BY <1>0 DEF Return, Finished, StatusReset, locals
<1>2. pc'[Master] = "free" /\ \A u \in Threads \ {Master} : pc'[u] = pc[u]
  BY <1>0, <1>1 DEF TypeOK
<1>3. InSession /\ ~InSession'
  BY <1>1, <1>2 DEF InSession
<1>4. BatchInv'
  BY <1>1, <1>2 DEF QueueInv, BatchInv
<1>5. AcquiredInv'
  BY <1>2 DEF AcquiredInv
<1>6. TodoInv'
  BY <1>3 DEF TodoInv, TodoExact
<1>7. ~quit => Outstanding = {}
  BY <1>0, <1>1, <1>3, OutstandingFinite, FS_EmptySet DEF QueueInv, TodoInv, TodoExact
<1>8. VerdictRight'
  BY <1>1, <1>3, <1>7 DEF QueueInv, OkInv, VerdictRight
<1>9. OkInv'
  BY <1>1, <1>2, <1>3, <1>8, Zenon DEF QueueInv, OkInv
<1> QED BY <1>4, <1>5, <1>6, <1>9 DEF QueueInv

\* Every step keeps the invariant.
LEMMA QueueStep ==
  ASSUME QueueInv, [Next]_vars
  PROVE  QueueInv'
<1>1. ShapeInv'
  BY ShapeStep DEF QueueInv
<1>2. CASE Next
  <2>1. ASSUME NEW t \in Threads, Loop(t) PROVE QueueInv'
    BY <1>1, <2>1, QueueMove, QueueTake, QueueExecute, QueueCleanUp, QueueReturn DEF Loop
  <2> QED BY <1>1, <1>2, <2>1, QueueGet, QueueAdd, QueueMove DEF Next
<1>3. CASE UNCHANGED vars
  <2>1. UNCHANGED <<queue, fAllOk, nTodo, fQuit, pc, vChecks, fOk, bad, added, quit, result>>
    BY <1>3 DEF vars, status, locals, session
  <2>2. Outstanding' = Outstanding /\ (InSession <=> InSession')
    BY <2>1 DEF Outstanding, InSession
  <2>3. BatchInv'
    BY <2>1 DEF QueueInv, BatchInv
  <2>4. AcquiredInv'
    BY <2>1 DEF QueueInv, AcquiredInv
  <2>5. TodoInv'
    BY <2>1, <2>2 DEF QueueInv, TodoInv, TodoExact
  <2>6. OkInv'
    BY <2>1, <2>2, Zenon DEF QueueInv, OkInv, VerdictRight
  <2> QED BY <1>1, <2>3, <2>4, <2>5, <2>6 DEF QueueInv
<1> QED BY <1>2, <1>3

\* nTodo counts the outstanding checks of the session exactly, unless it was quit.
THEOREM TodoCorrect == Spec => []TodoExact
<1>1. QueueInv => TodoExact
  BY DEF QueueInv, TodoInv
<1>2. QueueInv /\ [Next]_vars => QueueInv'
  BY QueueStep
<1> QED BY <1>1, <1>2, QueueInit, PTL DEF Spec

\* Wait's verdict is that of all the block's checks, unless it was quit, and is
\* never false without a failing check of that block.
THEOREM VerdictCorrect == Spec => []VerdictRight
<1>1. QueueInv => VerdictRight
  BY DEF QueueInv, OkInv
<1>2. QueueInv /\ [Next]_vars => QueueInv'
  BY QueueStep
<1> QED BY <1>1, <1>2, QueueInit, PTL DEF Spec

\* The assertion in CCheckQueueControl's constructor never fails.
THEOREM ControlCorrect == Spec => []ControlFindsIdle
<1>1. QueueInv => ControlFindsIdle
  BY AsleepMeansIdle DEF QueueInv, AcquiredInv, ControlFindsIdle, IsIdle
<1>2. QueueInv /\ [Next]_vars => QueueInv'
  BY QueueStep
<1> QED BY <1>1, <1>2, QueueInit, PTL DEF Spec

-----------------------------------------------------------------------------
(***************************************************************************)
(* What Wait leaves behind.  A thread that works has a batch, and without  *)
(* Quit no batch outlives the session it was taken in.                     *)
(***************************************************************************)
FinishInv ==
    /\ \A t \in Threads : pc[t] \in {"working", "done"} => vChecks[t] # {}
    /\ ~InSession /\ ~quit => \A t \in Threads : vChecks[t] = {}

\* A batch is taken only in a session, and is not empty.
LEMMA FinishTake ==
  ASSUME QueueInv, FinishInv, NEW t \in Threads, NEW S \in SUBSET queue, TakeBatch(t, S)
  PROVE  FinishInv'
<1>1. TypeOK
  BY DEF QueueInv, ShapeInv
<1>2. S # {}
  <2>1. Cardinality(S) >= 1 /\ IsFiniteSet(S)
    BY <1>1, BatchLengthPositive, QueueAssumption, FS_Subset, Zenon DEF QueueInv, TakeBatch, TypeOK
  <2> QED BY <2>1, FS_EmptySet
<1>3. InSession
  BY <1>2 DEF QueueInv, BatchInv, InSession
<1>4. pc'[Master] # "free"
  BY <1>1, <1>3 DEF TakeBatch, InSession, TypeOK, Threads
<1>5. \A u \in Threads : /\ pc'[u] = IF u = t THEN "working" ELSE pc[u]
                         /\ vChecks'[u] = IF u = t THEN S ELSE vChecks[u]
  BY <1>1 DEF TakeBatch, TypeOK
<1> QED BY <1>2, <1>4, <1>5 DEF FinishInv, InSession

\* Every other step of a thread in Loop.
LEMMA FinishLoop ==
  ASSUME QueueInv, FinishInv, NEW t \in Threads, Loop(t)
  PROVE  FinishInv'
<1>0. TypeOK
  BY DEF QueueInv, ShapeInv
<1>1. CASE FirstIteration(t) \/ WakeUp(t) \/ Sleep(t)
  <2>1. /\ vChecks' = vChecks /\ quit' = quit /\ pc[t] # "free"
        /\ \A u \in Threads : pc'[u] = pc[u] \/ (u = t /\ pc'[u] \in {"locked", "waiting"})
    BY <1>0, <1>1, Zenon DEF FirstIteration, WakeUp, Sleep, TypeOK, locals, session
  <2> QED BY <2>1, Zenon DEF FinishInv, InSession, Threads
<1>2. CASE CleanUp(t)
  <2>1. \A u \in Threads : vChecks'[u] = IF u = t THEN {} ELSE vChecks[u]
    BY <1>0, <1>2, Zenon DEF CleanUp, TypeOK
  <2>2. quit' = quit /\ pc[t] = "done" /\ pc' = Cleaned(t)
    BY <1>2 DEF CleanUp, session
  <2>3. \A u \in Threads : pc'[u] = pc[u] \/ (pc'[u] \in {"locked", "woken"} /\ pc[u] # "free")
    BY <2>2 DEF Cleaned
  <2>4. pc'[t] = "locked"
    BY <2>2 DEF Cleaned
  <2> QED BY <2>1, <2>2, <2>3, <2>4, Zenon DEF FinishInv, InSession, Threads
<1>3. CASE Return(t)
  <2>1. /\ t = Master /\ InSession /\ nTodo = 0 /\ vChecks' = vChecks /\ quit' = quit
        /\ \A u \in Threads : pc'[u] = pc[u] \/ pc'[u] = "free"
    BY <1>0, <1>3, Zenon DEF Return, Finished, InSession, TypeOK, locals
  <2>2. ~quit => Outstanding = {}
    BY <1>0, <2>1, OutstandingFinite, FS_EmptySet DEF QueueInv, TodoInv, TodoExact
  <2> QED BY <2>1, <2>2, Zenon DEF FinishInv, Outstanding
<1>4. CASE \E S \in SUBSET queue : TakeBatch(t, S)
  BY <1>4, FinishTake
<1>5. CASE Execute(t)
  <2>1. /\ vChecks' = vChecks /\ quit' = quit /\ pc[t] = "working"
        /\ \A u \in Threads : pc'[u] = IF u = t THEN "done" ELSE pc[u]
    BY <1>0, <1>5 DEF Execute, TypeOK, session
  <2> QED BY <2>1, Zenon DEF FinishInv, InSession, Threads
<1> QED BY <1>1, <1>2, <1>3, <1>4, <1>5 DEF Loop

\* The owner's steps, Quit and wake-ups leave the batches alone.
LEMMA FinishStep ==
  ASSUME QueueInv, FinishInv, [Next]_vars
  PROVE  FinishInv'
<1>0. TypeOK
  BY DEF QueueInv, ShapeInv
<1>1. CASE GetScriptCheckQueue \/ CCheckQueueControl \/ Wait
  <2>1. /\ vChecks' = vChecks /\ pc'[Master] \in {"acquired", "adding", "start"}
        /\ \A u \in Threads \ {Master} : pc'[u] = pc[u]
    BY <1>0, <1>1 DEF GetScriptCheckQueue, CCheckQueueControl, Wait, TypeOK, Threads, locals
  <2> QED BY <2>1, Zenon DEF FinishInv, InSession
<1>2. CASE \E S \in SUBSET (Checks \ added) \ {{}} : Add(S)
  <2>1. PICK S \in SUBSET (Checks \ added) : Add(S)
    BY <1>2
  <2>2. \A u \in Threads : pc'[u] = pc[u] \/ pc'[u] = "woken"
    BY <2>1, Zenon DEF Add, Notified, Woken
  <2>3. vChecks' = vChecks /\ quit' = quit /\ pc[Master] = "adding"
    BY <2>1 DEF Add, locals
  <2> QED BY <2>2, <2>3, Zenon DEF FinishInv, InSession, Threads
<1>3. CASE Quit
  BY <1>3 DEF Quit, FinishInv, InSession, locals
<1>4. ASSUME NEW t \in Threads, SpuriousWakeUp(t) PROVE FinishInv'
  <2>1. /\ vChecks' = vChecks /\ quit' = quit /\ pc[t] = "waiting"
        /\ \A u \in Threads : pc'[u] = IF u = t THEN "woken" ELSE pc[u]
    BY <1>0, <1>4 DEF SpuriousWakeUp, TypeOK, locals, session
  <2> QED BY <2>1 DEF FinishInv, InSession, Threads
<1>5. CASE UNCHANGED vars
  BY <1>5 DEF vars, locals, session, FinishInv, InSession
<1> QED BY <1>1, <1>2, <1>3, <1>4, <1>5, FinishLoop DEF Next

\* Wait returns, unless the session was quit, only when no worker has a batch left.
THEOREM FinishedCorrect == Spec => []FinishedUnlessQuit
<1>1. Init => FinishInv
  BY DEF Init, FinishInv, Threads
<1>2. FinishInv => FinishedUnlessQuit
  BY DEF FinishInv, FinishedUnlessQuit, Threads
<1>3. QueueInv /\ FinishInv /\ [Next]_vars => FinishInv'
  BY FinishStep
<1>4. QueueInv /\ [Next]_vars => QueueInv'
  BY QueueStep
<1> QED BY <1>1, <1>2, <1>3, <1>4, QueueInit, PTL DEF Spec
=============================================================================
