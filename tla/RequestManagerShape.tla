------------------------ MODULE RequestManagerShape ------------------------
(***************************************************************************)
(* Every step of RequestManager keeps the shape of its state; and what     *)
(* follows from the shape and the reference counts: nothing refers to a    *)
(* node that was deleted, and a block that was asked for is remembered.    *)
(***************************************************************************)
EXTENDS RequestManagerLists

\* Forgetting an object keeps the shape.
LEMMA ForgottenShape ==
  ASSUME Shape, NEW o \in Objs, Forget(o), UNCHANGED <<handler, node, mapThinBlocksInFlight, msgs>>,
         mapBlocksInFlight' \in [Blks -> Nodes \cup {None}], lost' \subseteq Blks,
         pv' \subseteq Nodes \X Blks \X {"new", "stored"}, IsFiniteSet(pv'),
         \A n \in Nodes, b \in Blks : <<n, b, "new">> \in pv' => <<n, b, "stored">> \notin pv',
         mapAskFor' \in [Nodes -> SUBSET Txns], asked' \subseteq Nodes \X Objs, have' \subseteq Objs
  PROVE  Shape'
<1> USE Keys
<1>1. /\ items' = [items EXCEPT ![o] = NoItem] /\ items' \in [Objs -> Item]
      /\ \A x \in Objs : IsInjective(items'[x].src)
      /\ ref' \in [Nodes -> Int] /\ inFlight' \in Int
      /\ sendIter' \in Txns \cup {End} /\ sendBlkIter' \in Blks \cup {End}
  BY ForgetFacts, Zenon
<1>2. /\ sendIter' = sendIter \/ sendIter' = End \/ (sendIter' # o /\ Has(sendIter'))
      /\ sendBlkIter' = sendBlkIter \/ sendBlkIter' = End \/ (sendBlkIter' # o /\ Has(sendBlkIter'))
      /\ Has(o) => sendIter' # o /\ sendBlkIter' # o
  BY ForgetFacts
<1>3. items'[o] = NoItem /\ \A x \in Objs : x # o => items'[x] = items[x]
  BY <1>1 DEF Shape
<1>4. \A x \in Objs : Has(x)' => Has(x) /\ items'[x] = items[x] /\ items'[x].out \in Nat
  BY <1>3 DEF Has, Shape
<1>5. IteratorsValid'
  BY <1>1, <1>2, <1>3 DEF IteratorsValid, Has, Shape
<1>6. pc' = pc /\ hand' = hand /\ vNodesCopy' = vNodesCopy
  BY DEF handler
<1> QED BY <1>1, <1>4, <1>5, <1>6 DEF Shape, Asking

\* A rejected transaction keeps its sources, and so do the others.
LEMMA RejectKeeps ==
  ASSUME Shape, NEW m \in Nodes, NEW o \in Objs, Reject(m, o)
  PROVE  \A x \in Objs : items'[x].src = items[x].src
<1> DEFINE less == IF o \in Txns /\ items[o].out > 0 THEN 1 ELSE 0
<1>1. PICK fee \in BOOLEAN :
        items' = [items EXCEPT ![o] = Entry(@.src, @.rateLimited \/ fee, @.last, @.out - less)]
  BY Zenon DEF Reject
<1>2. items \in [Objs -> Item]
  BY Zenon DEF Shape
<1> HIDE DEF less
<1> QED BY <1>1, <1>2 DEF Entry

\* The message handler thread handles messages.
LEMMA ShapeMessages ==
  ASSUME Shape, Messages \/ HandlingDone
  PROVE  Shape'
<1> USE Keys
<1>1. ASSUME NEW n \in Nodes, NEW o \in Objs, Inv(n, o) PROVE Shape'
  <2>1. AskFor(o, n) /\ pc = "nodes" /\ msgs' \in 0 .. MaxMsgs
    BY <1>1, RequestAssumption, MapTypes DEF Inv, Handling
  <2>2. /\ items' \in [Objs -> Item] /\ ref' \in [Nodes -> Int]
        /\ \A x \in Objs : IsInjective(items'[x].src)
        /\ \A x \in Objs : Has(x) => Has(x)'
        /\ \A x \in Objs : Has(x)' => items'[x].out \in Nat
    BY <2>1, AskForFacts, Zenon
  <2>3. IteratorsValid'
    BY <1>1, <2>2, Zenon DEF Inv, IteratorsValid, Shape
  <2> QED BY <1>1, <2>1, <2>2, <2>3, Zenon DEF Inv, Shape, handler, flight, Asking
<1>2. ASSUME NEW n \in Nodes, NEW o \in Objs, Reject(n, o) PROVE Shape'
  <2> DEFINE less == IF o \in Txns /\ items[o].out > 0 THEN 1 ELSE 0
  <2>1. PICK fee \in BOOLEAN :
          items' = [items EXCEPT ![o] = Entry(@.src, @.rateLimited \/ fee, @.last, @.out - less)]
    BY <1>2, Zenon DEF Reject
  <2> DEFINE new == Entry(items[o].src, items[o].rateLimited \/ fee, items[o].last, items[o].out - less)
  <2>2. items' = [items EXCEPT ![o] = new]
    BY <2>1
  <2>3. Has(o) /\ items[o] \in Item /\ items[o].out \in Nat
    BY <1>2, Zenon DEF Reject, Shape
  <2>4. items[o].out - less \in Nat
    BY <2>3
  <2> HIDE DEF less
  <2>5. new \in Item /\ new.src = items[o].src /\ new.out \in Nat
    BY <2>3, <2>4 DEF Entry, Item
  <2> HIDE DEF new
  <2>6. /\ items' \in [Objs -> Item] /\ items'[o] = new
        /\ \A x \in Objs : x # o => items'[x] = items[x]
    BY <2>2, <2>5, Zenon DEF Shape
  <2>7. Has(o)'
    <3>1. NoItem.out = -1
      BY DEF NoItem, Entry
    <3> QED BY <2>5, <2>6, <3>1 DEF Has
  <2>8. \A x \in Objs : IsInjective(items'[x].src)
    BY <2>5, <2>6, Zenon DEF Shape
  <2>9. ASSUME NEW x \in Objs PROVE (Has(x) => Has(x)') /\ (Has(x)' => items'[x].out \in Nat)
    <3>1. CASE x = o
      BY <2>5, <2>6, <2>7, <3>1
    <3>2. CASE x # o
      BY <2>6, <3>2, Zenon DEF Has, Shape
    <3> QED BY <3>1, <3>2
  <2>10. IteratorsValid'
    BY <1>2, <2>9, Zenon DEF Reject, IteratorsValid, Shape
  <2>11. pc = "nodes" /\ msgs' \in 0 .. MaxMsgs /\ inFlight' \in Int
    BY <1>2, RequestAssumption, MapTypes DEF Reject, Handling
  <2> QED BY <1>2, <2>6, <2>8, <2>9, <2>10, <2>11, Zenon DEF Reject, Shape, handler, nodes, flight, Asking
<1>4. ASSUME NEW n \in Nodes, NEW t \in Txns, Tx(n, t) PROVE Shape'
  <2>1. t \in Objs /\ pc = "nodes" /\ have' \subseteq Objs /\ asked' \subseteq Nodes \X Objs
    BY <1>4, Zenon DEF Tx, Handling, Shape
  <2> QED BY <1>4, <2>1, ForgottenShape, Zenon DEF Tx, Shape
<1>5. ASSUME NEW n \in Nodes, NEW t \in Txns, GetData(n, t) PROVE Shape'
  <2>1. t \in Objs /\ pc = "nodes" /\ mapAskFor' \in [Nodes -> SUBSET Txns]
    BY <1>5, Zenon DEF GetData, Handling, Shape
  <2>2. CASE t \in have
    BY <1>5, <2>1, <2>2, ForgottenShape, Zenon DEF GetData, Shape
  <2>3. CASE t \notin have
    <3>1. asked' \subseteq Nodes \X Objs
      BY <1>5, <2>1, <2>3, MapTypes DEF GetData
    <3>2. UNCHANGED <<lists, ref, handler, node, mapThinBlocksInFlight, mapBlocksInFlight, pv, have, msgs, lost>>
      BY <1>5, <2>3 DEF GetData
    <3> QED BY <2>1, <3>1, <3>2, Zenon DEF Shape, lists, handler, Asking, IteratorsValid, Has
  <2> QED BY <2>2, <2>3
<1>6. ASSUME NEW n \in Nodes, NEW b \in Blks, Block(n, b) PROVE Shape'
  <2>1. asked' \subseteq Nodes \X Objs /\ ref' \in [Nodes -> Int]
    BY <1>6, MapTypes DEF Block, AddRef
  <2>2. IsFiniteSet(pv')
    BY <1>6, FS_AddElement, Zenon DEF Block, Shape
  <2>3. pv' \subseteq Nodes \X Blks \X {"new", "stored"}
    BY <1>6, MapTypes DEF Block
  <2>4. \A m \in Nodes, c \in Blks : <<m, c, "new">> \in pv' => <<m, c, "stored">> \notin pv'
    BY <1>6, Zenon DEF Block, Shape
  <2> QED BY <1>6, <2>1, <2>2, <2>3, <2>4, Zenon DEF Block, Shape, lists, handler, Asking, IteratorsValid, Has
<1>7. CASE HandlingDone
  <2>1. ref' \in [Nodes -> Int]
    BY <1>7, MapTypes DEF HandlingDone, Release
  <2> QED BY <1>7, <2>1, Zenon DEF HandlingDone, Shape, lists, flight, Asking, IteratorsValid, Has
<1> QED BY <1>1, <1>2, <1>4, <1>5, <1>6, <1>7 DEF Messages

\* The other threads.
LEMMA ShapeThreads ==
  ASSUME Shape,
         \/ Threads
         \/ \E n \in Nodes : Disconnect(n) \/ RemoveNode(n) \/ DeleteNode(n)
         \/ \E o \in Objs : Elapse(o)
  PROVE  Shape'
<1> USE Keys
<1>1. ASSUME NEW n \in Nodes, NEW b \in Blks, StoreBlock(n, b) PROVE Shape'
  <2>1. /\ pv' \subseteq Nodes \X Blks \X {"new", "stored"} /\ have' \subseteq Objs /\ lost' \subseteq Blks
        /\ mapBlocksInFlight' \in [Blks -> Nodes \cup {None}]
    BY <1>1, MapTypes DEF StoreBlock
  <2>2. IsFiniteSet(pv')
    <3>1. IsFiniteSet(pv \ {<<n, b, "new">>})
      BY FS_RemoveElement, Zenon DEF Shape
    <3> QED BY <1>1, <3>1, FS_AddElement, Zenon DEF StoreBlock
  <2>5. \A m \in Nodes, c \in Blks : <<m, c, "new">> \in pv' => <<m, c, "stored">> \notin pv'
    BY <1>1, Zenon DEF StoreBlock, Shape
  <2>3. CASE Forget(b)
    <3>1. UNCHANGED <<handler, node, mapAskFor, mapThinBlocksInFlight, asked, msgs>>
      BY <1>1 DEF StoreBlock
    <3> QED BY <2>1, <2>2, <2>3, <2>5, <3>1, ForgottenShape, Zenon DEF Shape
  <2>4. CASE UNCHANGED <<lists, ref>>
    BY <1>1, <2>1, <2>2, <2>4, <2>5, Zenon DEF StoreBlock, Shape, lists, handler, Asking, IteratorsValid, Has
  <2> QED BY <1>1, <2>3, <2>4 DEF StoreBlock
<1>2. ASSUME NEW n \in Nodes, NEW b \in Blks, ThreadEnds(n, b) PROVE Shape'
  <2>1. /\ pv' \subseteq pv
        /\ ref' \in [Nodes -> Int] /\ mapThinBlocksInFlight' \in [Nodes -> SUBSET Blks]
    BY <1>2, MapTypes DEF ThreadEnds, Release
  <2>2. IsFiniteSet(pv')
    BY <1>2, FS_RemoveElement, Zenon DEF ThreadEnds, Shape
  <2> QED BY <1>2, <2>1, <2>2, Zenon DEF ThreadEnds, Shape, lists, handler, Asking, IteratorsValid, Has
<1>3. ASSUME NEW n \in Nodes, Disconnect(n) PROVE Shape'
  BY <1>3, Zenon DEF Disconnect, Shape, lists, handler, flight, Asking, IteratorsValid, Has
<1>4. ASSUME NEW n \in Nodes, RemoveNode(n) PROVE Shape'
  <2>1. ref' \in [Nodes -> Int]
    BY <1>4, MapTypes DEF RemoveNode, Release
  <2> QED BY <1>4, <2>1, Zenon DEF RemoveNode, Shape, lists, handler, flight, Asking, IteratorsValid, Has
<1>5. ASSUME NEW n \in Nodes, DeleteNode(n) PROVE Shape'
  <2>1. /\ mapBlocksInFlight' \in [Blks -> Nodes \cup {None}] /\ lost' \subseteq Blks
        /\ mapAskFor' \in [Nodes -> SUBSET Txns]
        /\ mapThinBlocksInFlight' \in [Nodes -> SUBSET Blks] /\ asked' \subseteq Nodes \X Objs
    BY <1>5, Zenon DEF DeleteNode, Shape
  <2> QED BY <1>5, <2>1, Zenon DEF DeleteNode, Shape, lists, handler, Asking, IteratorsValid, Has
<1>6. ASSUME NEW o \in Objs, Elapse(o) PROVE Shape'
  <2> DEFINE new == [items[o] EXCEPT !.last = "late"]
  <2>1. items' = [items EXCEPT ![o] = new] /\ Has(o)
    BY <1>6 DEF Elapse
  <2>2. items[o] \in Item
    BY Zenon DEF Shape
  <2>3. new \in Item /\ new.src = items[o].src /\ new.out = items[o].out
    BY <2>2 DEF Item, Times
  <2> HIDE DEF new
  <2>4. /\ items' \in [Objs -> Item] /\ items'[o] = new
        /\ \A x \in Objs : x # o => items'[x] = items[x]
    BY <2>1, <2>3, Zenon DEF Shape
  <2>5. \A x \in Objs : IsInjective(items'[x].src) /\ items'[x].out = items[x].out
    BY <2>3, <2>4, Zenon DEF Shape
  <2>6. Has(o)'
    <3>1. NoItem.out = -1 /\ items[o].out \in Nat
      BY <2>1, Zenon DEF NoItem, Entry, Shape
    <3> QED BY <2>3, <2>4, <3>1 DEF Has
  <2>7. \A x \in Objs : Has(x)' <=> Has(x)
    BY <2>1, <2>4, <2>6 DEF Has
  <2>8. IteratorsValid'
    BY <1>6, <2>7 DEF Elapse, IteratorsValid, Shape
  <2>9. UNCHANGED <<handler, nodes, flight>>
    BY <1>6 DEF Elapse
  <2>10. UNCHANGED <<sendIter, sendBlkIter, inFlight, pc, hand, vNodesCopy, node, ref, mapAskFor,
                     mapThinBlocksInFlight, mapBlocksInFlight, asked, pv, have, msgs, lost>>
    BY <1>6 DEF Elapse, handler, nodes, flight
  <2>11. \A x \in Objs : Has(x)' => items'[x].out \in Nat
    BY <2>5, <2>7, Zenon DEF Shape
  <2>12. hand.obj \in Blks => (Has(hand.obj)' <=> Has(hand.obj)) /\ items'[hand.obj].out = items[hand.obj].out
    <3>1. hand' = hand
      BY <2>10
    <3> QED BY <2>5, <2>7, <3>1, Keys DEF Has
  <2> QED BY <2>4, <2>5, <2>8, <2>10, <2>11, <2>12, Zenon DEF Shape
<1> QED BY <1>1, <1>2, <1>3, <1>4, <1>5, <1>6 DEF Threads

\* Every step keeps the shape.
LEMMA ShapeNext == Shape /\ [Next]_vars => Shape'
<1> SUFFICES ASSUME Shape, [Next]_vars PROVE Shape'
  OBVIOUS
<1>1. CASE SendRequests
  BY <1>1, ShapeBlocks, ShapeTxns DEF SendRequests
<1>2. CASE Messages \/ HandlingDone
  BY <1>2, ShapeMessages
<1>3. CASE \/ Threads
           \/ \E n \in Nodes : Disconnect(n) \/ RemoveNode(n) \/ DeleteNode(n)
           \/ \E o \in Objs : Elapse(o)
  BY <1>3, ShapeThreads
<1>4. CASE UNCHANGED vars
  <2>1. UNCHANGED <<items, sendIter, sendBlkIter, inFlight, pc, hand, vNodesCopy, node, ref, mapAskFor,
                    mapThinBlocksInFlight, mapBlocksInFlight, asked, pv, have, lost, msgs>>
    BY <1>4 DEF vars, lists, handler, nodes, flight
  <2>2. IteratorsValid' /\ \A o \in Objs : Has(o)' <=> Has(o)
    BY <2>1, Zenon DEF IteratorsValid, Has, Shape
  <2>3. hand.obj \in Blks => (Has(hand.obj)' <=> Has(hand.obj))
    BY <2>1, Zenon DEF Has
  <2> QED BY <2>1, <2>2, <2>3, Zenon DEF Shape
<1> QED BY <1>1, <1>2, <1>3, <1>4 DEF Next

----------------------------------------------------------------------------
(* Deleted nodes.                                                          *)

\* The lists and the threads that refer to a node are finitely many.
LEMMA Finite ==
  ASSUME Shape, NEW n \in Nodes
  PROVE  /\ IsFiniteSet(Listed(n)) /\ Cardinality(Listed(n)) \in Nat
         /\ IsFiniteSet(Held(n)) /\ Cardinality(Held(n)) \in Nat
<1>1. Listed(n) \in SUBSET Objs /\ Held(n) \in SUBSET pv
  BY DEF Listed, Held
<1>2. IsFiniteSet(Objs) /\ IsFiniteSet(pv)
  BY RequestAssumption DEF Shape
<1> QED BY <1>1, <1>2, FS_Subset, FS_CardinalityType

\* A node that is deleted is referred to from nowhere.
LEMMA DeletedUnused ==
  ASSUME Shape, RefCounted, NEW n \in Nodes, DeleteNode(n)
  PROVE  Unused(n)'
<1>1. /\ Cardinality(Listed(n)) \in Nat /\ Cardinality(Held(n)) \in Nat
      /\ IsFiniteSet(Listed(n)) /\ IsFiniteSet(Held(n)) /\ n # None
  BY Finite, Keys
<1>2. Refs(n) <= 0
  BY DEF RefCounted, DeleteNode
<1>3. /\ hand.node # n /\ n \notin vNodesCopy
      /\ Cardinality(Listed(n)) = 0 /\ Cardinality(Held(n)) = 0
  BY <1>1, <1>2 DEF Refs, Count
<1>4. Listed(n) = {} /\ Held(n) = {}
  BY <1>1, <1>3, FS_EmptySet
<1>5. (\A o \in Objs : n \notin Sources(o)) /\ (\A p \in pv : p[1] # n)
  BY <1>4 DEF Listed, Held
<1>6. UNCHANGED <<hand, vNodesCopy, items, pv>>
  BY DEF DeleteNode, handler, lists
<1>7. \A b \in Blks : mapBlocksInFlight'[b] # n
  BY <1>1 DEF DeleteNode
<1> QED BY <1>3, <1>5, <1>6, <1>7 DEF Unused, Sources

\* Nothing comes to refer to a node that was deleted.
LEMMA StaysUnused ==
  ASSUME Shape, Next, NEW n \in Nodes, node[n] = "deleted", Unused(n)
  PROVE  Unused(n)'
<1>0. n # None
  BY Keys
<1>1. ASSUME \A o \in Objs : Range(items'[o].src) \subseteq Sources(o),
             hand'.node \in {hand.node, None} \/ \E o \in Objs : hand'.node \in Sources(o),
             vNodesCopy' \subseteq vNodesCopy \cup {m \in Nodes : node[m] # "deleted"},
             \A b \in Blks : mapBlocksInFlight'[b] \in {mapBlocksInFlight[b], hand.node, None},
             \A p \in pv' : \E q \in pv : p[1] = q[1]
      PROVE  Unused(n)'
  <2>1. \A o \in Objs : n \notin Sources(o)'
    BY <1>1 DEF Unused, Sources
  <2>2. n # hand'.node /\ n \notin vNodesCopy'
    BY <1>0, <1>1 DEF Unused
  <2>3. \A b \in Blks : mapBlocksInFlight'[b] # n
    BY <1>0, <1>1 DEF Unused
  <2>4. \A p \in pv' : p[1] # n
    BY <1>1 DEF Unused
  <2> QED BY <2>1, <2>2, <2>3, <2>4 DEF Unused
<1>2. ASSUME NEW o \in Objs, Forget(o),
             UNCHANGED <<hand, vNodesCopy>>,
             \A b \in Blks : mapBlocksInFlight'[b] \in {mapBlocksInFlight[b], hand.node, None},
             \A p \in pv' : \E q \in pv : p[1] = q[1]
      PROVE  Unused(n)'
  <2>1. items' = [items EXCEPT ![o] = NoItem]
    BY <1>2, ForgetFacts
  <2>2. Range(NoItem.src) = {}
    BY DEF NoItem, Entry, Range
  <2>3. \A x \in Objs : Range(items'[x].src) \subseteq Sources(x)
    BY <2>1, <2>2 DEF Shape, Sources
  <2> QED BY <1>1, <1>2, <2>3
<1>3. CASE SendRequests
  <2>1. pv' = pv
    BY <1>3, Zenon DEF SendRequests, Begin, VisitBlock, RequestBlock, BlockRequested, BlocksDone, VisitTxn,
         RequestTxn, TxnsDone
  <2>2. CASE VisitBlock \/ VisitTxn
    <3>1. PICK o \in Objs : \E slow, asking : Has(o) /\ Visit(o, slow, asking)
      BY <2>2, Keys, Zenon DEF VisitBlock, VisitTxn, Shape, IteratorsValid
    <3>2. PICK slow, asking : Has(o) /\ Visit(o, slow, asking)
      BY <3>1
    <3>3. /\ \A x \in Objs : x # o => items'[x] = items[x]
          /\ \/ /\ hand' = hand
                /\ items'[o].src = items[o].src \/ items'[o].src = <<>>
             \/ hand'.node \in Sources(o) /\ Range(items'[o].src) \subseteq Sources(o)
      BY <3>2, VisitFacts, Zenon
    <3>4. Range(<<>>) = {}
      BY DEF Range
    <3>5. \A x \in Objs : Range(items'[x].src) \subseteq Sources(x)
      BY <3>3, <3>4 DEF Sources
    <3>6. vNodesCopy' = vNodesCopy /\ mapBlocksInFlight' = mapBlocksInFlight
      BY <2>2 DEF VisitBlock, VisitTxn, flight
    <3> QED BY <1>1, <2>1, <3>3, <3>5, <3>6
  <2>3. CASE Begin \/ BlocksDone \/ TxnsDone \/ RequestTxn
    <3>1. items' = items /\ mapBlocksInFlight' = mapBlocksInFlight
      BY <2>3 DEF Begin, BlocksDone, TxnsDone, RequestTxn, flight, lists
    <3>2. hand' = hand \/ hand' = NoHand
      BY <2>3 DEF Begin, BlocksDone, TxnsDone, RequestTxn
    <3>3. NoHand.node = None
      BY DEF NoHand
    <3>4. vNodesCopy' \subseteq vNodesCopy \cup {m \in Nodes : node[m] # "deleted"}
      BY <2>3, Zenon DEF Begin, BlocksDone, TxnsDone, RequestTxn
    <3>5. \A o \in Objs : Range(items'[o].src) \subseteq Sources(o)
      BY <3>1 DEF Sources
    <3> QED BY <1>1, <2>1, <3>1, <3>2, <3>3, <3>4, <3>5
  <2>4. CASE RequestBlock
    <3>1. items' = items /\ vNodesCopy' = vNodesCopy
      BY <2>4 DEF RequestBlock, lists
    <3>2. hand'.node = hand.node
      BY <2>4 DEF RequestBlock, Shape, Hand
    <3>3. \A b \in Blks : mapBlocksInFlight'[b] \in {mapBlocksInFlight[b], hand.node, None}
      BY <2>4 DEF RequestBlock, MarkBlockAsInFlight, Shape
    <3>4. \A o \in Objs : Range(items'[o].src) \subseteq Sources(o)
      BY <3>1 DEF Sources
    <3> QED BY <1>1, <2>1, <3>1, <3>2, <3>3, <3>4, Zenon
  <2>5. CASE BlockRequested
    <3>1. hand.obj \in Objs /\ items \in [Objs -> Item]
      BY <2>5, Keys, Zenon DEF BlockRequested, Shape, Asking
    <3>2. \A x \in Objs : items'[x].src = items[x].src
      BY <2>5, <3>1 DEF BlockRequested, Entry
    <3>3. \A o \in Objs : Range(items'[o].src) \subseteq Sources(o)
      BY <3>2 DEF Sources
    <3>4. hand'.node = None /\ vNodesCopy' = vNodesCopy /\ mapBlocksInFlight' = mapBlocksInFlight
      BY <2>5 DEF BlockRequested, NoHand, flight
    <3> QED BY <1>1, <2>1, <3>3, <3>4
  <2> QED BY <1>3, <2>2, <2>3, <2>4, <2>5 DEF SendRequests
<1>4. ASSUME NEW m \in Nodes, NEW o \in Objs, Inv(m, o) PROVE Unused(n)'
  <2>1. AskFor(o, m) /\ node[m] = "up" /\ UNCHANGED <<handler, flight, pv>>
    BY <1>4 DEF Inv, Handling
  <2>2. m # n
    BY <2>1
  <2>3. \A x \in Objs : n \notin Range(items'[x].src)
    <3>1. /\ \A x \in Objs : x # o => items'[x] = items[x]
          /\ items' = items \/ Range(items'[o].src) = Sources(o) \cup {m}
      BY <2>1, AskForFacts, Zenon
    <3> QED BY <2>2, <3>1 DEF Unused, Sources
  <2> QED BY <2>1, <2>3 DEF Unused, Sources, handler, flight
<1>5. ASSUME NEW m \in Nodes, NEW o \in Objs, Reject(m, o) PROVE Unused(n)'
  <2>1. \A x \in Objs : items'[x].src = items[x].src
    BY <1>5, RejectKeeps, Zenon
  <2>2. UNCHANGED <<handler, flight, pv>>
    BY <1>5 DEF Reject
  <2> QED BY <2>1, <2>2 DEF Unused, Sources, handler, flight
<1>6. ASSUME NEW m \in Nodes, NEW t \in Txns, Tx(m, t) PROVE Unused(n)'
  BY <1>2, <1>6, Keys, Zenon DEF Tx, handler
<1>7. ASSUME NEW m \in Nodes, NEW t \in Txns, GetData(m, t) PROVE Unused(n)'
  <2>1. UNCHANGED <<handler, mapBlocksInFlight, pv>> /\ (Forget(t) \/ UNCHANGED lists)
    BY <1>7 DEF GetData
  <2>2. CASE Forget(t)
    BY <1>2, <2>1, <2>2, Keys DEF handler
  <2>3. CASE UNCHANGED lists
    BY <2>1, <2>3 DEF Unused, Sources, handler, lists
  <2> QED BY <2>1, <2>2, <2>3
<1>8. ASSUME NEW m \in Nodes, NEW b \in Blks, Block(m, b) PROVE Unused(n)'
  <2>1. m # n /\ UNCHANGED <<lists, handler, mapBlocksInFlight>> /\ pv' = pv \cup {<<m, b, "new">>}
    BY <1>8 DEF Block, Handling
  <2>2. \A p \in pv' : p[1] # n
    BY <2>1 DEF Unused
  <2> QED BY <2>1, <2>2 DEF Unused, Sources, handler, lists
<1>9. CASE HandlingDone
  BY <1>9, Zenon DEF HandlingDone, lists, flight, Unused, Sources
<1>10. ASSUME NEW m \in Nodes, NEW b \in Blks, StoreBlock(m, b) PROVE Unused(n)'
  <2>1. /\ UNCHANGED handler /\ (Forget(b) \/ UNCHANGED lists)
        /\ <<m, b, "new">> \in pv /\ pv' = (pv \ {<<m, b, "new">>}) \cup {<<m, b, "stored">>}
        /\ mapBlocksInFlight' = [mapBlocksInFlight EXCEPT ![b] = None]
    BY <1>10 DEF StoreBlock
  <2>2. \A c \in Blks : mapBlocksInFlight'[c] \in {mapBlocksInFlight[c], hand.node, None}
    BY <2>1 DEF Shape
  <2>3. \A p \in pv' : \E q \in pv : p[1] = q[1]
    BY <2>1
  <2>4. CASE Forget(b)
    BY <1>2, <2>1, <2>2, <2>3, <2>4, Keys, Zenon DEF handler
  <2>5. CASE UNCHANGED lists
    <3>1. \A o \in Objs : Range(items'[o].src) \subseteq Sources(o)
      BY <2>5 DEF Sources, lists
    <3> QED BY <1>1, <2>1, <2>2, <2>3, <3>1 DEF handler
  <2> QED BY <2>1, <2>4, <2>5
<1>11. ASSUME NEW m \in Nodes, NEW b \in Blks, ThreadEnds(m, b) PROVE Unused(n)'
  BY <1>11, Zenon DEF ThreadEnds, lists, handler, Unused, Sources
<1>12. ASSUME NEW m \in Nodes, Disconnect(m) \/ RemoveNode(m) PROVE Unused(n)'
  BY <1>12, Zenon DEF Disconnect, RemoveNode, lists, handler, flight, Unused, Sources
<1>13. ASSUME NEW m \in Nodes, DeleteNode(m) PROVE Unused(n)'
  <2>1. UNCHANGED <<lists, handler, pv>>
    BY <1>13 DEF DeleteNode
  <2>2. \A b \in Blks : mapBlocksInFlight'[b] # n
    BY <1>0, <1>13, Zenon DEF DeleteNode, Unused
  <2> QED BY <2>1, <2>2, Zenon DEF Unused, Sources, lists, handler
<1>14. ASSUME NEW o \in Objs, Elapse(o) PROVE Unused(n)'
  <2>1. \A x \in Objs : items'[x].src = items[x].src
    BY <1>14 DEF Elapse, Shape, Item
  <2>2. UNCHANGED <<handler, flight, pv>>
    BY <1>14 DEF Elapse
  <2> QED BY <2>1, <2>2, Zenon DEF Unused, Sources, handler, flight
<1> QED BY <1>3, <1>4, <1>5, <1>6, <1>7, <1>8, <1>9, <1>10, <1>11, <1>12, <1>13, <1>14
        DEF Next, Messages, Threads

\* No step leaves something that names a deleted node.
LEMMA NoDanglingNext ==
  Shape /\ RefCounted /\ NoDanglingNode /\ [Next]_vars => NoDanglingNode'
<1> SUFFICES ASSUME Shape, RefCounted, NoDanglingNode, [Next]_vars,
                    NEW n \in Nodes, node'[n] = "deleted"
             PROVE  Unused(n)'
  BY DEF NoDanglingNode
<1>1. CASE UNCHANGED vars
  <2>1. UNCHANGED <<node, hand, vNodesCopy, items, mapBlocksInFlight, pv>>
    BY <1>1 DEF vars, nodes, handler, lists, flight
  <2> QED BY <2>1 DEF NoDanglingNode, Unused, Sources
<1>2. CASE Next /\ node[n] = "deleted"
  BY <1>2, StaysUnused DEF NoDanglingNode
<1>3. CASE Next /\ node[n] # "deleted"
  <2>1. node' = node \/ \E m \in Nodes : Disconnect(m) \/ RemoveNode(m) \/ DeleteNode(m)
    BY <1>3, Zenon DEF Next, SendRequests, Begin, VisitBlock, RequestBlock, BlockRequested, BlocksDone,
         VisitTxn, RequestTxn, TxnsDone, Messages, Inv, Reject, Tx, GetData, Block, HandlingDone,
         Threads, StoreBlock, ThreadEnds, Elapse, nodes
  <2>2. PICK m \in Nodes : Disconnect(m) \/ RemoveNode(m) \/ DeleteNode(m)
    BY <1>3, <2>1
  <2>3. DeleteNode(m) /\ m = n
    BY <1>3, <2>2, Zenon DEF Disconnect, RemoveNode, DeleteNode, Shape
  <2> QED BY <2>3, DeletedUnused
<1> QED BY <1>1, <1>2, <1>3

----------------------------------------------------------------------------
(* Blocks in flight.                                                       *)

\* No step forgets a block in flight that is still waited for.
LEMMA RememberedNext == Shape /\ RequestRemembered /\ [Next]_vars => RequestRemembered'
<1> SUFFICES ASSUME Shape, RequestRemembered, [Next]_vars,
                    NEW n \in Nodes, NEW b \in Blks, b \notin have', b \notin lost',
                    <<n, b>> \in asked' \/ <<n, b, "new">> \in pv'
             PROVE  mapBlocksInFlight'[b] # None
  BY DEF RequestRemembered
<1> DEFINE Wanted == <<n, b>> \in asked \/ <<n, b, "new">> \in pv
<1>0. b \notin Txns /\ None \notin Nodes /\ b \in Objs
  BY Keys
<1>1. ASSUME b \notin have, b \notin lost, Wanted PROVE mapBlocksInFlight[b] # None
  BY <1>1 DEF RequestRemembered
<1>2. ASSUME UNCHANGED <<mapBlocksInFlight, lost>>, have \subseteq have', Wanted
      PROVE  mapBlocksInFlight'[b] # None
  BY <1>1, <1>2
<1>3. CASE UNCHANGED vars
  BY <1>2, <1>3 DEF vars, flight
<1>4. CASE SendRequests /\ ~RequestBlock
  <2>1. UNCHANGED <<mapBlocksInFlight, lost, have, asked, pv>>
    BY <1>4, Zenon DEF SendRequests, Begin, VisitBlock, BlockRequested, BlocksDone, VisitTxn, RequestTxn,
         TxnsDone, flight
  <2> QED BY <1>2, <2>1
<1>5. CASE RequestBlock
  <2>1. hand.node \in Nodes /\ have' = have /\ pv' = pv
    BY <1>5 DEF RequestBlock, Shape, Asking
  <2>2. CASE MarkBlockAsInFlight(hand.node, hand.obj) /\ asked' = asked \cup {<<hand.node, hand.obj>>}
    <3>1. CASE b = hand.obj
      BY <1>0, <2>1, <2>2, <3>1 DEF MarkBlockAsInFlight, Shape
    <3>2. CASE b # hand.obj
      <4>1. Wanted /\ b \notin lost /\ b \notin have
        BY <2>1, <2>2, <3>2 DEF MarkBlockAsInFlight
      <4>2. mapBlocksInFlight'[b] = mapBlocksInFlight[b]
        BY <2>2, <3>2 DEF MarkBlockAsInFlight, Shape
      <4> QED BY <1>1, <4>1, <4>2
    <3> QED BY <3>1, <3>2
  <2>3. CASE UNCHANGED <<mapBlocksInFlight, asked, lost>>
    BY <1>2, <2>1, <2>3
  <2> QED BY <1>5, <2>2, <2>3 DEF RequestBlock
<1>6. CASE Messages \/ HandlingDone
  <2>1. UNCHANGED <<mapBlocksInFlight, lost>> /\ have \subseteq have'
    BY <1>6, Zenon DEF Messages, Inv, Reject, Tx, GetData, Block, HandlingDone, flight
  <2>2. CASE UNCHANGED <<asked, pv>>
    BY <1>2, <2>1, <2>2
  <2>3. ASSUME NEW m \in Nodes, NEW t \in Txns, Tx(m, t) \/ GetData(m, t)
        PROVE  Wanted
    <3>1. pv' = pv /\ (asked' \subseteq asked \/ asked' = asked \cup {<<m, t>>})
      BY <2>3 DEF Tx, GetData
    <3> QED BY <1>0, <3>1
  <2>4. ASSUME NEW m \in Nodes, NEW c \in Blks, Block(m, c)
        PROVE  Wanted
    BY <2>4 DEF Block
  <2>5. \/ UNCHANGED <<asked, pv>>
        \/ \E m \in Nodes, t \in Txns : Tx(m, t) \/ GetData(m, t)
        \/ \E m \in Nodes, c \in Blks : Block(m, c)
    BY <1>6, Zenon DEF Messages, Inv, Reject, HandlingDone, flight
  <2> QED BY <1>2, <2>1, <2>2, <2>3, <2>4, <2>5
<1>7. ASSUME NEW m \in Nodes, NEW c \in Blks, StoreBlock(m, c)
      PROVE  mapBlocksInFlight'[b] # None
  <2>1. /\ asked' = asked /\ have \subseteq have' /\ lost \subseteq lost'
        /\ pv' = (pv \ {<<m, c, "new">>}) \cup {<<m, c, "stored">>} /\ <<m, c, "new">> \in pv
        /\ mapBlocksInFlight' = [mapBlocksInFlight EXCEPT ![c] = None]
        /\ c \in have' \/ c \in lost' \/ (mapBlocksInFlight[c] = None /\ UNCHANGED <<have, lost>>)
    BY <1>7 DEF StoreBlock
  <2>2. Wanted /\ b \notin have /\ b \notin lost
    BY <2>1
  <2>3. mapBlocksInFlight[b] # None
    BY <1>1, <2>2
  <2>4. b # c
    BY <2>1, <2>3
  <2> QED BY <2>1, <2>3, <2>4, Zenon DEF Shape
<1>8. ASSUME NEW m \in Nodes, NEW c \in Blks, ThreadEnds(m, c)
      PROVE  mapBlocksInFlight'[b] # None
  BY <1>2, <1>8 DEF ThreadEnds
<1>9. ASSUME NEW m \in Nodes, DeleteNode(m)
      PROVE  mapBlocksInFlight'[b] # None
  <2>1. Wanted /\ b \notin have /\ b \notin lost /\ mapBlocksInFlight[b] # m
    BY <1>9 DEF DeleteNode
  <2>2. mapBlocksInFlight'[b] = mapBlocksInFlight[b]
    BY <1>9, <2>1 DEF DeleteNode
  <2> QED BY <1>1, <2>1, <2>2
<1>10. ASSUME NEW m \in Nodes, Disconnect(m) \/ RemoveNode(m)
       PROVE  mapBlocksInFlight'[b] # None
  BY <1>2, <1>10 DEF Disconnect, RemoveNode, flight
<1>11. ASSUME NEW o \in Objs, Elapse(o)
       PROVE  mapBlocksInFlight'[b] # None
  BY <1>2, <1>11 DEF Elapse, flight
<1> QED BY <1>3, <1>4, <1>5, <1>6, <1>7, <1>8, <1>9, <1>10, <1>11 DEF Next, Threads
=============================================================================
