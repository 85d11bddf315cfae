----------------------- MODULE RequestManagerProofs -----------------------
(***************************************************************************)
(* The reference counts of RequestManager balance, and the theorems, for   *)
(* any nodes and any finite set of transactions and blocks.                *)
(***************************************************************************)
EXTENDS RequestManagerShape

----------------------------------------------------------------------------
(* Reference counts.                                                       *)

\* The same in the next state.
LEMMA FiniteNext ==
  ASSUME Shape', NEW n \in Nodes
  PROVE  /\ IsFiniteSet(Listed(n)') /\ Cardinality(Listed(n)') \in Nat
         /\ IsFiniteSet(Held(n)') /\ Cardinality(Held(n)') \in Nat
<1>1. Listed(n)' \in SUBSET Objs /\ Held(n)' \in SUBSET pv'
  BY DEF Listed, Held
<1>2. IsFiniteSet(Objs) /\ IsFiniteSet(pv')
  BY RequestAssumption DEF Shape
<1> QED BY <1>1, <1>2, FS_Subset, FS_CardinalityType

\* When the sources of one object change, a node gains or loses that entry.
LEMMA ListedChange ==
  ASSUME Shape, NEW o \in Objs, \A x \in Objs : x # o => items'[x].src = items[x].src,
         NEW n \in Nodes
  PROVE  Cardinality(Listed(n)') = Cardinality(Listed(n))
            + Count(n \in Range(items'[o].src)) - Count(n \in Sources(o))
<1>0. IsFiniteSet(Listed(n)) /\ Cardinality(Listed(n)) \in Nat
  BY Finite
<1>1. \A x \in Objs : x # o => (x \in Listed(n)' <=> x \in Listed(n))
  BY DEF Listed, Sources
<1>2. (o \in Listed(n)' <=> n \in Range(items'[o].src)) /\ (o \in Listed(n) <=> n \in Sources(o))
  BY DEF Listed, Sources
<1>3. Listed(n)' \subseteq Objs /\ Listed(n) \subseteq Objs
  BY DEF Listed
<1>4. CASE o \in Listed(n)' <=> o \in Listed(n)
  <2>1. Listed(n)' = Listed(n)
    BY <1>1, <1>3, <1>4
  <2> QED BY <1>0, <1>2, <1>4, <2>1 DEF Count
<1>5. CASE o \in Listed(n)' /\ o \notin Listed(n)
  <2>1. Listed(n)' = Listed(n) \cup {o}
    BY <1>1, <1>3, <1>5
  <2>2. Cardinality(Listed(n) \cup {o}) = Cardinality(Listed(n)) + 1
    BY <1>0, <1>5, FS_AddElement, Zenon
  <2> QED BY <1>0, <1>2, <1>5, <2>1, <2>2 DEF Count
<1>6. CASE o \notin Listed(n)' /\ o \in Listed(n)
  <2>1. Listed(n)' = Listed(n) \ {o}
    BY <1>1, <1>3, <1>6
  <2>2. Cardinality(Listed(n) \ {o}) = Cardinality(Listed(n)) - 1
    BY <1>0, <1>6, FS_RemoveElement, Zenon
  <2> QED BY <1>0, <1>2, <1>6, <2>1, <2>2 DEF Count
<1> QED BY <1>4, <1>5, <1>6

\* When no list changes, no node is listed elsewhere.
LEMMA ListedSame ==
  ASSUME \A x \in Objs : items'[x].src = items[x].src, NEW n \in Nodes
  PROVE  Listed(n)' = Listed(n)
  BY DEF Listed, Sources

\* SendRequests takes a reference over from the list of sources and gives it back.
LEMMA RefsSend ==
  ASSUME Shape, Shape', RefCounted, SendRequests, NEW n \in Nodes
  PROVE  ref'[n] = Refs(n)'
<1>0. /\ Cardinality(Listed(n)) \in Nat /\ Cardinality(Held(n)) \in Nat /\ ref[n] \in Int
      /\ ref[n] = Refs(n) /\ n # None
  BY Finite, Keys, Zenon DEF RefCounted, Shape
<1>1. pv' = pv /\ node' = node
  BY DEF SendRequests, Begin, VisitBlock, RequestBlock, BlockRequested, BlocksDone, VisitTxn,
         RequestTxn, TxnsDone, nodes
<1>2. Held(n)' = Held(n)
  BY <1>1 DEF Held
<1>3. ASSUME NEW o \in Objs, Has(o), NEW slow, NEW asking, Visit(o, slow, asking),
             vNodesCopy' = vNodesCopy, hand.node = None
      PROVE  ref'[n] = Refs(n)'
  <2>1. \A x \in Objs : x # o => items'[x].src = items[x].src
    BY <1>3, VisitFacts, Zenon
  <2>2. Cardinality(Listed(n)') = Cardinality(Listed(n))
            + Count(n \in Range(items'[o].src)) - Count(n \in Sources(o))
    BY <2>1, ListedChange
  <2>3. \/ /\ hand' = hand
           /\ \/ items'[o].src = items[o].src /\ ref' = ref
              \/ items'[o].src = <<>> /\ ref' = Release(ref, Sources(o))
        \/ /\ hand'.node \in Sources(o)
           /\ hand'.node \notin Range(items'[o].src)
           /\ Range(items'[o].src) \subseteq Sources(o)
           /\ ref' = Release(ref, Sources(o) \ (Range(items'[o].src) \cup {hand'.node}))
    BY <1>3, VisitFacts
  <2>4. CASE hand' = hand /\ items'[o].src = items[o].src /\ ref' = ref
    <3>1. Range(items'[o].src) = Sources(o)
      BY <2>4 DEF Sources
    <3> QED BY <1>0, <1>1, <1>2, <1>3, <2>2, <2>4, <3>1 DEF Refs, Count
  <2>5. CASE hand' = hand /\ items'[o].src = <<>> /\ ref' = Release(ref, Sources(o))
    <3>1. Range(items'[o].src) = {}
      BY <2>5 DEF Range
    <3>2. ref'[n] = ref[n] - Count(n \in Sources(o))
      BY <1>0, <2>5 DEF Release, Count
    <3>3. /\ Count(n \in Range(items'[o].src)) = 0 /\ Count(n \in Sources(o)) \in Int
          /\ Count(node'[n] \in {"up", "disconnect"}) = Count(node[n] \in {"up", "disconnect"})
          /\ Count(n \in vNodesCopy') = Count(n \in vNodesCopy)
          /\ Count(hand'.node = n) = Count(hand.node = n)
      BY <1>1, <1>3, <2>5, <3>1 DEF Count
    <3>4. /\ Count(node[n] \in {"up", "disconnect"}) \in Int /\ Count(n \in vNodesCopy) \in Int
          /\ Count(hand.node = n) \in Int
      BY DEF Count
    <3> QED BY <1>0, <1>2, <2>2, <3>2, <3>3, <3>4 DEF Refs
  <2>6. CASE /\ hand'.node \in Sources(o)
             /\ hand'.node \notin Range(items'[o].src)
             /\ Range(items'[o].src) \subseteq Sources(o)
             /\ ref' = Release(ref, Sources(o) \ (Range(items'[o].src) \cup {hand'.node}))
    <3> DEFINE gone == Sources(o) \ (Range(items'[o].src) \cup {hand'.node})
    <3>1. ref'[n] = ref[n] - Count(n \in gone)
      BY <1>0, <2>6 DEF Release, Count
    <3>2. Count(n \in gone) = Count(n \in Sources(o)) - Count(n \in Range(items'[o].src)) - Count(hand'.node = n)
      BY <2>6 DEF Count
    <3>3. Count(hand.node = n) = 0
      BY <1>0, <1>3 DEF Count
    <3>4. /\ Count(n \in Sources(o)) \in Int /\ Count(n \in Range(items'[o].src)) \in Int
          /\ Count(hand'.node = n) \in Int
      BY DEF Count
    <3> HIDE DEF gone
    <3>5. /\ Count(node'[n] \in {"up", "disconnect"}) = Count(node[n] \in {"up", "disconnect"})
          /\ Count(n \in vNodesCopy') = Count(n \in vNodesCopy)
          /\ Count(node[n] \in {"up", "disconnect"}) \in Int /\ Count(n \in vNodesCopy) \in Int
      BY <1>1, <1>3 DEF Count
    <3> QED BY <1>0, <1>2, <2>2, <3>1, <3>2, <3>3, <3>4, <3>5 DEF Refs
  <2> QED BY <2>3, <2>4, <2>5, <2>6
<1>4. CASE Begin \/ BlocksDone
  <2>1. Listed(n)' = Listed(n)
    BY <1>4, ListedSame DEF Begin, BlocksDone
  <2>2. ref' = ref /\ hand' = hand /\ vNodesCopy' = vNodesCopy
    BY <1>4 DEF Begin, BlocksDone, nodes
  <2> QED BY <1>0, <1>1, <1>2, <2>1, <2>2 DEF Refs
<1>5. CASE VisitBlock
  <2>1. sendBlkIter \in Objs /\ Has(sendBlkIter) /\ hand.node = None /\ vNodesCopy' = vNodesCopy
    BY <1>5, Keys, Zenon DEF VisitBlock, Shape, IteratorsValid, Asking
  <2>2. PICK slow : Visit(sendBlkIter, slow, "askBlk")
    BY <1>5 DEF VisitBlock
  <2> QED BY <1>3, <2>1, <2>2
<1>6. CASE VisitTxn
  <2>1. sendIter \in Objs /\ Has(sendIter) /\ hand.node = None /\ vNodesCopy' = vNodesCopy
    BY <1>6, Keys, Zenon DEF VisitTxn, Shape, IteratorsValid, Asking
  <2>2. Visit(sendIter, {}, "askTx")
    BY <1>6 DEF VisitTxn
  <2> QED BY <1>3, <2>1, <2>2
<1>7. CASE RequestBlock
  <2>1. items' = items /\ ref' = ref /\ vNodesCopy' = vNodesCopy
    BY <1>7 DEF RequestBlock, lists, nodes
  <2>2. hand'.node = hand.node
    BY <1>7 DEF RequestBlock, Shape, Hand
  <2>3. Listed(n)' = Listed(n)
    BY <2>1, ListedSame
  <2> QED BY <1>0, <1>1, <1>2, <2>1, <2>2, <2>3 DEF Refs
<1>8. CASE BlockRequested \/ RequestTxn
  <2>1. /\ ref' = Release(ref, {hand.node}) /\ hand' = NoHand /\ vNodesCopy' = vNodesCopy
        /\ \A x \in Objs : items'[x].src = items[x].src
    <3>1. CASE BlockRequested
      <4>1. hand.obj \in Objs /\ items \in [Objs -> Item]
        BY <3>1, Keys, Zenon DEF BlockRequested, Shape, Asking
      <4> QED BY <3>1, <4>1 DEF BlockRequested, Entry
    <3>2. CASE RequestTxn
      BY <3>2 DEF RequestTxn
    <3> QED BY <1>8, <3>1, <3>2
  <2>2. Listed(n)' = Listed(n)
    BY <2>1, ListedSame
  <2>3. hand'.node = None
    BY <2>1 DEF NoHand
  <2>4. ref'[n] = ref[n] - Count(hand.node = n)
    BY <1>0, <2>1 DEF Release, Count
  <2> QED BY <1>0, <1>1, <1>2, <2>1, <2>2, <2>3, <2>4 DEF Refs, Count
<1>9. CASE TxnsDone
  <2>1. items' = items /\ hand' = hand /\ vNodesCopy = {} /\ ref' = AddRef(vNodesCopy')
    BY <1>9, Zenon DEF TxnsDone, lists, Shape
  <2>2. Listed(n)' = Listed(n)
    BY <2>1, ListedSame
  <2>3. ref'[n] = ref[n] + Count(n \in vNodesCopy')
    BY <1>0, <2>1 DEF AddRef, Count
  <2> QED BY <1>0, <1>1, <1>2, <2>1, <2>2, <2>3 DEF Refs, Count
<1> QED BY <1>4, <1>5, <1>6, <1>7, <1>8, <1>9 DEF SendRequests

\* Forgetting an object releases its sources.
LEMMA RefsForget ==
  ASSUME Shape, RefCounted, NEW o \in Objs, Forget(o), NEW n \in Nodes, NEW held \in Int,
         UNCHANGED <<handler, node>>, Cardinality(Held(n)') = Cardinality(Held(n)) + held
  PROVE  ref'[n] + held = Refs(n)'
<1>0. /\ Cardinality(Listed(n)) \in Nat /\ Cardinality(Held(n)) \in Nat /\ ref[n] \in Int
      /\ ref[n] = Refs(n)
  BY Finite, Zenon DEF RefCounted, Shape
<1>1. items' = [items EXCEPT ![o] = NoItem] /\ ref' = Release(ref, Sources(o))
  BY ForgetFacts
<1>2. (\A x \in Objs : x # o => items'[x].src = items[x].src) /\ items'[o] = NoItem
  BY <1>1 DEF Shape
<1>3. Range(items'[o].src) = {}
  BY <1>2 DEF NoItem, Entry, Range
<1>4. Cardinality(Listed(n)') = Cardinality(Listed(n))
            + Count(n \in Range(items'[o].src)) - Count(n \in Sources(o))
  BY <1>2, ListedChange
<1>5. ref'[n] = ref[n] - Count(n \in Sources(o))
  BY <1>0, <1>1 DEF Release, Count
<1>6. hand' = hand /\ vNodesCopy' = vNodesCopy /\ node' = node
  BY DEF handler
<1> QED BY <1>0, <1>3, <1>4, <1>5, <1>6 DEF Refs, Count

\* When only the threads that hold a node change, so does the number of references.
LEMMA HeldChange ==
  ASSUME Shape, Shape', NEW n \in Nodes, Listed(n)' = Listed(n),
         node' = node, hand' = hand, vNodesCopy' = vNodesCopy
  PROVE  /\ Refs(n) \in Int
         /\ Refs(n)' = Refs(n) + (Cardinality(Held(n)') - Cardinality(Held(n)))
<1>1. /\ Cardinality(Listed(n)) \in Nat /\ Cardinality(Held(n)) \in Nat
      /\ Cardinality(Held(n)') \in Nat
  BY Finite, FiniteNext, Zenon
<1> DEFINE rest == Count(node[n] \in {"up", "disconnect"}) + Count(hand.node = n) + Count(n \in vNodesCopy)
<1>2. rest \in Int
  BY DEF Count
<1>3. rest' = rest
  BY DEF Count
<1>4. Refs(n) = rest + Cardinality(Listed(n)) + Cardinality(Held(n))
  BY DEF Refs
<1>5. Refs(n)' = rest' + Cardinality(Listed(n)') + Cardinality(Held(n)')
  BY DEF Refs
<1> HIDE DEF rest
<1> QED BY <1>1, <1>2, <1>3, <1>4, <1>5

\* Messages, validation threads and the life of a node.
LEMMA RefsOther ==
  ASSUME Shape, Shape', RefCounted, Next, ~SendRequests, NEW n \in Nodes
  PROVE  ref'[n] = Refs(n)'
<1>0. /\ Cardinality(Listed(n)) \in Nat /\ Cardinality(Held(n)) \in Nat /\ ref[n] \in Int
      /\ IsFiniteSet(Held(n)) /\ ref[n] = Refs(n)
  BY Finite, Zenon DEF RefCounted, Shape
<1>1. ASSUME pv' = pv PROVE Held(n)' = Held(n)
  BY <1>1 DEF Held
<1>2. ASSUME NEW m \in Nodes, NEW o \in Objs, Inv(m, o) PROVE ref'[n] = Refs(n)'
  <2>1. AskFor(o, m) /\ UNCHANGED <<handler, node, pv>>
    BY <1>2 DEF Inv
  <2>2. hand' = hand /\ vNodesCopy' = vNodesCopy /\ node' = node /\ Held(n)' = Held(n)
    BY <1>1, <2>1 DEF handler
  <2>3. CASE items' = items /\ ref' = ref
    <3>1. Listed(n)' = Listed(n)
      BY <2>3, ListedSame
    <3> QED BY <1>0, <2>2, <2>3, <3>1, Zenon DEF Refs
  <2>4. CASE /\ m \notin Sources(o) /\ Range(items'[o].src) = Sources(o) \cup {m}
             /\ ref' = AddRef({m})
    <3>1. \A x \in Objs : x # o => items'[x].src = items[x].src
      BY <2>1, AskForFacts, Zenon
    <3>2. Cardinality(Listed(n)') = Cardinality(Listed(n))
            + Count(n \in Range(items'[o].src)) - Count(n \in Sources(o))
      BY <3>1, ListedChange
    <3>3. ref'[n] = ref[n] + Count(n = m)
      BY <1>0, <2>4 DEF AddRef, Count
    <3>4. Count(n \in Range(items'[o].src)) = Count(n \in Sources(o)) + Count(n = m)
      BY <2>4 DEF Count
    <3> QED BY <1>0, <2>2, <3>2, <3>3, <3>4 DEF Refs, Count
  <2> QED BY <2>1, <2>3, <2>4, AskForFacts, Zenon
<1>3. ASSUME NEW m \in Nodes, NEW o \in Objs, Reject(m, o) PROVE ref'[n] = Refs(n)'
  <2>1. \A x \in Objs : items'[x].src = items[x].src
    BY <1>3, RejectKeeps, Zenon
  <2>2. Listed(n)' = Listed(n)
    BY <2>1, ListedSame
  <2>3. /\ hand' = hand /\ vNodesCopy' = vNodesCopy /\ node' = node /\ ref' = ref
        /\ Held(n)' = Held(n)
    BY <1>1, <1>3 DEF Reject, handler, nodes
  <2> QED BY <1>0, <2>2, <2>3 DEF Refs
<1>4. ASSUME NEW m \in Nodes, NEW t \in Txns, Tx(m, t) PROVE ref'[n] = Refs(n)'
  <2>1. t \in Objs /\ Forget(t) /\ UNCHANGED <<handler, node>> /\ pv' = pv
    BY <1>4, Keys DEF Tx
  <2>2. Cardinality(Held(n)') = Cardinality(Held(n)) + 0
    BY <1>0, <1>1, <2>1
  <2>3. ref'[n] + 0 = Refs(n)'
    BY <2>1, <2>2, RefsForget
  <2>4. ref'[n] \in Int
    BY Zenon DEF Shape
  <2> QED BY <2>3, <2>4
<1>5. ASSUME NEW m \in Nodes, NEW t \in Txns, GetData(m, t) PROVE ref'[n] = Refs(n)'
  <2>1. t \in Objs /\ UNCHANGED <<handler, node>> /\ pv' = pv
    BY <1>5, Keys DEF GetData
  <2>2. CASE Forget(t)
    <3>1. Cardinality(Held(n)') = Cardinality(Held(n)) + 0
      BY <1>0, <1>1, <2>1
    <3>2. ref'[n] + 0 = Refs(n)'
      BY <2>1, <2>2, <3>1, RefsForget
    <3>3. ref'[n] \in Int
      BY Zenon DEF Shape
    <3> QED BY <3>2, <3>3
  <2>3. CASE UNCHANGED <<lists, ref>>
    <3>1. Listed(n)' = Listed(n)
      BY <2>3, ListedSame DEF lists
    <3> QED BY <1>0, <1>1, <2>1, <2>3, <3>1 DEF Refs, handler
  <2> QED BY <1>5, <2>2, <2>3 DEF GetData
<1>6. ASSUME NEW m \in Nodes, NEW b \in Blks, Block(m, b) PROVE ref'[n] = Refs(n)'
  <2> DEFINE p == <<m, b, "new">>
  <2>1. /\ p \notin pv /\ pv' = pv \cup {p} /\ ref' = AddRef({m}) /\ items' = items
        /\ hand' = hand /\ vNodesCopy' = vNodesCopy /\ node' = node
    BY <1>6 DEF Block, lists, handler
  <2>2. Listed(n)' = Listed(n)
    BY <2>1, ListedSame
  <2>3. p[1] = m
    OBVIOUS
  <2> HIDE DEF p
  <2>4. Held(n)' = IF n = m THEN Held(n) \cup {p} ELSE Held(n)
    BY <2>1, <2>3 DEF Held
  <2>5. p \notin Held(n)
    BY <2>1 DEF Held
  <2>6. Cardinality(Held(n) \cup {p}) = Cardinality(Held(n)) + 1
    BY <1>0, <2>5, FS_AddElement, Zenon
  <2>7. ref'[n] = ref[n] + Count(n = m)
    BY <1>0, <2>1 DEF AddRef, Count
  <2>8. Refs(n)' = Refs(n) + (Cardinality(Held(n)') - Cardinality(Held(n)))
    BY <2>1, <2>2, HeldChange, Zenon
  <2> QED BY <1>0, <2>4, <2>6, <2>7, <2>8 DEF Count
<1>7. CASE HandlingDone
  <2>1. /\ ref' = Release(ref, vNodesCopy) /\ vNodesCopy' = {} /\ items' = items
        /\ hand' = hand /\ node' = node /\ pv' = pv
    BY <1>7 DEF HandlingDone, lists
  <2>2. Listed(n)' = Listed(n)
    BY <2>1, ListedSame
  <2>3. ref'[n] = ref[n] - Count(n \in vNodesCopy)
    BY <1>0, <2>1 DEF Release, Count
  <2>4. Held(n)' = Held(n) /\ vNodesCopy' = {} /\ hand' = hand /\ node' = node
    BY <1>1, <2>1, Zenon
  <2>5. CASE n \in vNodesCopy
    <3>1. ref'[n] = ref[n] - 1
      BY <2>3, <2>5 DEF Count
    <3> QED BY <1>0, <2>2, <2>4, <2>5, <3>1 DEF Refs, Count
  <2>6. CASE n \notin vNodesCopy
    <3>1. ref'[n] = ref[n]
      BY <1>0, <2>3, <2>6 DEF Count
    <3> QED BY <1>0, <2>2, <2>4, <2>6, <3>1 DEF Refs, Count
  <2> QED BY <2>5, <2>6
<1>8. ASSUME NEW m \in Nodes, NEW b \in Blks, StoreBlock(m, b) PROVE ref'[n] = Refs(n)'
  <2> DEFINE p == <<m, b, "new">>
             q == <<m, b, "stored">>
  <2>1. /\ p \in pv /\ q \notin pv /\ pv' = (pv \ {p}) \cup {q} /\ UNCHANGED <<handler, node>>
    BY <1>8, Zenon DEF StoreBlock, Shape
  <2>2. p[1] = m /\ q[1] = m /\ p # q
    OBVIOUS
  <2> HIDE DEF p, q
  <2>3. Cardinality(Held(n)') = Cardinality(Held(n)) + 0
    <3>1. CASE n # m
      <4>1. Held(n)' = Held(n)
        BY <2>1, <2>2, <3>1 DEF Held
      <4> QED BY <1>0, <4>1
    <3>2. CASE n = m
      <4>1. Held(n)' = (Held(n) \ {p}) \cup {q} /\ p \in Held(n) /\ q \notin Held(n) \ {p}
        BY <2>1, <2>2, <3>2 DEF Held
      <4>2. IsFiniteSet(Held(n) \ {p}) /\ Cardinality(Held(n) \ {p}) = Cardinality(Held(n)) - 1
        BY <1>0, <4>1, FS_RemoveElement
      <4>3. Cardinality((Held(n) \ {p}) \cup {q}) = Cardinality(Held(n) \ {p}) + 1
        BY <4>1, <4>2, FS_AddElement
      <4> QED BY <1>0, <4>1, <4>2, <4>3
    <3> QED BY <3>1, <3>2
  <2>4. CASE Forget(b)
    <3>1. b \in Objs
      BY Keys
    <3>2. ref'[n] + 0 = Refs(n)'
      BY <2>1, <2>3, <2>4, <3>1, RefsForget
    <3>3. ref'[n] \in Int
      BY Zenon DEF Shape
    <3> QED BY <3>2, <3>3
  <2>5. CASE UNCHANGED <<lists, ref>>
    <3>1. Listed(n)' = Listed(n)
      BY <2>5, ListedSame DEF lists
    <3>2. ref' = ref /\ node' = node /\ hand' = hand /\ vNodesCopy' = vNodesCopy
      BY <2>1, <2>5, Zenon DEF handler
    <3>3. Cardinality(Held(n)') = Cardinality(Held(n))
      BY <1>0, <2>3
    <3> QED BY <1>0, <3>1, <3>2, <3>3, Zenon DEF Refs
  <2> QED BY <1>8, <2>4, <2>5 DEF StoreBlock
<1>9. ASSUME NEW m \in Nodes, NEW b \in Blks, ThreadEnds(m, b) PROVE ref'[n] = Refs(n)'
  <2> DEFINE p == <<m, b, "stored">>
  <2>1. /\ p \in pv /\ pv' = pv \ {p} /\ ref' = Release(ref, {m}) /\ items' = items
        /\ hand' = hand /\ vNodesCopy' = vNodesCopy /\ node' = node
    BY <1>9 DEF ThreadEnds, lists, handler
  <2>2. Listed(n)' = Listed(n)
    BY <2>1, ListedSame
  <2>3. p[1] = m
    OBVIOUS
  <2> HIDE DEF p
  <2>4. Held(n)' = IF n = m THEN Held(n) \ {p} ELSE Held(n)
    BY <2>1, <2>3 DEF Held
  <2>5. n = m => p \in Held(n)
    BY <2>1, <2>3 DEF Held
  <2>6. n = m => Cardinality(Held(n) \ {p}) = Cardinality(Held(n)) - 1
    BY <1>0, <2>5, FS_RemoveElement, Zenon
  <2>7. ref'[n] = ref[n] - Count(n = m)
    BY <1>0, <2>1 DEF Release, Count
  <2>8. Refs(n)' = Refs(n) + (Cardinality(Held(n)') - Cardinality(Held(n)))
    BY <2>1, <2>2, HeldChange, Zenon
  <2> QED BY <1>0, <2>4, <2>6, <2>7, <2>8 DEF Count
<1>10. ASSUME NEW m \in Nodes, Disconnect(m) \/ RemoveNode(m) \/ DeleteNode(m)
       PROVE  ref'[n] = Refs(n)'
  <2>1. items' = items /\ hand' = hand /\ vNodesCopy' = vNodesCopy /\ pv' = pv
    BY <1>10, Zenon DEF Disconnect, RemoveNode, DeleteNode, lists, handler
  <2>2. Listed(n)' = Listed(n) /\ Held(n)' = Held(n)
    BY <1>1, <2>1, ListedSame
  <2>3. /\ node \in [Nodes -> {"up", "disconnect", "removed", "deleted"}]
        /\ ref \in [Nodes -> Int]
    BY Zenon DEF Shape
  <2>4. CASE Disconnect(m)
    BY <1>0, <2>1, <2>2, <2>3, <2>4 DEF Disconnect, Refs, Count
  <2>5. CASE RemoveNode(m)
    <3>1. ref'[n] = ref[n] - Count(n = m)
      BY <1>0, <2>5 DEF RemoveNode, Release, Count
    <3>2. node[m] = "disconnect" /\ node' = [node EXCEPT ![m] = "removed"]
      BY <2>5 DEF RemoveNode
    <3>3. CASE n = m
      <4>1. node[n] = "disconnect" /\ node'[n] = "removed" /\ ref'[n] = ref[n] - 1
        BY <2>3, <3>1, <3>2, <3>3 DEF Count
      <4> QED BY <1>0, <2>1, <2>2, <4>1 DEF Refs, Count
    <3>4. CASE n # m
      <4>1. node'[n] = node[n] /\ ref'[n] = ref[n]
        BY <1>0, <2>3, <3>1, <3>2, <3>4 DEF Count
      <4> QED BY <1>0, <2>1, <2>2, <4>1, Zenon DEF Refs
    <3> QED BY <3>3, <3>4
  <2>6. CASE DeleteNode(m)
    BY <1>0, <2>1, <2>2, <2>3, <2>6, Zenon DEF DeleteNode, Refs, Count
  <2> QED BY <1>10, <2>4, <2>5, <2>6
<1>11. ASSUME NEW o \in Objs, Elapse(o) PROVE ref'[n] = Refs(n)'
  <2>1. \A x \in Objs : items'[x].src = items[x].src
    BY <1>11 DEF Elapse, Shape, Item
  <2>2. Listed(n)' = Listed(n)
    BY <2>1, ListedSame
  <2>3. /\ hand' = hand /\ vNodesCopy' = vNodesCopy /\ node' = node /\ ref' = ref
        /\ Held(n)' = Held(n)
    BY <1>1, <1>11 DEF Elapse, handler, nodes
  <2> QED BY <1>0, <2>2, <2>3, Zenon DEF Refs
<1> QED BY <1>2, <1>3, <1>4, <1>5, <1>6, <1>7, <1>8, <1>9, <1>10, <1>11 DEF Next, Messages, Threads

\* Every step keeps the counts right.
LEMMA RefsNext == Shape /\ Shape' /\ RefCounted /\ [Next]_vars => RefCounted'
<1> SUFFICES ASSUME Shape, Shape', RefCounted, [Next]_vars, NEW n \in Nodes
             PROVE  ref'[n] = Refs(n)'
  BY DEF RefCounted
<1>1. CASE SendRequests
  BY <1>1, RefsSend
<1>2. CASE Next /\ ~SendRequests
  BY <1>2, RefsOther
<1>3. CASE UNCHANGED vars
  <2>1. Listed(n)' = Listed(n) /\ Held(n)' = Held(n)
    BY <1>3, ListedSame DEF vars, lists, Held
  <2> QED BY <1>3, <2>1 DEF vars, handler, nodes, Refs, RefCounted
<1> QED BY <1>1, <1>2, <1>3

----------------------------------------------------------------------------
(* The theorems.                                                           *)

\* The inductive invariant.
Invariant == Shape /\ RefCounted /\ NoDanglingNode /\ RequestRemembered

\* Init establishes the invariant.
LEMMA InvariantInit == Init => Invariant
<1> SUFFICES ASSUME Init PROVE Invariant
  OBVIOUS
<1>1. Shape
  BY ShapeInit
<1>2. ASSUME NEW n \in Nodes PROVE ref[n] = Refs(n)
  <2>1. n # None
    BY Keys
  <2>2. Listed(n) = {}
    <3>1. \A o \in Objs : items[o].src = <<>>
      BY DEF Init, NoItem, Entry
    <3>2. Range(<<>>) = {}
      BY DEF Range
    <3> QED BY <3>1, <3>2 DEF Listed, Sources
  <2>3. Held(n) = {}
    BY DEF Init, Held
  <2>4. Cardinality({}) = 0
    BY FS_EmptySet
  <2>5. /\ node[n] = "up" /\ hand.node = None /\ n \notin vNodesCopy /\ ref[n] = 1
    BY DEF Init, NoHand
  <2> QED BY <2>1, <2>2, <2>3, <2>4, <2>5 DEF Refs, Count
<1>3. NoDanglingNode
  BY DEF Init, NoDanglingNode
<1>4. RequestRemembered
  BY DEF Init, RequestRemembered
<1> QED BY <1>1, <1>2, <1>3, <1>4 DEF Invariant, RefCounted

\* Every step keeps the invariant.
LEMMA InvariantNext == Invariant /\ [Next]_vars => Invariant'
<1> SUFFICES ASSUME Invariant, [Next]_vars PROVE Invariant'
  OBVIOUS
<1>1. Shape'
  BY ShapeNext DEF Invariant
<1>2. RefCounted'
  BY <1>1, RefsNext DEF Invariant
<1>3. NoDanglingNode'
  BY NoDanglingNext DEF Invariant
<1>4. RequestRemembered'
  BY RememberedNext DEF Invariant
<1> QED BY <1>1, <1>2, <1>3, <1>4 DEF Invariant

\* Every behaviour keeps the invariant.
LEMMA InvariantHolds == Spec => []Invariant
BY InvariantInit, InvariantNext, PTL DEF Spec

\* The variables keep their types: no reference count goes below zero, and AddSource
\* lists no node twice.
THEOREM TypeCorrect == Spec => []TypeOK
<1>1. Invariant => TypeOK
  <2> SUFFICES ASSUME Invariant PROVE TypeOK
    OBVIOUS
  <2>1. ASSUME NEW n \in Nodes PROVE ref[n] \in Nat
    <3>1. Cardinality(Listed(n)) \in Nat /\ Cardinality(Held(n)) \in Nat
      BY Finite DEF Invariant
    <3>2. ref[n] = Refs(n)
      BY DEF Invariant, RefCounted
    <3> QED BY <3>1, <3>2 DEF Refs, Count
  <2>2. ref \in [Nodes -> Nat]
    BY <2>1 DEF Invariant, Shape
  <2> QED BY <2>2, Zenon DEF Invariant, Shape, TypeOK
<1> QED BY <1>1, InvariantHolds, PTL

\* AddRef and Release balance: a node's nRefCount is always the number of places that
\* refer to it, whatever the threads interleave.
THEOREM RefCorrect == Spec => []RefCounted
<1>1. Invariant => RefCounted
  BY DEF Invariant
<1> QED BY <1>1, InvariantHolds, PTL

\* The socket thread deletes a node only when no list, request, thread or block in
\* flight names it, and nothing comes to name it afterwards.
THEOREM NoDanglingCorrect == Spec => []NoDanglingNode
<1>1. Invariant => NoDanglingNode
  BY DEF Invariant
<1> QED BY <1>1, InvariantHolds, PTL

\* The iterators that SendRequests keeps stay valid although other threads erase
\* entries while it has released its lock.
THEOREM IteratorsCorrect == Spec => []IteratorsValid
<1>1. Invariant => IteratorsValid
  BY DEF Invariant, Shape
<1> QED BY <1>1, InvariantHolds, PTL

\* A block that is asked for stays marked as in flight until it is there, its node is
\* deleted or a copy of it is refused.
THEOREM RememberedCorrect == Spec => []RequestRemembered
<1>1. Invariant => RequestRemembered
  BY DEF Invariant
<1> QED BY <1>1, InvariantHolds, PTL
=============================================================================
