------------------------ MODULE RequestManagerLists ------------------------
(***************************************************************************)
(* The shape of RequestManager's state, what the operations do to the      *)
(* lists, the iterators and the source lists, and that SendRequests keeps  *)
(* the shape, for any nodes and any finite set of transactions and blocks. *)
(***************************************************************************)
EXTENDS RequestManager, WellFoundedInduction, FiniteSetTheorems, TLAPS

Asking == {"askBlk", "askedBlk"}

(***************************************************************************)
(* Types without the sign of the reference counts, and what the place of   *)
(* the message handler thread tells about the request it makes.            *)
(***************************************************************************)
Shape ==
    /\ items \in [Objs -> Item] /\ \A o \in Objs : IsInjective(items[o].src)
    /\ \A o \in Objs : Has(o) => items[o].out \in Nat
    /\ sendIter \in Txns \cup {End} /\ sendBlkIter \in Blks \cup {End} /\ inFlight \in Int
    /\ pc \in {"loop", "blks", "askBlk", "askedBlk", "txns", "askTx", "nodes"}
    /\ hand \in Hand /\ vNodesCopy \subseteq Nodes
    /\ pc \in Asking => /\ hand.node \in Nodes /\ hand.obj \in Blks
                        /\ Has(hand.obj) => items[hand.obj].out > 0
    /\ pc = "askTx" => hand.node \in Nodes /\ hand.obj \in Txns
    /\ pc \notin Asking \cup {"askTx"} => hand.node = None
    /\ pc # "nodes" => vNodesCopy = {}
    /\ node \in [Nodes -> {"up", "disconnect", "removed", "deleted"}]
    /\ ref \in [Nodes -> Int]
    /\ mapAskFor \in [Nodes -> SUBSET Txns]
    /\ mapThinBlocksInFlight \in [Nodes -> SUBSET Blks]
    /\ mapBlocksInFlight \in [Blks -> Nodes \cup {None}]
    /\ asked \subseteq Nodes \X Objs
    /\ pv \subseteq Nodes \X Blks \X {"new", "stored"} /\ IsFiniteSet(pv)
    /\ \A n \in Nodes, b \in Blks : <<n, b, "new">> \in pv => <<n, b, "stored">> \notin pv
    /\ have \subseteq Objs /\ lost \subseteq Blks /\ msgs \in 0 .. MaxMsgs
    /\ IteratorsValid

----------------------------------------------------------------------------
(* Numbers, sequences, and the iterators.                                  *)

\* A set of numbers has a least one.
LEMMA MinIn ==
  ASSUME NEW S \in SUBSET Nat, S # {}
  PROVE  Min(S) \in S /\ \A y \in S : Min(S) <= y
<1> DEFINE R == OpToRel(<, Nat)
<1>1. IsWellFoundedOn(R, Nat)
  BY NatLessThanWellFounded, Zenon
<1>2. \A x, y \in Nat : <<y, x>> \notin R => x <= y
  BY DEF OpToRel
<1> HIDE DEF R
<1>3. PICK x \in S : \A y \in S : ~(<<y, x>> \in R)
  BY <1>1, WFMin, Zenon
<1>4. \A y \in S : x <= y
  BY <1>2, <1>3, Zenon
<1> QED BY <1>4, Zenon DEF Min

\* The next entry of the map: its end, or an entry behind this one.
LEMMA NextItemIs ==
  ASSUME NEW o \in Objs
  PROVE  \/ NextItem(o) = End
         \/ /\ NextItem(o) \in IF o \in Txns THEN Txns ELSE Blks
            /\ NextItem(o) # o /\ Has(NextItem(o))
<1> DEFINE S == {x \in IF o \in Txns THEN Txns ELSE Blks : x > o /\ Has(x)} \cup {End}
<1>1. S \in SUBSET Nat /\ S # {} /\ o \in Nat
  BY RequestAssumption, Zenon DEF Objs
<1>2. NextItem(o) = Min(S)
  BY DEF NextItem
<1>3. Min(S) \in S
  BY <1>1, MinIn
<1> HIDE DEF S
<1>4. NextItem(o) \in S
  BY <1>2, <1>3
<1> QED BY <1>1, <1>4 DEF S

\* The first entry of the map, or its end.
LEMMA FirstIs ==
  ASSUME NEW S \in SUBSET Objs
  PROVE  First(S) = End \/ (First(S) \in S /\ Has(First(S)))
<1> DEFINE T == {x \in S : Has(x)} \cup {End}
<1>1. T \in SUBSET Nat /\ T # {}
  BY RequestAssumption, Zenon DEF Objs
<1>2. First(S) = Min(T)
  BY DEF First
<1>3. Min(T) \in T
  BY <1>1, MinIn
<1> HIDE DEF T
<1>4. First(S) \in T
  BY <1>2, <1>3
<1> QED BY <1>4 DEF T

\* The elements of a sequence, by their places.
LEMMA RangeOf ==
  ASSUME NEW s \in Seq(Nodes)
  PROVE  Range(s) = {s[j] : j \in 1 .. Len(s)} /\ Range(s) \subseteq Nodes
<1>1. DOMAIN s = 1 .. Len(s)
  OBVIOUS
<1> QED BY <1>1 DEF Range

\* AddSource inserts one node, which was not listed.
LEMMA InsertFacts ==
  ASSUME NEW s \in Seq(Nodes), IsInjective(s), NEW n \in Nodes, n \notin Range(s),
         NEW i \in 1 .. Len(s) + 1
  PROVE  /\ Inserted(s, i, n) \in Seq(Nodes) /\ IsInjective(Inserted(s, i, n))
         /\ Range(Inserted(s, i, n)) = Range(s) \cup {n}
<1> DEFINE t == Inserted(s, i, n)
           a == SubSeq(s, 1, i - 1)
           b == SubSeq(s, i, Len(s))
           u == a \o <<n>>
<1>0. t = u \o b
  BY DEF Inserted
<1>a. a \in Seq(Nodes) /\ Len(a) = i - 1 /\ \A j \in 1 .. i - 1 : a[j] = s[j]
  OBVIOUS
<1>b. b \in Seq(Nodes) /\ Len(b) = Len(s) + 1 - i
      /\ \A j \in 1 .. Len(s) + 1 - i : b[j] = s[j + i - 1]
  OBVIOUS
<1> HIDE DEF a, b
<1>u. u \in Seq(Nodes) /\ Len(u) = i /\ (\A j \in 1 .. i - 1 : u[j] = s[j]) /\ u[i] = n
  BY <1>a
<1> HIDE DEF t, u
<1>1. t \in Seq(Nodes) /\ Len(t) = Len(s) + 1
  BY <1>0, <1>b, <1>u
<1>2. ASSUME NEW j \in 1 .. Len(t)
      PROVE  t[j] = IF j < i THEN s[j] ELSE IF j = i THEN n ELSE s[j - 1]
  <2>1. t[j] = IF j <= i THEN u[j] ELSE b[j - i]
    BY <1>0, <1>1, <1>b, <1>u
  <2>2. CASE j <= i
    BY <1>u, <2>1, <2>2
  <2>3. CASE j > i
    <3>1. j - i \in 1 .. Len(s) + 1 - i /\ (j - i) + i - 1 = j - 1
      BY <1>1, <2>3
    <3>2. b[j - i] = s[(j - i) + i - 1]
      BY <1>b, <3>1
    <3> QED BY <2>1, <2>3, <3>1, <3>2
  <2> QED BY <2>2, <2>3
<1>3. \A j \in 1 .. Len(s) : s[j] # n
  BY DEF Range
<1>4. \A j, k \in 1 .. Len(s) : s[j] = s[k] => j = k
  BY DEF IsInjective
<1>5. IsInjective(t)
  <2> SUFFICES ASSUME NEW j \in 1 .. Len(t), NEW k \in 1 .. Len(t), t[j] = t[k]
               PROVE  j = k
    BY <1>1 DEF IsInjective
  <2>1. t[j] = (IF j < i THEN s[j] ELSE IF j = i THEN n ELSE s[j - 1])
    BY <1>2
  <2>2. t[k] = (IF k < i THEN s[k] ELSE IF k = i THEN n ELSE s[k - 1])
    BY <1>2
  <2>3. CASE j = i \/ k = i
    <3>1. ASSUME NEW l \in 1 .. Len(t), l # i PROVE t[l] # n
      <4>1. t[l] = IF l < i THEN s[l] ELSE s[l - 1]
        BY <1>2, <3>1
      <4>2. (l < i => l \in 1 .. Len(s)) /\ (~(l < i) => l - 1 \in 1 .. Len(s))
        BY <1>1, <3>1
      <4> QED BY <1>3, <4>1, <4>2
    <3>2. t[i] = n
      BY <1>1, <1>2
    <3> QED BY <2>3, <3>1, <3>2
  <2>4. CASE j # i /\ k # i
    <3> DEFINE jj == IF j < i THEN j ELSE j - 1
               kk == IF k < i THEN k ELSE k - 1
    <3>1. jj \in 1 .. Len(s) /\ kk \in 1 .. Len(s)
      BY <1>1, <2>4
    <3>2. t[j] = s[jj] /\ t[k] = s[kk]
      BY <2>1, <2>2, <2>4, Zenon
    <3>3. jj = kk
      BY <1>4, <3>1, <3>2, Zenon
    <3> QED BY <1>1, <2>4, <3>3
  <2> QED BY <2>3, <2>4
<1>6. ASSUME NEW j \in 1 .. Len(t) PROVE t[j] \in Range(s) \cup {n}
  <2>1. t[j] = n \/ \E l \in 1 .. Len(s) : t[j] = s[l]
    BY <1>1, <1>2
  <2> QED BY <2>1, RangeOf
<1>7. \A j \in 1 .. Len(s) : t[IF j < i THEN j ELSE j + 1] = s[j]
  BY <1>1, <1>2
<1>8. t[i] = n /\ i \in 1 .. Len(t)
  BY <1>1, <1>2
<1>9. Range(t) \subseteq Range(s) \cup {n}
  BY <1>1, <1>6 DEF Range
<1>10. ASSUME NEW j \in 1 .. Len(s) PROVE s[j] \in Range(t)
  <2>1. (IF j < i THEN j ELSE j + 1) \in 1 .. Len(t)
    BY <1>1
  <2> QED BY <1>1, <1>7, <2>1 DEF Range
<1>11. Range(s) \cup {n} \subseteq Range(t)
  BY <1>1, <1>8, <1>10 DEF Range
<1> QED BY <1>1, <1>5, <1>9, <1>11 DEF t

\* SendRequests takes sources off the front, which the rest does not name.
LEMMA FrontFacts ==
  ASSUME NEW s \in Seq(Nodes), IsInjective(s), NEW k \in 0 .. Len(s) - 1
  PROVE  /\ SubSeq(s, k + 2, Len(s)) \in Seq(Nodes) /\ IsInjective(SubSeq(s, k + 2, Len(s)))
         /\ s[k + 1] \in Nodes
         /\ Range(s) = Range(SubSeq(s, 1, k)) \cup {s[k + 1]} \cup Range(SubSeq(s, k + 2, Len(s)))
         /\ s[k + 1] \notin Range(SubSeq(s, 1, k)) \cup Range(SubSeq(s, k + 2, Len(s)))
         /\ Range(SubSeq(s, 1, k)) \cap Range(SubSeq(s, k + 2, Len(s))) = {}
<1> DEFINE a == SubSeq(s, 1, k)
           b == SubSeq(s, k + 2, Len(s))
<1>1. a \in Seq(Nodes) /\ Len(a) = k /\ b \in Seq(Nodes) /\ Len(b) = Len(s) - k - 1
  OBVIOUS
<1>2. (\A j \in 1 .. Len(a) : a[j] = s[j]) /\ (\A j \in 1 .. Len(b) : b[j] = s[j + k + 1])
  OBVIOUS
<1> HIDE DEF a, b
<1>3. \A i, j \in 1 .. Len(s) : s[i] = s[j] => i = j
  BY DEF IsInjective
<1>4. IsInjective(b)
  <2>0. DOMAIN b = 1 .. Len(b)
    BY <1>1
  <2> SUFFICES ASSUME NEW i \in 1 .. Len(b), NEW j \in 1 .. Len(b), b[i] = b[j] PROVE i = j
    BY <2>0, Zenon DEF IsInjective
  <2>1. s[i + k + 1] = s[j + k + 1]
    BY <1>2
  <2> QED BY <1>1, <1>3, <2>1
<1>5. Range(a) = {s[j] : j \in 1 .. k}
  BY <1>1, <1>2, RangeOf, ZenonT(60)
<1>6. Range(b) = {s[j] : j \in k + 2 .. Len(s)}
  <2>1. ASSUME NEW j \in 1 .. Len(b) PROVE b[j] \in {s[i] : i \in k + 2 .. Len(s)}
    <3>1. j + k + 1 \in k + 2 .. Len(s) /\ b[j] = s[j + k + 1]
      BY <1>1, <1>2
    <3> QED BY <3>1
  <2>2. ASSUME NEW j \in k + 2 .. Len(s) PROVE s[j] \in Range(b)
    <3>1. j - k - 1 \in 1 .. Len(b) /\ b[j - k - 1] = s[j]
      BY <1>1, <1>2
    <3> QED BY <1>1, <3>1 DEF Range
  <2>3. Range(b) = {b[j] : j \in 1 .. Len(b)}
    BY <1>1, RangeOf
  <2>4. Range(b) \subseteq {s[j] : j \in k + 2 .. Len(s)}
    BY <2>1, <2>3
  <2>5. {s[j] : j \in k + 2 .. Len(s)} \subseteq Range(b)
    BY <2>2
  <2> QED BY <2>4, <2>5
<1>7. Range(s) = Range(a) \cup {s[k + 1]} \cup Range(b)
  <2>1. Range(s) = {s[j] : j \in 1 .. Len(s)}
    BY DEF Range
  <2> QED BY <1>5, <1>6, <2>1
<1>8. s[k + 1] \notin Range(a) \cup Range(b) /\ Range(a) \cap Range(b) = {}
  BY <1>3, <1>5, <1>6
<1> QED BY <1>1, <1>4, <1>7, <1>8 DEF a, b

----------------------------------------------------------------------------
(* What the shared parts of the actions do to the types.                   *)

\* AskFor lists the node, or finds it listed.
LEMMA AskForFacts ==
  ASSUME Shape, NEW o \in Objs, NEW n \in Nodes, AskFor(o, n)
  PROVE  /\ items' \in [Objs -> Item] /\ ref' \in [Nodes -> Int]
         /\ \A x \in Objs : IsInjective(items'[x].src) /\ (x # o => items'[x] = items[x])
         /\ \A x \in Objs : Has(x) => Has(x)'
         /\ \A x \in Objs : Has(x)' => items'[x].out \in Nat
         /\ \/ items' = items /\ ref' = ref
            \/ /\ n \notin Sources(o) /\ Range(items'[o].src) = Sources(o) \cup {n}
               /\ ref' = AddRef({n})
<1> DEFINE item == IF Has(o) THEN items[o] ELSE NewItem
<1>1. /\ item \in Item /\ IsInjective(item.src) /\ item.out \in Nat
      /\ Range(item.src) = Sources(o)
  <2>1. CASE Has(o)
    BY <2>1 DEF Shape, Sources
  <2>2. CASE ~Has(o)
    <3>1. item = [src |-> <<>>, rateLimited |-> FALSE, last |-> "never", out |-> 0]
      BY <2>2 DEF NewItem, Entry
    <3>2. items[o].src = <<>>
      BY <2>2 DEF Has, NoItem, Entry
    <3>3. IsInjective(<<>>)
      BY DEF IsInjective
    <3>4. <<>> \in Seq(Nodes) /\ item.src = <<>> /\ item.out = 0
      BY <3>1
    <3> HIDE DEF item
    <3>5. item \in Item
      BY <3>1, <3>4 DEF Item, Times
    <3> QED BY <3>2, <3>3, <3>4, <3>5 DEF Sources
  <2> QED BY <2>1, <2>2
<1>2. CASE n \in Range(item.src) /\ items' = items /\ ref' = ref
  BY <1>2 DEF Shape, Has
<1>3. CASE /\ n \notin Range(item.src) /\ ref' = AddRef({n})
           /\ \E i \in 1 .. Len(item.src) + 1 :
                 items' = [items EXCEPT ![o] = [item EXCEPT !.src = Inserted(@, i, n)]]
  <2> HIDE DEF item
  <2>1. PICK i \in 1 .. Len(item.src) + 1 :
               items' = [items EXCEPT ![o] = [item EXCEPT !.src = Inserted(@, i, n)]]
    BY <1>3, Zenon
  <2> DEFINE t == Inserted(item.src, i, n)
  <2>2. item.src \in Seq(Nodes)
    BY <1>1 DEF Item
  <2>3. t \in Seq(Nodes) /\ IsInjective(t) /\ Range(t) = Range(item.src) \cup {n}
    BY <1>1, <1>3, <2>2, InsertFacts
  <2> HIDE DEF t
  <2> DEFINE new == [item EXCEPT !.src = t]
  <2>4. new \in Item /\ new.src = t /\ new.out = item.out
    BY <1>1, <2>3 DEF Item
  <2>5. items' = [items EXCEPT ![o] = new]
    BY <2>1 DEF t
  <2> HIDE DEF new
  <2>6. items' \in [Objs -> Item] /\ items'[o] = new /\ \A x \in Objs : x # o => items'[x] = items[x]
    BY <2>4, <2>5 DEF Shape
  <2>7. \A x \in Objs : IsInjective(items'[x].src)
    BY <2>3, <2>4, <2>6, Zenon DEF Shape
  <2>8. Has(o)'
    BY <1>1, <2>4, <2>6 DEF Has, NoItem, Entry
  <2>9. \A x \in Objs : Has(x) => Has(x)'
    BY <2>6, <2>8 DEF Has
  <2>10. \A x \in Objs : Has(x)' => items'[x].out \in Nat
    BY <1>1, <2>4, <2>6, Zenon DEF Has, Shape
  <2>11. ref' \in [Nodes -> Int]
    BY <1>3 DEF AddRef, Shape
  <2>12. n \notin Sources(o) /\ Range(items'[o].src) = Sources(o) \cup {n} /\ ref' = AddRef({n})
    BY <1>1, <1>3, <2>3, <2>4, <2>6, Zenon
  <2> QED BY <2>6, <2>7, <2>9, <2>10, <2>11, <2>12, Zenon
<1> QED BY <1>2, <1>3 DEF AskFor

\* Forget removes the entry, releases its sources and leaves no iterator on it.
LEMMA ForgetFacts ==
  ASSUME Shape, NEW o \in Objs, Forget(o)
  PROVE  /\ items' = [items EXCEPT ![o] = NoItem] /\ items' \in [Objs -> Item]
         /\ \A x \in Objs : IsInjective(items'[x].src)
         /\ ref' = Release(ref, Sources(o)) /\ ref' \in [Nodes -> Int]
         /\ inFlight' \in Int
         /\ sendIter' \in Txns \cup {End} /\ sendBlkIter' \in Blks \cup {End}
         /\ sendIter' = sendIter \/ sendIter' = End \/ (sendIter' # o /\ Has(sendIter'))
         /\ sendBlkIter' = sendBlkIter \/ sendBlkIter' = End \/ (sendBlkIter' # o /\ Has(sendBlkIter'))
         /\ Has(o) => sendIter' # o /\ sendBlkIter' # o
<1>1. NoItem \in Item /\ IsInjective(NoItem.src) /\ Range(NoItem.src) = {}
  <2>1. <<>> \in Seq(Nodes) /\ IsInjective(<<>>) /\ Range(<<>>) = {}
    BY DEF IsInjective, Range
  <2> QED BY <2>1 DEF Entry, NoItem, Item, Times
<1>2. o # End /\ End \notin Objs
  BY RequestAssumption DEF Objs
<1>3. CASE Has(o)
  <2>1. cleanup(o)
    BY <1>3 DEF Forget
  <2>2. items' = [items EXCEPT ![o] = NoItem] /\ items' \in [Objs -> Item]
    BY <1>1, <2>1 DEF cleanup, Shape
  <2>3. \A x \in Objs : IsInjective(items'[x].src)
    BY <1>1, <2>2 DEF Shape
  <2>4. ref' = Release(ref, Sources(o)) /\ ref' \in [Nodes -> Int]
    BY <2>1 DEF cleanup, Release, Shape
  <2>5. inFlight' \in Int
    BY <2>1 DEF cleanup, Shape, Item
  <2>6. \/ NextItem(o) = End
        \/ /\ NextItem(o) \in IF o \in Txns THEN Txns ELSE Blks
           /\ NextItem(o) # o /\ Has(NextItem(o))
    BY NextItemIs
  <2>7. sendIter' \in Txns \cup {End} /\ sendBlkIter' \in Blks \cup {End}
    BY <1>2, <2>1, <2>6, RequestAssumption DEF cleanup, Shape, Objs
  <2>8. /\ sendIter' = sendIter \/ sendIter' = End \/ (sendIter' # o /\ Has(sendIter'))
        /\ sendBlkIter' = sendBlkIter \/ sendBlkIter' = End \/ (sendBlkIter' # o /\ Has(sendBlkIter'))
        /\ sendIter' # o /\ sendBlkIter' # o
    BY <1>2, <2>1, <2>6 DEF cleanup
  <2> QED BY <2>2, <2>3, <2>4, <2>5, <2>7, <2>8
<1>4. CASE ~Has(o)
  <2>1. UNCHANGED <<lists, ref>>
    BY <1>4 DEF Forget
  <2>2. items[o] = NoItem /\ items' = items
    BY <1>4, <2>1 DEF Has, lists
  <2>3. items = [items EXCEPT ![o] = NoItem]
    BY <2>2 DEF Shape
  <2>4. Sources(o) = {}
    BY <1>1, <2>2 DEF Sources
  <2>5. ref = Release(ref, Sources(o))
    BY <2>4 DEF Release, Shape
  <2> QED BY <1>4, <2>1, <2>2, <2>3, <2>5 DEF lists, Shape
<1> QED BY <1>3, <1>4

\* A visit of SendRequests changes one entry; what it takes off the list of sources it
\* releases, but for the node it takes in hand.
LEMMA VisitFacts ==
  ASSUME Shape, NEW o \in Objs, NEW slow, NEW asking, Visit(o, slow, asking), Has(o)
  PROVE  /\ items' \in [Objs -> Item] /\ ref' \in [Nodes -> Int] /\ inFlight' \in Int
         /\ \A x \in Objs : IsInjective(items'[x].src) /\ (x # o => items'[x] = items[x])
         /\ \A x \in Objs : Has(x)' => items'[x].out \in Nat
         /\ \/ /\ hand' = hand /\ pc' = pc
               /\ \/ items'[o].src = items[o].src /\ ref' = ref
                  \/ items'[o].src = <<>> /\ ref' = Release(ref, Sources(o))
            \/ /\ hand' \in Hand /\ hand'.node \in Nodes /\ hand'.obj = o
               /\ pc' = asking /\ items'[o].out > 0
               /\ hand'.node \in Sources(o)
               /\ hand'.node \notin Range(items'[o].src)
               /\ Range(items'[o].src) \subseteq Sources(o)
               /\ ref' = Release(ref, Sources(o) \ (Range(items'[o].src) \cup {hand'.node}))
<1>0. /\ items[o] \in Item /\ IsInjective(items[o].src) /\ items[o].out \in Nat
      /\ items[o].src \in Seq(Nodes) /\ items[o].last \in Times
  BY DEF Shape, Item
<1>1. CASE LeaveAlone(o)
  BY <1>1, Zenon DEF LeaveAlone, Shape, Has
<1>2. CASE GiveUp(o)
  <2>1. items' = [items EXCEPT ![o] = NoItem] /\ items[o].src = <<>> /\ ref' = ref
        /\ hand' = hand /\ pc' = pc /\ inFlight' = inFlight - items[o].out
    BY <1>2 DEF GiveUp
  <2>2. NoItem \in Item /\ NoItem.src = <<>> /\ IsInjective(NoItem.src)
    <3>1. <<>> \in Seq(Nodes) /\ IsInjective(<<>>)
      BY DEF IsInjective
    <3> QED BY <3>1 DEF Entry, NoItem, Item, Times
  <2>3. /\ items' \in [Objs -> Item] /\ items'[o] = NoItem
        /\ \A x \in Objs : x # o => items'[x] = items[x]
    BY <2>1, <2>2, Zenon DEF Shape
  <2>4. ~Has(o)'
    BY <2>3 DEF Has
  <2>5. \A x \in Objs : IsInjective(items'[x].src)
    BY <2>2, <2>3, Zenon DEF Shape
  <2>6. \A x \in Objs : Has(x)' => items'[x].out \in Nat
    BY <2>3, <2>4 DEF Has, Shape
  <2>7. inFlight' \in Int /\ ref' \in [Nodes -> Int]
    <3>1. inFlight \in Int /\ ref \in [Nodes -> Int]
      BY Zenon DEF Shape
    <3>2. items[o].out \in Int
      BY <1>0 DEF Item
    <3>3. inFlight' \in Int
      BY <2>1, <3>1, <3>2
    <3> QED BY <2>1, <3>1, <3>3, Zenon
  <2>8. items'[o].src = items[o].src
    BY <2>1, <2>2, <2>3
  <2> QED BY <2>1, <2>3, <2>5, <2>6, <2>7, <2>8
<1>3. CASE NoSource(o, slow)
  <2>1. /\ items' = [items EXCEPT ![o].src = <<>>] /\ ref' = Release(ref, Sources(o))
        /\ hand' = hand /\ pc' = pc /\ inFlight' = inFlight
    BY <1>3 DEF NoSource, Sources
  <2> DEFINE new == [items[o] EXCEPT !.src = <<>>]
  <2>2. new \in Item /\ new.src = <<>> /\ new.out = items[o].out
    <3>1. <<>> \in Seq(Nodes)
      OBVIOUS
    <3> QED BY <1>0, <3>1, Zenon DEF Item
  <2>3. items' = [items EXCEPT ![o] = new]
    BY <2>1
  <2> HIDE DEF new
  <2>4. /\ items' \in [Objs -> Item] /\ items'[o] = new
        /\ \A x \in Objs : x # o => items'[x] = items[x]
    BY <2>2, <2>3 DEF Shape
  <2>5. IsInjective(<<>>)
    BY DEF IsInjective
  <2>6. \A x \in Objs : IsInjective(items'[x].src)
    BY <2>2, <2>4, <2>5, Zenon DEF Shape
  <2>7. \A x \in Objs : Has(x)' => items'[x].out \in Nat
    BY <1>0, <2>2, <2>4, Zenon DEF Has, Shape
  <2>8. inFlight' \in Int /\ ref' \in [Nodes -> Int]
    BY <2>1 DEF Shape, Release
  <2> QED BY <2>1, <2>2, <2>4, <2>6, <2>7, <2>8
<1>4. CASE TakeSource(o, slow, asking)
  <2> DEFINE s == items[o].src
  <2>1. PICK k \in 0 .. Len(s) - 1 :
          /\ ref' = Release(ref, Range(SubSeq(s, 1, k)))
          /\ items' = [items EXCEPT ![o] =
                Entry(SubSeq(s, k + 2, Len(s)), @.rateLimited, "recent", @.out + 1)]
          /\ hand' = [node |-> s[k + 1], obj |-> o, then |-> items[o].last, ok |-> TRUE]
          /\ pc' = asking /\ inFlight' = inFlight
    BY <1>4, Zenon DEF TakeSource
  <2> DEFINE t == SubSeq(s, k + 2, Len(s))
             new == Entry(t, items[o].rateLimited, "recent", items[o].out + 1)
  <2>2. items' = [items EXCEPT ![o] = new]
    BY <2>1
  <2> HIDE DEF s
  <2>3. /\ t \in Seq(Nodes) /\ IsInjective(t) /\ s[k + 1] \in Nodes
        /\ Range(s) = Range(SubSeq(s, 1, k)) \cup {s[k + 1]} \cup Range(t)
        /\ s[k + 1] \notin Range(SubSeq(s, 1, k)) \cup Range(t)
        /\ Range(SubSeq(s, 1, k)) \cap Range(t) = {}
    <3>1. s \in Seq(Nodes) /\ IsInjective(s)
      BY <1>0 DEF s
    <3> QED BY <3>1, FrontFacts
  <2> HIDE DEF t
  <2>4. new \in Item /\ new.src = t /\ new.out = items[o].out + 1
    <3>1. items[o].rateLimited \in BOOLEAN /\ items[o].out + 1 \in Int
      BY <1>0 DEF Item
    <3>2. t \in Seq(Nodes) /\ "recent" \in Times
      BY <2>3, Zenon DEF Times
    <3> QED BY <3>1, <3>2, Zenon DEF Item, Entry
  <2> HIDE DEF new
  <2>5. /\ items' \in [Objs -> Item] /\ items'[o] = new
        /\ \A x \in Objs : x # o => items'[x] = items[x]
    BY <2>2, <2>4 DEF Shape
  <2>6. \A x \in Objs : IsInjective(items'[x].src)
    BY <2>3, <2>4, <2>5, Zenon DEF Shape
  <2>7. ASSUME NEW x \in Objs, Has(x)' PROVE items'[x].out \in Nat
    <3>1. CASE x = o
      <4>1. items[o].out \in Nat /\ items'[x].out = items[o].out + 1
        BY <1>0, <2>4, <2>5, <3>1, Zenon
      <4> QED BY <4>1
    <3>2. CASE x # o
      BY <2>5, <2>7, <3>2 DEF Has, Shape
    <3> QED BY <3>1, <3>2
  <2>8. hand' \in Hand /\ hand'.node = s[k + 1] /\ hand'.obj = o
    BY <1>0, <2>1, <2>3, Zenon DEF Hand
  <2>9. Sources(o) = Range(s)
    BY DEF Sources, s
  <2>10. Range(SubSeq(s, 1, k)) = Sources(o) \ (Range(items'[o].src) \cup {hand'.node})
    <3>1. Range(items'[o].src) = Range(t) /\ hand'.node = s[k + 1]
      BY <2>4, <2>5, <2>8, Zenon
    <3> QED BY <2>3, <2>9, <3>1
  <2>11. ref' \in [Nodes -> Int] /\ inFlight' \in Int
    BY <2>1 DEF Release, Shape
  <2>12. ref' = Release(ref, Sources(o) \ (Range(items'[o].src) \cup {hand'.node}))
    BY <2>1, <2>10, Zenon
  <2>13. /\ hand'.node \in Nodes /\ hand'.node \in Sources(o)
         /\ hand'.node \notin Range(items'[o].src) /\ Range(items'[o].src) \subseteq Sources(o)
    BY <2>3, <2>4, <2>5, <2>8, <2>9
  <2>14. items'[o].out > 0
    BY <1>0, <2>4, <2>5
  <2> QED BY <2>1, <2>5, <2>6, <2>7, <2>8, <2>11, <2>12, <2>13, <2>14, Zenon
<1> QED BY <1>1, <1>2, <1>3, <1>4, Zenon DEF Visit

\* The keys of the two maps and their end differ.
LEMMA Keys == /\ Objs = Txns \cup Blks /\ Txns \cap Blks = {} /\ End \notin Objs
              /\ None \notin Nodes
  BY RequestAssumption DEF Objs

----------------------------------------------------------------------------
(* SendRequests keeps the shape.                                           *)

\* Init establishes the shape.
LEMMA ShapeInit == Init => Shape
<1> SUFFICES ASSUME Init PROVE Shape
  OBVIOUS
<1>1. NoItem \in Item /\ IsInjective(NoItem.src)
  <2>1. <<>> \in Seq(Nodes) /\ IsInjective(<<>>)
    BY DEF IsInjective
  <2> QED BY <2>1 DEF Entry, NoItem, Item, Times
<1>2. items \in [Objs -> Item] /\ \A o \in Objs : IsInjective(items[o].src) /\ ~Has(o)
  BY <1>1 DEF Init, Has
<1>3. hand \in Hand /\ hand.node = None
  BY DEF Init, NoHand, Hand, Times
<1>4. IsFiniteSet(pv)
  BY FS_EmptySet DEF Init
<1>5. msgs \in 0 .. MaxMsgs /\ inFlight \in Int /\ ref \in [Nodes -> Int]
  BY RequestAssumption DEF Init
<1>6. /\ mapAskFor \in [Nodes -> SUBSET Txns] /\ mapThinBlocksInFlight \in [Nodes -> SUBSET Blks]
      /\ mapBlocksInFlight \in [Blks -> Nodes \cup {None}]
      /\ node \in [Nodes -> {"up", "disconnect", "removed", "deleted"}]
  BY DEF Init
<1> QED BY <1>2, <1>3, <1>4, <1>5, <1>6, Zenon DEF Init, Shape, Asking, IteratorsValid

\* What the shape says of the maps that only one step at a time changes.
LEMMA MapTypes ==
  ASSUME Shape
  PROVE  /\ ref \in [Nodes -> Int] /\ inFlight \in Int /\ msgs \in 0 .. MaxMsgs
         /\ mapAskFor \in [Nodes -> SUBSET Txns]
         /\ mapThinBlocksInFlight \in [Nodes -> SUBSET Blks]
         /\ mapBlocksInFlight \in [Blks -> Nodes \cup {None}]
         /\ asked \subseteq Nodes \X Objs
         /\ pv \subseteq Nodes \X Blks \X {"new", "stored"}
         /\ have \subseteq Objs /\ lost \subseteq Blks
  BY Zenon DEF Shape

\* SendRequests works through the blocks.
LEMMA ShapeBlocks ==
  ASSUME Shape, Begin \/ VisitBlock \/ RequestBlock \/ BlockRequested
  PROVE  Shape'
<1> USE Keys
<1>1. CASE Begin
  <2>1. First(Blks) = End \/ (First(Blks) \in Blks /\ Has(First(Blks)))
    BY FirstIs
  <2> QED BY <1>1, <2>1, Zenon DEF Begin, Shape, Asking, IteratorsValid, nodes, flight, Has
<1>2. CASE VisitBlock
  <2> DEFINE o == sendBlkIter
  <2>1. o \in Blks /\ o \in Objs /\ Has(o) /\ pc = "blks"
    BY <1>2, Zenon DEF VisitBlock, Shape, IteratorsValid
  <2>2. PICK slow : Visit(o, slow, "askBlk")
    BY <1>2 DEF VisitBlock
  <2>3. /\ items' \in [Objs -> Item] /\ ref' \in [Nodes -> Int] /\ inFlight' \in Int
        /\ \A x \in Objs : IsInjective(items'[x].src) /\ (x # o => items'[x] = items[x])
        /\ \A x \in Objs : Has(x)' => items'[x].out \in Nat
    BY <2>1, <2>2, VisitFacts, Zenon
  <2>4. \/ hand' = hand /\ pc' = pc
        \/ /\ hand' \in Hand /\ hand'.node \in Nodes /\ hand'.obj = o
           /\ pc' = "askBlk" /\ items'[o].out > 0
    BY <2>1, <2>2, VisitFacts, Zenon
  <2>5. /\ sendBlkIter' = NextItem(o)
        /\ UNCHANGED <<sendIter, vNodesCopy, node, flight, pv, have, msgs, lost>>
    BY <1>2 DEF VisitBlock
  <2>6. \/ NextItem(o) = End
        \/ NextItem(o) \in Blks /\ NextItem(o) # o /\ Has(NextItem(o))
    BY <2>1, NextItemIs
  <2>7. IteratorsValid' /\ sendBlkIter' \in Blks \cup {End}
    BY <2>1, <2>3, <2>5, <2>6, Zenon DEF IteratorsValid, Has, Shape
  <2> HIDE DEF o
  <2> QED BY <2>1, <2>3, <2>4, <2>5, <2>7, Zenon DEF Shape, Asking, flight
<1>3. CASE RequestBlock
  <2>1. /\ pc \in Asking /\ pc' \in Asking /\ UNCHANGED <<lists, vNodesCopy, nodes, mapAskFor, pv, have, msgs>>
    BY <1>3 DEF RequestBlock, Asking
  <2>2. hand.node \in Nodes /\ hand.obj \in Blks
    BY <2>1, Zenon DEF Shape
  <2>3. hand' \in Hand /\ hand'.node = hand.node /\ hand'.obj = hand.obj
    <3>1. hand \in Hand
      BY Zenon DEF Shape
    <3>2. hand' = hand \/ hand' = [hand EXCEPT !.ok = FALSE]
      BY <1>3 DEF RequestBlock
    <3> QED BY <3>1, <3>2, Zenon DEF Hand
  <2>4. /\ mapThinBlocksInFlight' \in [Nodes -> SUBSET Blks]
        /\ mapBlocksInFlight' \in [Blks -> Nodes \cup {None}]
        /\ asked' \subseteq Nodes \X Objs /\ lost' \subseteq Blks
    BY <1>3, <2>2, MapTypes DEF RequestBlock, MarkBlockAsInFlight
  <2> QED BY <2>1, <2>2, <2>3, <2>4, Zenon DEF Shape, Asking, lists, nodes, IteratorsValid, Has
<1>4. CASE BlockRequested
  <2>1. /\ pc \in Asking /\ pc' = "blks" /\ hand' = NoHand /\ ref' = Release(ref, {hand.node})
        /\ UNCHANGED <<sendIter, sendBlkIter, inFlight, vNodesCopy, node, flight, pv, have, msgs, lost>>
    BY <1>4 DEF BlockRequested, Asking
  <2>2. hand' \in Hand /\ hand'.node = None
    BY <2>1 DEF NoHand, Hand, Times
  <2>3. ref' \in [Nodes -> Int]
    BY <2>1, MapTypes DEF Release
  <2>4. /\ items' \in [Objs -> Item]
        /\ \A x \in Objs : /\ IsInjective(items'[x].src) /\ (Has(x) <=> Has(x)')
                           /\ Has(x)' => items'[x].out \in Nat
    <3>1. CASE items' = items
      BY <3>1 DEF Shape, Has
    <3>2. CASE /\ Has(hand.obj)
               /\ items' = [items EXCEPT ![hand.obj] =
                                Entry(@.src, @.rateLimited, hand.then, @.out - 1)]
      <4> DEFINE b == hand.obj
                 new == Entry(items[b].src, items[b].rateLimited, hand.then, items[b].out - 1)
      <4>1. b \in Objs /\ items[b] \in Item /\ items[b].out > 0 /\ hand.then \in Times
        BY <2>1, <3>2, Zenon DEF Shape, Hand
      <4>2. new \in Item /\ new.src = items[b].src /\ new.out = items[b].out - 1
        BY <4>1 DEF Item, Entry
      <4>3. items' = [items EXCEPT ![b] = new]
        BY <3>2
      <4> HIDE DEF new, b
      <4>4. /\ items' \in [Objs -> Item] /\ items'[b] = new
            /\ \A x \in Objs : x # b => items'[x] = items[x]
        BY <4>1, <4>2, <4>3, Zenon DEF Shape
      <4>5. new.out \in Nat
        BY <4>1, <4>2 DEF Item
      <4>6. Has(b) /\ items'[b] # NoItem
        <5>1. NoItem.out = -1
          BY DEF NoItem, Entry
        <5> QED BY <3>2, <4>4, <4>5, <5>1 DEF Has, b
      <4>7. \A x \in Objs : IsInjective(items'[x].src)
        BY <4>1, <4>2, <4>4, Zenon DEF Shape
      <4>8. ASSUME NEW x \in Objs
            PROVE  (Has(x) <=> Has(x)') /\ (Has(x)' => items'[x].out \in Nat)
        <5>1. CASE x = b
          BY <4>4, <4>5, <4>6, <5>1 DEF Has
        <5>2. CASE x # b
          BY <4>4, <5>2, Zenon DEF Has, Shape
        <5> QED BY <5>1, <5>2
      <4> QED BY <4>4, <4>7, <4>8, Zenon
    <3> QED BY <1>4, <3>1, <3>2, Zenon DEF BlockRequested
  <2>5. IteratorsValid'
    BY <2>1, <2>4, Zenon DEF IteratorsValid, Shape
  <2> QED BY <2>1, <2>2, <2>3, <2>4, <2>5, Zenon DEF Shape, Asking, flight
<1> QED BY <1>1, <1>2, <1>3, <1>4

\* SendRequests works through the transactions.
LEMMA ShapeTxns ==
  ASSUME Shape, BlocksDone \/ VisitTxn \/ RequestTxn \/ TxnsDone
  PROVE  Shape'
<1> USE Keys
<1>1. CASE BlocksDone
  <2>1. First(Txns) = End \/ (First(Txns) \in Txns /\ Has(First(Txns)))
    BY FirstIs
  <2> QED BY <1>1, <2>1, Zenon DEF BlocksDone, Shape, Asking, IteratorsValid, nodes, flight, Has
<1>2. CASE VisitTxn
  <2> DEFINE o == sendIter
  <2>1. o \in Txns /\ o \in Objs /\ Has(o) /\ pc = "txns"
    BY <1>2, Zenon DEF VisitTxn, Shape, IteratorsValid
  <2>2. Visit(o, {}, "askTx")
    BY <1>2 DEF VisitTxn
  <2>3. /\ items' \in [Objs -> Item] /\ ref' \in [Nodes -> Int] /\ inFlight' \in Int
        /\ \A x \in Objs : IsInjective(items'[x].src) /\ (x # o => items'[x] = items[x])
        /\ \A x \in Objs : Has(x)' => items'[x].out \in Nat
    BY <2>1, <2>2, VisitFacts, Zenon
  <2>4. \/ hand' = hand /\ pc' = pc
        \/ hand' \in Hand /\ hand'.node \in Nodes /\ hand'.obj = o /\ pc' = "askTx"
    BY <2>1, <2>2, VisitFacts, Zenon
  <2>5. /\ sendIter' = NextItem(o)
        /\ UNCHANGED <<sendBlkIter, vNodesCopy, node, flight, pv, have, msgs, lost>>
    BY <1>2 DEF VisitTxn
  <2>6. \/ NextItem(o) = End
        \/ NextItem(o) \in Txns /\ NextItem(o) # o /\ Has(NextItem(o))
    BY <2>1, NextItemIs
  <2>7. IteratorsValid' /\ sendIter' \in Txns \cup {End}
    BY <2>1, <2>3, <2>5, <2>6, Zenon DEF IteratorsValid, Has, Shape
  <2> HIDE DEF o
  <2> QED BY <2>1, <2>3, <2>4, <2>5, <2>7, Zenon DEF Shape, Asking, flight
<1>3. CASE RequestTxn
  <2>1. hand.node \in Nodes /\ hand.obj \in Txns
    BY <1>3, Zenon DEF RequestTxn, Shape
  <2>2. hand' \in Hand /\ hand'.node = None
    BY <1>3 DEF RequestTxn, NoHand, Hand, Times
  <2>3. ref' \in [Nodes -> Int] /\ mapAskFor' \in [Nodes -> SUBSET Txns] /\ inFlight' \in Int
    <3>1. /\ ref' = Release(ref, {hand.node}) /\ inFlight' = inFlight + 1
          /\ mapAskFor' = [mapAskFor EXCEPT ![hand.node] = @ \cup {hand.obj}]
      BY <1>3 DEF RequestTxn
    <3>2. ref' \in [Nodes -> Int] /\ inFlight' \in Int
      BY <3>1, MapTypes DEF Release
    <3>3. mapAskFor' \in [Nodes -> SUBSET Txns]
      BY <2>1, <3>1, MapTypes
    <3> QED BY <3>2, <3>3
  <2> QED BY <1>3, <2>2, <2>3, Zenon DEF RequestTxn, Shape, Asking, IteratorsValid, Has
<1>4. CASE TxnsDone
  <2>1. vNodesCopy' \subseteq Nodes /\ ref' \in [Nodes -> Int]
    BY <1>4, MapTypes DEF TxnsDone, AddRef
  <2> QED BY <1>4, <2>1, Zenon DEF TxnsDone, Shape, Asking, IteratorsValid, Has, lists, flight
<1> QED BY <1>1, <1>2, <1>3, <1>4
=============================================================================
