--------------------------- MODULE RequestManager ---------------------------
(***************************************************************************)
(* The request manager of requestManager.cpp with the threads around it.   *)
(* The message handler thread runs SendRequests, then takes a reference to *)
(* every node and works through their messages.  Validation threads report *)
(* blocks, and SendRequests releases its lock while it asks a node.  The   *)
(* socket thread removes disconnected nodes and deletes those that nobody  *)
(* refers to.                                                              *)
(*                                                                         *)
(* Time is what an object's last request tells: none was made, or the      *)
(* retry interval has not passed, or it has.                               *)
(***************************************************************************)
EXTENDS Integers, FiniteSets, Sequences, Functions, FiniteSetsExt

CONSTANTS
    Nodes,
    Thin,           \* nodes that serve thin blocks
    Txns, Blks,     \* numbers, in the order of the hashes
    None, End,      \* no node, the end of the maps
    Leaving,        \* bounds: nodes that may disconnect,
    MaxMsgs         \* announcements and rejections

Objs == Txns \cup Blks

ASSUME RequestAssumption ==
    /\ Txns \subseteq Nat /\ Blks \subseteq Nat /\ Txns \cap Blks = {}
    /\ IsFiniteSet(Objs) /\ Thin \subseteq Nodes /\ None \notin Nodes
    /\ End \in Nat /\ (\A o \in Objs : o < End) /\ MaxMsgs \in Nat

VARIABLES
    items,              \* mapTxnInfo and mapBlkInfo
    sendIter, sendBlkIter,
    inFlight,
    pc, hand,           \* the message handler thread, and the request it makes
    vNodesCopy,         \* nodes whose messages it handles
    node, ref,          \* where a node is, and its nRefCount
    mapAskFor,          \* per node, transactions to ask it for
    mapThinBlocksInFlight, mapBlocksInFlight,
    asked,              \* requests sent and not answered
    pv,                 \* validation threads, by node, block and place
    have,               \* objects that AlreadyHave finds
    msgs,
    lost                \* blocks whose entry in mapBlocksInFlight was dropped

lists   == <<items, sendIter, sendBlkIter, inFlight>>
handler == <<pc, hand, vNodesCopy>>
nodes   == <<node, ref>>
flight  == <<mapAskFor, mapThinBlocksInFlight, mapBlocksInFlight, asked>>
vars == <<lists, handler, nodes, flight, pv, have, msgs, lost>>

Entry(src, limited, last, out) ==
    [src |-> src, rateLimited |-> limited, last |-> last, out |-> out]
NoItem == Entry(<<>>, FALSE, "never", -1)
NewItem == Entry(<<>>, FALSE, "never", 0)
Has(o) == items[o] # NoItem
NoHand == [node |-> None, obj |-> End, then |-> "never", ok |-> FALSE]

Sources(o) == Range(items[o].src)

Init ==
    /\ items = [o \in Objs |-> NoItem] /\ sendIter = End /\ sendBlkIter = End
    /\ inFlight = 0
    /\ pc = "loop" /\ hand = NoHand /\ vNodesCopy = {}
    /\ node = [n \in Nodes |-> "up"] /\ ref = [n \in Nodes |-> 1]
    /\ mapAskFor = [n \in Nodes |-> {}]
    /\ mapThinBlocksInFlight = [n \in Nodes |-> {}]
    /\ mapBlocksInFlight = [b \in Blks |-> None]
    /\ asked = {} /\ pv = {} /\ have = {} /\ msgs = 0 /\ lost = {}

AddRef(ns) == [n \in Nodes |-> ref[n] + IF n \in ns THEN 1 ELSE 0]
Release(r, ns) == [n \in Nodes |-> r[n] - IF n \in ns THEN 1 ELSE 0]

----------------------------------------------------------------------------
(* The lists, under cs_objDownloader.                                      *)

NextItem(o) == Min({x \in IF o \in Txns THEN Txns ELSE Blks : x > o /\ Has(x)} \cup {End})
First(S) == Min({x \in S : Has(x)} \cup {End})

\* Mutant: the sources keep the reference.
CleanupKeepsRefs(o) ==
    /\ inFlight' = inFlight - items[o].out
    /\ sendIter' = IF sendIter = o THEN NextItem(o) ELSE sendIter
    /\ sendBlkIter' = IF sendBlkIter = o THEN NextItem(o) ELSE sendBlkIter
    /\ items' = [items EXCEPT ![o] = NoItem] /\ UNCHANGED ref

\* Mutant: the iterators stay where they are.
CleanupIterStays(o) ==
    /\ inFlight' = inFlight - items[o].out
    /\ ref' = Release(ref, Sources(o))
    /\ items' = [items EXCEPT ![o] = NoItem] /\ UNCHANGED <<sendIter, sendBlkIter>>

\* Mutant: the requests made for the object stay counted.
CleanupCounted(o) ==
    /\ ref' = Release(ref, Sources(o))
    /\ sendIter' = IF sendIter = o THEN NextItem(o) ELSE sendIter
    /\ sendBlkIter' = IF sendBlkIter = o THEN NextItem(o) ELSE sendBlkIter
    /\ items' = [items EXCEPT ![o] = NoItem] /\ UNCHANGED inFlight

\* cleanup: the sources are released, an iterator that is here moves on.
cleanup(o) ==
    /\ inFlight' = inFlight - items[o].out
    /\ ref' = Release(ref, Sources(o))
    /\ sendIter' = IF sendIter = o THEN NextItem(o) ELSE sendIter
    /\ sendBlkIter' = IF sendBlkIter = o THEN NextItem(o) ELSE sendBlkIter
    /\ items' = [items EXCEPT ![o] = NoItem]

Forget(o) == IF Has(o) THEN cleanup(o) ELSE UNCHANGED <<lists, ref>>

\* Mutant: a node that is listed is added again.
AskForAgain(o, n) ==
    LET item == IF Has(o) THEN items[o] ELSE NewItem
    IN  /\ items' = [items EXCEPT ![o] = [item EXCEPT !.src = Append(@, n)]]
        /\ ref' = AddRef({n})

Inserted(src, i, n) == SubSeq(src, 1, i - 1) \o <<n>> \o SubSeq(src, i, Len(src))

\* AddSource puts a new node where its desirability ranks it among the others.
AskFor(o, n) ==
    LET item == IF Has(o) THEN items[o] ELSE NewItem
    IN  \/ n \in Range(item.src) /\ UNCHANGED <<items, ref>>
        \/ /\ n \notin Range(item.src) /\ ref' = AddRef({n})
           /\ \E i \in 1 .. Len(item.src) + 1 :
                 items' = [items EXCEPT ![o] = [item EXCEPT !.src = Inserted(@, i, n)]]

----------------------------------------------------------------------------
(* SendRequests.                                                           *)

Begin ==
    /\ pc = "loop" /\ pc' = "blks"
    /\ sendBlkIter' = IF sendBlkIter = End THEN First(Blks) ELSE sendBlkIter
    /\ UNCHANGED <<items, sendIter, inFlight, hand, vNodesCopy, nodes, flight, pv, have, msgs, lost>>

\* The first k sources are popped: each is disconnected, or too slow during the
\* initial download.
Skips(src, slow, k) ==
    LET usable(i) == node[src[i]] = "up" /\ src[i] \notin slow
    IN  (\A i \in 1 .. k : ~usable(i)) /\ (k < Len(src) => usable(k + 1))

\* Mutant: the limit for transactions holds for blocks too.
DueUnlimited(o) == items[o].last # "recent" /\ ~items[o].rateLimited

\* The retry interval has passed, and the object is worth asking for.
Due(o) == items[o].last # "recent" /\ ~(o \in Txns /\ items[o].rateLimited)

\* An object is left alone, dropped when it has no source, or its next usable source
\* is taken in hand.
LeaveAlone(o) == ~Due(o) /\ UNCHANGED <<items, inFlight, ref, hand, pc>>

GiveUp(o) ==
    /\ Due(o) /\ items[o].src = <<>>
    /\ inFlight' = inFlight - items[o].out
    /\ items' = [items EXCEPT ![o] = NoItem]
    /\ UNCHANGED <<ref, hand, pc>>

NoSource(o, slow) ==
    LET src == items[o].src
    IN  /\ Due(o) /\ src # <<>> /\ Skips(src, slow, Len(src))
        /\ ref' = Release(ref, Range(src))
        /\ items' = [items EXCEPT ![o].src = <<>>]
        /\ UNCHANGED <<inFlight, hand, pc>>

TakeSource(o, slow, asking) ==
    LET src == items[o].src
    IN  \E k \in 0 .. Len(src) - 1 :
          /\ Due(o) /\ Skips(src, slow, k)
          /\ ref' = Release(ref, Range(SubSeq(src, 1, k)))
          /\ items' = [items EXCEPT ![o] =
                Entry(SubSeq(src, k + 2, Len(src)), @.rateLimited, "recent", @.out + 1)]
          /\ hand' = [node |-> src[k + 1], obj |-> o, then |-> items[o].last, ok |-> TRUE]
          /\ pc' = asking /\ UNCHANGED inFlight

Visit(o, slow, asking) ==
    LeaveAlone(o) \/ GiveUp(o) \/ NoSource(o, slow) \/ TakeSource(o, slow, asking)

\* A node may be too slow while the chain is far behind (IsNodePingAcceptable).
VisitBlock ==
    /\ pc = "blks" /\ sendBlkIter # End
    /\ \E slow \in {{}} \cup {{n} : n \in Nodes} : Visit(sendBlkIter, slow, "askBlk")
    /\ sendBlkIter' = NextItem(sendBlkIter)
    /\ UNCHANGED <<sendIter, vNodesCopy, node, flight, pv, have, msgs, lost>>

\* Mutant: a block in flight is marked as received first.
MarkErases(n, b) ==
    /\ mapBlocksInFlight' = [mapBlocksInFlight EXCEPT ![b] = IF @ = None THEN n ELSE None]
    /\ lost' = lost \ {b}

MarkBlockAsInFlight(n, b) ==
    /\ mapBlocksInFlight' = [mapBlocksInFlight EXCEPT ![b] = IF @ = None THEN n ELSE @]
    /\ lost' = lost \ {b}

\* RequestBlock, without the lock: a thin block if the node can send one now, else
\* a full one, else nothing as long as thin blocks are preferred and may be had.
RequestBlock ==
    LET n == hand.node
        b == hand.obj
        thin == n \in Thin /\ mapThinBlocksInFlight[n] = {}
    IN  /\ pc = "askBlk" /\ pc' = "askedBlk"
        /\ \/ /\ thin
              /\ mapThinBlocksInFlight' = [mapThinBlocksInFlight EXCEPT ![n] = {b}]
              /\ MarkBlockAsInFlight(n, b)
              /\ asked' = asked \cup {<<n, b>>} /\ UNCHANGED hand
           \/ /\ MarkBlockAsInFlight(n, b)
              /\ asked' = asked \cup {<<n, b>>} /\ UNCHANGED <<hand, mapThinBlocksInFlight>>
           \/ /\ ~thin /\ \E m \in Thin : node[m] \in {"up", "disconnect"}
              /\ hand' = [hand EXCEPT !.ok = FALSE]
              /\ UNCHANGED <<mapThinBlocksInFlight, mapBlocksInFlight, asked, lost>>
        /\ UNCHANGED <<lists, vNodesCopy, nodes, mapAskFor, pv, have, msgs>>

\* With the lock again: the item may have gone.
BlockRequested ==
    /\ pc = "askedBlk" /\ pc' = "blks"
    /\ items' = IF hand.ok \/ ~Has(hand.obj) THEN items
                ELSE [items EXCEPT ![hand.obj] = Entry(@.src, @.rateLimited, hand.then, @.out - 1)]
    /\ ref' = Release(ref, {hand.node})
    /\ hand' = NoHand
    /\ UNCHANGED <<sendIter, sendBlkIter, inFlight, vNodesCopy, node, flight, pv, have, msgs, lost>>

\* No block is left, or a reorganisation is in progress.
BlocksDone ==
    /\ pc = "blks" /\ pc' = "txns"
    /\ sendIter' = IF sendIter = End THEN First(Txns) ELSE sendIter
    /\ UNCHANGED <<items, sendBlkIter, inFlight, hand, vNodesCopy, nodes, flight, pv, have, msgs, lost>>

VisitTxn ==
    /\ pc = "txns" /\ sendIter # End
    /\ Visit(sendIter, {}, "askTx")
    /\ sendIter' = NextItem(sendIter)
    /\ UNCHANGED <<sendBlkIter, vNodesCopy, node, flight, pv, have, msgs, lost>>

RequestTxn ==
    /\ pc = "askTx" /\ pc' = "txns"
    /\ mapAskFor' = [mapAskFor EXCEPT ![hand.node] = @ \cup {hand.obj}]
    /\ ref' = Release(ref, {hand.node})
    /\ inFlight' = inFlight + 1
    /\ hand' = NoHand
    /\ UNCHANGED <<items, sendIter, sendBlkIter, vNodesCopy, node, mapThinBlocksInFlight,
                   mapBlocksInFlight, asked, pv, have, msgs, lost>>

\* No transaction is left, or requestPacer holds; references to the nodes follow.
TxnsDone ==
    /\ pc = "txns" /\ pc' = "nodes"
    /\ vNodesCopy' = {n \in Nodes : node[n] \in {"up", "disconnect"}}
    /\ ref' = AddRef(vNodesCopy')
    /\ UNCHANGED <<lists, hand, node, flight, pv, have, msgs, lost>>

----------------------------------------------------------------------------
(* The messages of the nodes that are up.                                  *)

Handling(n) == pc = "nodes" /\ n \in vNodesCopy /\ node[n] = "up"

Inv(n, o) ==
    /\ Handling(n) /\ msgs < MaxMsgs /\ msgs' = msgs + 1
    /\ o \notin have /\ AskFor(o, n)
    /\ UNCHANGED <<sendIter, sendBlkIter, inFlight, handler, node, flight, pv, have, lost>>

Tx(n, t) ==
    /\ Handling(n) /\ <<n, t>> \in asked
    /\ asked' = asked \ {<<n, t>>} /\ have' = have \cup {t}
    /\ Forget(t)
    /\ UNCHANGED <<handler, node, mapAskFor, mapThinBlocksInFlight, mapBlocksInFlight,
                   pv, msgs, lost>>

\* Rejected; a transaction with too low a fee is not asked for again.
Reject(n, o) ==
    /\ Handling(n) /\ msgs < MaxMsgs /\ msgs' = msgs + 1
    /\ Has(o)
    /\ LET less == IF o \in Txns /\ items[o].out > 0 THEN 1 ELSE 0
       IN  \E fee \in BOOLEAN :
             items' = [items EXCEPT ![o] = Entry(@.src, @.rateLimited \/ fee, @.last, @.out - less)]
    /\ inFlight' = inFlight - IF o \in Txns /\ inFlight # 0 THEN 1 ELSE 0
    /\ UNCHANGED <<sendIter, sendBlkIter, handler, nodes, flight, pv, have, lost>>

\* SendMessages: what is in mapAskFor is asked for, unless it has come meanwhile.
GetData(n, t) ==
    /\ Handling(n) /\ t \in mapAskFor[n]
    /\ mapAskFor' = [mapAskFor EXCEPT ![n] = @ \ {t}]
    /\ IF t \in have THEN Forget(t) /\ UNCHANGED asked
       ELSE asked' = asked \cup {<<n, t>>} /\ UNCHANGED <<lists, ref>>
    /\ UNCHANGED <<handler, node, mapThinBlocksInFlight, mapBlocksInFlight, pv, have, msgs, lost>>

\* HandleBlockMessage: the thread that validates the block refers to the node.  The
\* bound is one thread for a node and a block.
Block(n, b) ==
    /\ Handling(n) /\ <<n, b>> \in asked
    /\ {<<n, b, "new">>, <<n, b, "stored">>} \cap pv = {}
    /\ asked' = asked \ {<<n, b>>}
    /\ pv' = pv \cup {<<n, b, "new">>}
    /\ ref' = AddRef({n})
    /\ UNCHANGED <<lists, handler, node, mapAskFor, mapThinBlocksInFlight, mapBlocksInFlight,
                   have, msgs, lost>>

HandlingDone ==
    /\ pc = "nodes" /\ pc' = "loop"
    /\ ref' = Release(ref, vNodesCopy) /\ vNodesCopy' = {}
    /\ UNCHANGED <<lists, hand, node, flight, pv, have, msgs, lost>>

----------------------------------------------------------------------------
(* A validation thread, in ProcessNewBlock and after it.                   *)

\* cs_objDownloader is free.
Unlocked == pc \in {"loop", "nodes", "askBlk", "askedBlk", "askTx"}

\* MarkBlockAsReceived, AcceptBlock, Received.  A block that is not wanted may be
\* dropped, though AcceptBlock reports success; one that is bad stays requested.
StoreBlock(n, b) ==
    /\ Unlocked /\ <<n, b, "new">> \in pv
    /\ pv' = (pv \ {<<n, b, "new">>}) \cup {<<n, b, "stored">>}
    /\ mapBlocksInFlight' = [mapBlocksInFlight EXCEPT ![b] = None]
    /\ \/ Forget(b) /\ have' = have \cup {b} /\ UNCHANGED lost
       \/ mapBlocksInFlight[b] = None /\ Forget(b) /\ UNCHANGED <<have, lost>>
       \/ lost' = lost \cup {b} /\ UNCHANGED <<lists, ref, have>>
    /\ UNCHANGED <<handler, node, mapAskFor, mapThinBlocksInFlight, asked, msgs>>

ThreadEnds(n, b) ==
    /\ <<n, b, "stored">> \in pv /\ pv' = pv \ {<<n, b, "stored">>}
    /\ mapThinBlocksInFlight' = [mapThinBlocksInFlight EXCEPT ![n] = @ \ {b}]
    /\ ref' = Release(ref, {n})
    /\ UNCHANGED <<lists, handler, node, mapAskFor, mapBlocksInFlight, asked, have, msgs, lost>>

----------------------------------------------------------------------------
(* The life of a node.                                                     *)

\* fDisconnect: a closed socket, a ban, or a thin block that did not come.
Disconnect(n) ==
    /\ n \in Leaving /\ node[n] = "up"
    /\ node' = [node EXCEPT ![n] = "disconnect"]
    /\ UNCHANGED <<lists, handler, ref, flight, pv, have, msgs, lost>>

RemoveNode(n) ==
    /\ node[n] = "disconnect" /\ node' = [node EXCEPT ![n] = "removed"]
    /\ ref' = Release(ref, {n})
    /\ UNCHANGED <<lists, handler, flight, pv, have, msgs, lost>>

\* Mutant: the blocks in flight of the node stay.
DeleteNodeOnly(n) ==
    /\ node[n] = "removed" /\ ref[n] <= 0
    /\ node' = [node EXCEPT ![n] = "deleted"]
    /\ mapAskFor' = [mapAskFor EXCEPT ![n] = {}]
    /\ mapThinBlocksInFlight' = [mapThinBlocksInFlight EXCEPT ![n] = {}]
    /\ asked' = {a \in asked : a[1] # n}
    /\ UNCHANGED <<lists, handler, ref, mapBlocksInFlight, pv, have, msgs, lost>>

\* Mutant: a node that nobody refers to is kept.
DeleteNodeBelow(n) ==
    /\ node[n] = "removed" /\ ref[n] < 0
    /\ node' = [node EXCEPT ![n] = "deleted"]
    /\ UNCHANGED <<lists, handler, ref, flight, pv, have, msgs, lost>>

\* The destructor calls FinalizeNode.
DeleteNode(n) ==
    /\ node[n] = "removed" /\ ref[n] <= 0
    /\ node' = [node EXCEPT ![n] = "deleted"]
    /\ LET own == {b \in Blks : mapBlocksInFlight[b] = n}
       IN  /\ mapBlocksInFlight' = [b \in Blks |-> IF b \in own THEN None ELSE mapBlocksInFlight[b]]
           /\ lost' = lost \cup own
    /\ mapAskFor' = [mapAskFor EXCEPT ![n] = {}]
    /\ mapThinBlocksInFlight' = [mapThinBlocksInFlight EXCEPT ![n] = {}]
    /\ asked' = {a \in asked : a[1] # n}
    /\ UNCHANGED <<lists, handler, ref, pv, have, msgs>>

\* The retry interval of an object passes.
Elapse(o) ==
    /\ Has(o) /\ items[o].last = "recent"
    /\ items' = [items EXCEPT ![o].last = "late"]
    /\ UNCHANGED <<sendIter, sendBlkIter, inFlight, handler, nodes, flight, pv, have, msgs, lost>>

----------------------------------------------------------------------------
SendRequests ==
    \/ Begin \/ VisitBlock \/ RequestBlock \/ BlockRequested \/ BlocksDone
    \/ VisitTxn \/ RequestTxn \/ TxnsDone

Messages ==
    \E n \in Nodes :
       \/ \E o \in Objs : Inv(n, o) \/ Reject(n, o)
       \/ \E t \in Txns : Tx(n, t) \/ GetData(n, t)
       \/ \E b \in Blks : Block(n, b)

Threads == \E n \in Nodes, b \in Blks : StoreBlock(n, b) \/ ThreadEnds(n, b)

Next ==
    \/ SendRequests \/ Messages \/ HandlingDone \/ Threads
    \/ \E n \in Nodes : Disconnect(n) \/ RemoveNode(n) \/ DeleteNode(n)
    \/ \E o \in Objs : Elapse(o)

Spec == Init /\ [][Next]_vars

\* The threads run, and one that waits for cs_objDownloader gets it in the end;
\* reorganisations end, requestPacer refills and time passes.
Fairness ==
    /\ WF_vars(SendRequests \/ HandlingDone)
    /\ SF_vars(VisitBlock) /\ SF_vars(VisitTxn)
    /\ SF_vars(\E n \in Nodes, b \in Blks : StoreBlock(n, b))
    /\ WF_vars(\E n \in Nodes : RemoveNode(n) \/ DeleteNode(n) \/ \E b \in Blks : ThreadEnds(n, b))
    /\ WF_vars(\E o \in Objs : Elapse(o))

FairSpec == Spec /\ Fairness

----------------------------------------------------------------------------
Times == {"never", "recent", "late"}
Item == [src : Seq(Nodes), rateLimited : BOOLEAN, last : Times, out : Int]
Hand == [node : Nodes \cup {None}, obj : Objs \cup {End}, then : Times, ok : BOOLEAN]

\* Types; no node is listed twice as a source of an object (AddSource).
TypeOK ==
    /\ items \in [Objs -> Item] /\ \A o \in Objs : IsInjective(items[o].src)
    /\ sendIter \in Txns \cup {End} /\ sendBlkIter \in Blks \cup {End} /\ inFlight \in Int
    /\ pc \in {"loop", "blks", "askBlk", "askedBlk", "txns", "askTx", "nodes"}
    /\ hand \in Hand /\ vNodesCopy \subseteq Nodes
    /\ node \in [Nodes -> {"up", "disconnect", "removed", "deleted"}]
    /\ ref \in [Nodes -> Nat]
    /\ mapAskFor \in [Nodes -> SUBSET Txns]
    /\ mapThinBlocksInFlight \in [Nodes -> SUBSET Blks]
    /\ mapBlocksInFlight \in [Blks -> Nodes \cup {None}]
    /\ asked \subseteq Nodes \X Objs /\ pv \subseteq Nodes \X Blks \X {"new", "stored"}
    /\ have \subseteq Objs /\ lost \subseteq Blks /\ msgs \in 0 .. MaxMsgs

Count(P) == IF P THEN 1 ELSE 0
Listed(n) == {o \in Objs : n \in Sources(o)}
Held(n) == {p \in pv : p[1] = n}

\* The places that refer to a node: the connection, the request being made, the
\* message loop, the lists of sources and the validation threads.
Refs(n) ==
    Count(node[n] \in {"up", "disconnect"}) + Count(hand.node = n) + Count(n \in vNodesCopy)
    + Cardinality(Listed(n)) + Cardinality(Held(n))

\* A node's nRefCount is the number of places that refer to it.
RefCounted == \A n \in Nodes : ref[n] = Refs(n)

\* No list, thread, request or block in flight names the node.
Unused(n) ==
    /\ n # hand.node /\ n \notin vNodesCopy
    /\ \A o \in Objs : n \notin Sources(o)
    /\ \A b \in Blks : mapBlocksInFlight[b] # n
    /\ \A p \in pv : p[1] # n

\* No thread will dereference a node that was deleted, nor look up its state.
NoDanglingNode == \A n \in Nodes : node[n] = "deleted" => Unused(n)

\* The iterators that SendRequests keeps between calls, and while it has released
\* its lock, point at entries of their map or at its end.
IteratorsValid ==
    /\ sendIter # End => Has(sendIter)
    /\ sendBlkIter # End => Has(sendBlkIter)

Outstanding(o) == IF Has(o) THEN items[o].out ELSE 0

\* inFlight never exceeds the transaction requests that are outstanding, the one
\* that SendRequests has made and not yet counted included.
InFlightNotOver ==
    inFlight + Count(pc = "askTx") <= MapThenSumSet(Outstanding, Txns)

\* As long as a block that a node was asked for is missing, MarkBlockAsReceived will
\* find that it was requested, unless the node it stands under was deleted or a copy
\* of it was refused.
RequestRemembered ==
    \A n \in Nodes, b \in Blks \ (have \cup lost) :
       <<n, b>> \in asked \/ <<n, b, "new">> \in pv => mapBlocksInFlight[b] # None

\* SendRequests works an object off: it is received, or given up when its sources
\* are used up, unless the fee was too low for it.
ObjectsLeave ==
    \A o \in Objs : Has(o) ~> (~Has(o) \/ (o \in Txns /\ items[o].rateLimited))

\* A node that was disconnected is deleted in the end, unless a transaction with too
\* low a fee lists it.
NodesDeleted ==
    \A n \in Nodes : node[n] = "disconnect" ~>
       (node[n] = "deleted" \/ \E t \in Txns : items[t].rateLimited /\ n \in Sources(t))
=============================================================================
