----------------------------- MODULE BlockTree -----------------------------
(***************************************************************************)
(* The block index of main.cpp as a tree, and setBlockIndexCandidates, the *)
(* std::set of chain tips from which the best chain is chosen.  The set is *)
(* kept as a sequence, in the order in which its iterator visits it: the   *)
(* order is fixed when an element is inserted, so that it can be seen to   *)
(* disagree with the comparator once a sequence number has been changed.   *)
(***************************************************************************)
EXTENDS Integers, FiniteSets, Sequences, Functions

CONSTANTS
    Blocks,         \* every block that may be met
    Genesis,
    Parent,         \* pprev, of every block but Genesis
    GetBlockProof,  \* the work of one block
    Addr            \* the address of a block's index entry, the last tie breaker

ASSUME TreeAssumption ==
    /\ Genesis \in Blocks
    /\ Parent \in [Blocks \ {Genesis} -> Blocks]
    \* Following pprev one always comes to Genesis: blocks name their parents by hash.
    /\ \A S \in SUBSET Blocks :
          S # {} => \E b \in S : b = Genesis \/ Parent[b] \notin S
    /\ GetBlockProof \in [Blocks -> Nat \ {0}]
    /\ Addr \in [Blocks -> Nat]
    /\ \A a, b \in Blocks : Addr[a] = Addr[b] => a = b

nHeight[b \in Blocks] ==
    IF b = Genesis THEN 0 ELSE nHeight[Parent[b]] + 1

nChainWork[b \in Blocks] ==
    GetBlockProof[b] + IF b = Genesis THEN 0 ELSE nChainWork[Parent[b]]

\* The blocks of the chain that ends in b: what chainActive contains when b is
\* its tip, and the ancestors GetAncestor walks.
Chain[b \in Blocks] ==
    {b} \cup IF b = Genesis THEN {} ELSE Chain[Parent[b]]

GetAncestor(b, h) == CHOOSE a \in Chain[b] : nHeight[a] = h

\* The last block that two chains have in common.
FindFork(tip, b) ==
    CHOOSE f \in Chain[tip] \cap Chain[b] :
        \A g \in Chain[tip] \cap Chain[b] : nHeight[g] <= nHeight[f]

\* CBlockIndexWorkComparator: a is worse than b.
Worse(a, b, seq) ==
    \/ nChainWork[a] < nChainWork[b]
    \/ nChainWork[a] = nChainWork[b] /\ seq[a] > seq[b]
    \/ nChainWork[a] = nChainWork[b] /\ seq[a] = seq[b] /\ Addr[a] > Addr[b]

\* std::set keeps its elements in order and each of them once.
InsertCandidate(cand, b, seq) ==
    LET place == 1 + Cardinality({i \in DOMAIN cand : Worse(cand[i], b, seq)})
    IN  IF b \in Range(cand) THEN cand
        ELSE [i \in 1 .. Len(cand) + 1 |->
                IF i < place THEN cand[i] ELSE IF i = place THEN b ELSE cand[i - 1]]

\* The set without the blocks bs.
Erased(cand, bs) ==
    LET kept[i \in 0 .. Len(cand)] ==
            IF i = 0 THEN <<>>
            ELSE IF cand[i] \in bs THEN kept[i - 1] ELSE Append(kept[i - 1], cand[i])
    IN  kept[Len(cand)]

EraseCandidate(cand, b) == Erased(cand, {b})

\* Mutant: the tip goes as well.
PruneToBetter(cand, tip, seq) == Erased(cand, {c \in Blocks : ~Worse(tip, c, seq)})

\* The prefix of the set that is worse than the tip is removed.
PruneBlockIndexCandidates(cand, tip, seq) ==
    LET keep == {i \in DOMAIN cand : ~Worse(cand[i], tip, seq)}
    IN  IF keep = {} THEN <<>>
        ELSE SubSeq(cand, CHOOSE i \in keep : \A j \in keep : i <= j, Len(cand))

----------------------------------------------------------------------------
\* FindMostWorkChain walks from the best candidate down to the active chain,
\* as far as the first block that cannot be used.

\* The blocks off the active chain, from candidate c down to the first bad one.
Walked(c, tip, bad) ==
    {a \in Chain[c] \ Chain[tip] :
        \A d \in (Chain[c] \ Chain[tip]) \cap bad : nHeight[d] <= nHeight[a]}

Unusable(c, tip, bad) == (Chain[c] \ Chain[tip]) \cap bad # {}

\* The place in the set of the best usable candidate, 0 if there is none; the
\* candidates after it are given up.
MostWorkIndex(cand, tip, bad) ==
    LET usable == {0} \cup {i \in DOMAIN cand : ~Unusable(cand[i], tip, bad)}
    IN  CHOOSE i \in usable : \A j \in usable : j <= i

\* A set of one candidate, or the empty set where the code returns NULL.
FindMostWorkChain(cand, tip, bad) ==
    {cand[i] : i \in {MostWorkIndex(cand, tip, bad)} \ {0}}

\* What it walked over on the way to its answer.
GivenUp(cand, tip, bad) ==
    UNION {Walked(cand[i], tip, bad) :
             i \in {j \in DOMAIN cand : j > MostWorkIndex(cand, tip, bad)}}
=============================================================================
