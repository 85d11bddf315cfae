-------------------------- MODULE BlockTreeProofs --------------------------
(***************************************************************************)
(* Facts about the block index and its candidates that hold for every tree *)
(* of blocks, of any size: what the recursive definitions compute, how     *)
(* chains, heights and work fit together, and that the operations on the   *)
(* candidates give candidates.                                             *)
(***************************************************************************)
EXTENDS BlockTree, WellFoundedInduction, FiniteSetTheorems, TLAPS

----------------------------------------------------------------------------
(* Numbers.                                                                *)

\* A set of numbers has a least one.
LEMMA LeastNat ==
  ASSUME NEW S \in SUBSET Nat, S # {}
  PROVE  \E m \in S : \A k \in S : m <= k
<1> DEFINE R == OpToRel(<, Nat)
<1>1. IsWellFoundedOn(R, Nat)
  BY NatLessThanWellFounded, Zenon
<1>2. \A x, y \in Nat : <<y, x>> \notin R => x <= y
  BY DEF OpToRel
<1> HIDE DEF R
<1>3. PICK x \in S : \A y \in S : ~(<<y, x>> \in R)
  BY <1>1, WFMin, Zenon
<1> QED BY <1>2, <1>3, Zenon

\* A bounded set of numbers has a greatest one.
LEMMA GreatestNat ==
  ASSUME NEW S \in SUBSET Nat, S # {}, NEW n \in Nat, \A k \in S : k <= n
  PROVE  \E m \in S : \A k \in S : k <= m
<1> DEFINE T == {n - k : k \in S}
<1>1. T \in SUBSET Nat
  OBVIOUS
<1>0. T # {}
  <2>1. PICK k \in S : TRUE
    BY Zenon
  <2>2. n - k \in T
    OBVIOUS
  <2> HIDE DEF T
  <2> QED BY <2>2
<1>2. PICK m \in T : \A k \in T : m <= k
  BY <1>0, <1>1, LeastNat, Zenon
<1>3. PICK s \in S : m = n - s
  BY <1>2
<1>4. \A k \in S : n - s <= n - k
  BY <1>2, <1>3
<1> QED BY <1>3, <1>4

----------------------------------------------------------------------------
(* Induction and recursion along pprev.                                    *)

\* A property of blocks that holds of a block if it holds of its parent.
LEMMA TreeInduction ==
  ASSUME NEW S \in SUBSET Blocks, \A b \in S : b # Genesis /\ Parent[b] \in S
  PROVE  S = {}
BY TreeAssumption

\* f is v at Genesis, and G gives it at a block from what it is at the parent.
Follows(f, V, v, G) ==
    /\ f \in [Blocks -> V]
    /\ f[Genesis] = v
    /\ \A b \in Blocks \ {Genesis} : f[b] = G[b][f[Parent[b]]]

\* A function of blocks may be defined by what it is at the parent.
LEMMA TreeRecursion ==
  ASSUME NEW V, NEW v \in V, NEW G \in [Blocks -> [V -> V]]
  PROVE  \E f : Follows(f, V, v, G)
<1> DEFINE Rec(D, f) ==
      /\ \A b \in D \ {Genesis} : Parent[b] \in D /\ f[b] = G[b][f[Parent[b]]]
      /\ Genesis \in D => f[Genesis] = v
    Partial(b) == {D \in SUBSET Blocks : b \in D /\ \E f \in [D -> V] : Rec(D, f)}
\* Two such functions agree where both are defined.
<1>1. ASSUME NEW D \in SUBSET Blocks, NEW E \in SUBSET Blocks,
             NEW f \in [D -> V], NEW g \in [E -> V], Rec(D, f), Rec(E, g),
             NEW x \in D \cap E
      PROVE  f[x] = g[x]
  <2> DEFINE S == {y \in D \cap E : f[y] # g[y]}
  <2>1. ASSUME NEW y \in S PROVE y # Genesis /\ Parent[y] \in S
    <3>1. y \in D /\ y \in E /\ f[y] # g[y]
      BY Zenon
    <3>2. y # Genesis
      BY <1>1, <3>1, Zenon
    <3>3. /\ Parent[y] \in D /\ f[y] = G[y][f[Parent[y]]]
          /\ Parent[y] \in E /\ g[y] = G[y][g[Parent[y]]]
      BY <1>1, <3>1, <3>2, Zenon
    <3> QED BY <3>1, <3>2, <3>3, Zenon
  <2>2. S = {}
    BY <2>1, TreeInduction, Zenon
  <2> QED BY <2>2
\* There is one around every block.
<1>2. \A b \in Blocks : Partial(b) # {}
  <2> DEFINE S == {b \in Blocks : Partial(b) = {}}
  <2>1. ASSUME NEW b \in S PROVE b # Genesis
    <3>1. CASE b = Genesis
      <4> DEFINE f == [x \in {Genesis} |-> v]
      <4>1. f \in [{Genesis} -> V] /\ Rec({Genesis}, f)
        OBVIOUS
      <4>2. {Genesis} \in Partial(b)
        BY <3>1, <4>1, TreeAssumption, Zenon
      <4> QED BY <4>2
    <3> QED BY <3>1
  <2>2. ASSUME NEW b \in S PROVE Parent[b] \in S
    <3>1. b \in Blocks \ {Genesis} /\ Parent[b] \in Blocks
      BY <2>1, TreeAssumption, Zenon
    <3>2. SUFFICES ASSUME Partial(Parent[b]) # {} PROVE FALSE
      BY <3>1
    <3>3. PICK D \in SUBSET Blocks : Parent[b] \in D /\ \E f \in [D -> V] : Rec(D, f)
      BY <3>2
    <3>4. PICK f \in [D -> V] : Rec(D, f)
      BY <3>3
    <3>5. b \notin D
      BY <3>4
    <3> DEFINE E == D \cup {b}
               g == [x \in E |-> IF x \in D THEN f[x] ELSE G[b][f[Parent[b]]]]
    <3>6. G[b][f[Parent[b]]] \in V
      BY <3>1, <3>3
    <3>7. g \in [E -> V]
      BY <3>6
    <3>8. Rec(E, g)
      BY <3>1, <3>3, <3>4, <3>5, Zenon
    <3> HIDE DEF g, Rec
    <3>9. E \in Partial(b)
      <4>1. E \in SUBSET Blocks /\ b \in E
        BY <3>1
      <4> HIDE DEF E
      <4> QED BY <3>7, <3>8, <4>1
    <3> QED BY <3>9
  <2>3. S = {}
    BY <2>1, <2>2, TreeInduction, Zenon
  <2> HIDE DEF Partial
  <2> QED BY <2>3
<1> DEFINE Dom(b) == CHOOSE D \in SUBSET Blocks : b \in D /\ \E f \in [D -> V] : Rec(D, f)
           Fun(b) == CHOOSE f \in [Dom(b) -> V] : Rec(Dom(b), f)
           F == [b \in Blocks |-> Fun(b)[b]]
<1>3. ASSUME NEW b \in Blocks
      PROVE  /\ Dom(b) \in SUBSET Blocks /\ b \in Dom(b)
             /\ Fun(b) \in [Dom(b) -> V] /\ Rec(Dom(b), Fun(b))
  <2>1. \E D \in SUBSET Blocks : b \in D /\ \E f \in [D -> V] : Rec(D, f)
    BY <1>2, Zenon
  <2>2. Dom(b) \in SUBSET Blocks /\ b \in Dom(b) /\ \E f \in [Dom(b) -> V] : Rec(Dom(b), f)
    BY <2>1, Zenon
  <2> QED BY <2>2, Zenon
<1> HIDE DEF Dom, Fun
<1>4. F \in [Blocks -> V]
  BY <1>3
<1>5. F[Genesis] = v
  BY <1>3, TreeAssumption
<1>6. ASSUME NEW b \in Blocks \ {Genesis} PROVE F[b] = G[b][F[Parent[b]]]
  <2>1. Parent[b] \in Blocks
    BY TreeAssumption
  <2>2. Parent[b] \in Dom(b) /\ Fun(b)[b] = G[b][Fun(b)[Parent[b]]]
    BY <1>3
  <2>3. Fun(b)[Parent[b]] = Fun(Parent[b])[Parent[b]]
    <3> HIDE DEF Rec
    <3>1. /\ Dom(b) \in SUBSET Blocks /\ Dom(Parent[b]) \in SUBSET Blocks
          /\ Fun(b) \in [Dom(b) -> V] /\ Fun(Parent[b]) \in [Dom(Parent[b]) -> V]
          /\ Rec(Dom(b), Fun(b)) /\ Rec(Dom(Parent[b]), Fun(Parent[b]))
          /\ Parent[b] \in Dom(b) \cap Dom(Parent[b])
      BY <1>3, <2>1, <2>2, Zenon
    <3> QED BY <1>1, <3>1
  <2> QED BY <2>1, <2>2, <2>3
<1> QED BY <1>4, <1>5, <1>6, Zenon DEF Follows

----------------------------------------------------------------------------
(* Heights, work and chains.                                               *)

\* nHeight is what its definition says.
LEMMA HeightIs ==
  /\ nHeight \in [Blocks -> Nat]
  /\ nHeight[Genesis] = 0
  /\ \A b \in Blocks \ {Genesis} : nHeight[b] = nHeight[Parent[b]] + 1
<1> DEFINE G == [b \in Blocks |-> [x \in Nat |-> x + 1]]
           Def(f) == f = [b \in Blocks |-> IF b = Genesis THEN 0 ELSE f[Parent[b]] + 1]
<1>1. PICK f : Follows(f, Nat, 0, G)
  <2>1. G \in [Blocks -> [Nat -> Nat]]
    OBVIOUS
  <2>2. 0 \in Nat
    OBVIOUS
  <2> HIDE DEF G
  <2> QED BY <2>1, <2>2, TreeRecursion, Zenon
<1>2. /\ f \in [Blocks -> Nat]
      /\ f[Genesis] = 0
      /\ \A b \in Blocks \ {Genesis} : f[b] = f[Parent[b]] + 1
  BY <1>1, TreeAssumption, Zenon DEF Follows
<1>3. Def(f)
  BY <1>2, TreeAssumption
<1>4. nHeight = CHOOSE g : Def(g)
  BY DEF nHeight
<1>5. Def(nHeight)
  BY <1>3, <1>4, Zenon
<1>6. nHeight[Genesis] = 0 /\ \A b \in Blocks \ {Genesis} : nHeight[b] = nHeight[Parent[b]] + 1
  BY <1>5, TreeAssumption
<1>7. {b \in Blocks : nHeight[b] \notin Nat} = {}
  <2> DEFINE S == {b \in Blocks : nHeight[b] \notin Nat}
  <2>1. \A b \in S : b # Genesis /\ Parent[b] \in S
    BY <1>6, TreeAssumption
  <2> QED BY <2>1, TreeInduction, Zenon
<1>8. nHeight \in [Blocks -> Nat]
  <2>1. nHeight = [b \in Blocks |-> nHeight[b]]
    BY <1>5
  <2> QED BY <1>7, <2>1
<1> QED BY <1>6, <1>8

\* nChainWork is what its definition says.
LEMMA WorkIs ==
  /\ nChainWork \in [Blocks -> Nat]
  /\ \A b \in Blocks \ {Genesis} : nChainWork[b] = GetBlockProof[b] + nChainWork[Parent[b]]
<1> DEFINE G == [b \in Blocks |-> [x \in Nat |-> GetBlockProof[b] + x]]
           Def(f) == f = [b \in Blocks |->
                            GetBlockProof[b] + IF b = Genesis THEN 0 ELSE f[Parent[b]]]
<1>0. \A b \in Blocks : GetBlockProof[b] \in Nat
  BY TreeAssumption
<1>1. PICK f : Follows(f, Nat, GetBlockProof[Genesis], G)
  <2>1. G \in [Blocks -> [Nat -> Nat]] /\ GetBlockProof[Genesis] \in Nat
    BY <1>0, TreeAssumption
  <2> HIDE DEF G
  <2> QED BY <2>1, TreeRecursion, Zenon
<1>2. /\ f \in [Blocks -> Nat]
      /\ f[Genesis] = GetBlockProof[Genesis]
      /\ \A b \in Blocks \ {Genesis} : f[b] = GetBlockProof[b] + f[Parent[b]]
  BY <1>1, TreeAssumption, Zenon DEF Follows
<1>3. Def(f)
  <2>1. \A b \in Blocks : f[b] = GetBlockProof[b] + IF b = Genesis THEN 0 ELSE f[Parent[b]]
    BY <1>0, <1>2
  <2> QED BY <1>2, <2>1
<1>4. nChainWork = CHOOSE g : Def(g)
  BY DEF nChainWork
<1>5. Def(nChainWork)
  BY <1>3, <1>4
<1>6. /\ nChainWork[Genesis] = GetBlockProof[Genesis] + 0
      /\ \A b \in Blocks \ {Genesis} : nChainWork[b] = GetBlockProof[b] + nChainWork[Parent[b]]
  BY <1>5, TreeAssumption
<1>7. {b \in Blocks : nChainWork[b] \notin Nat} = {}
  <2> DEFINE S == {b \in Blocks : nChainWork[b] \notin Nat}
  <2>1. \A b \in S : b # Genesis /\ Parent[b] \in S
    BY <1>0, <1>6, TreeAssumption
  <2> QED BY <2>1, TreeInduction, Zenon
<1>8. nChainWork \in [Blocks -> Nat]
  <2>1. nChainWork = [b \in Blocks |-> nChainWork[b]]
    BY <1>5
  <2> QED BY <1>7, <2>1
<1> QED BY <1>6, <1>8

\* Chain is what its definition says.
LEMMA ChainIs ==
  /\ Chain \in [Blocks -> SUBSET Blocks]
  /\ Chain[Genesis] = {Genesis}
  /\ \A b \in Blocks \ {Genesis} : Chain[b] = {b} \cup Chain[Parent[b]]
<1> DEFINE G == [b \in Blocks |-> [x \in SUBSET Blocks |-> {b} \cup x]]
           Def(f) == f = [b \in Blocks |-> {b} \cup IF b = Genesis THEN {} ELSE f[Parent[b]]]
<1>1. PICK f : Follows(f, SUBSET Blocks, {Genesis}, G)
  <2>1. G \in [Blocks -> [SUBSET Blocks -> SUBSET Blocks]] /\ {Genesis} \in SUBSET Blocks
    BY TreeAssumption
  <2> HIDE DEF G
  <2> QED BY <2>1, TreeRecursion, Zenon
<1>2. /\ f \in [Blocks -> SUBSET Blocks]
      /\ f[Genesis] = {Genesis}
      /\ \A b \in Blocks \ {Genesis} : f[b] = {b} \cup f[Parent[b]]
  BY <1>1, TreeAssumption, Zenon DEF Follows
<1>3. Def(f)
  <2>1. \A b \in Blocks : f[b] = {b} \cup IF b = Genesis THEN {} ELSE f[Parent[b]]
    BY <1>2
  <2> QED BY <1>2, <2>1
<1>4. Chain = CHOOSE g : Def(g)
  BY DEF Chain
<1>5. Def(Chain)
  BY <1>3, <1>4, Zenon
<1>6. Chain[Genesis] = {Genesis} /\ \A b \in Blocks \ {Genesis} : Chain[b] = {b} \cup Chain[Parent[b]]
  BY <1>5, TreeAssumption
<1>7. {b \in Blocks : Chain[b] \notin SUBSET Blocks} = {}
  <2> DEFINE S == {b \in Blocks : Chain[b] \notin SUBSET Blocks}
  <2>1. \A b \in S : b # Genesis /\ Parent[b] \in S
    BY <1>6, TreeAssumption
  <2> QED BY <2>1, TreeInduction, Zenon
<1>8. Chain \in [Blocks -> SUBSET Blocks]
  <2>1. Chain = [b \in Blocks |-> Chain[b]]
    BY <1>5
  <2> QED BY <1>7, <2>1
<1> QED BY <1>6, <1>8

\* A chain begins with Genesis and ends in its block.
LEMMA ChainEnds == \A b \in Blocks : b \in Chain[b] /\ Genesis \in Chain[b]
<1> DEFINE S == {b \in Blocks : Genesis \notin Chain[b]}
<1>1. \A b \in S : b # Genesis /\ Parent[b] \in S
  BY ChainIs, TreeAssumption
<1>2. S = {}
  BY <1>1, TreeInduction, Zenon
<1> QED BY <1>2, ChainIs

\* Along a chain heights and work go up.
LEMMA ChainGrows ==
  \A b \in Blocks : \A a \in Chain[b] :
     /\ nHeight[a] <= nHeight[b]
     /\ nHeight[a] = nHeight[b] => a = b
     /\ nChainWork[a] <= nChainWork[b]
<1> DEFINE Ok(a, b) == /\ nHeight[a] <= nHeight[b]
                       /\ nHeight[a] = nHeight[b] => a = b
                       /\ nChainWork[a] <= nChainWork[b]
           S == {b \in Blocks : \E a \in Chain[b] : ~Ok(a, b)}
<1>1. ASSUME NEW b \in S PROVE b # Genesis /\ Parent[b] \in S
  <2>1. PICK a \in Chain[b] : ~Ok(a, b)
    OBVIOUS
  <2>2. a \in Blocks /\ b \in Blocks /\ a # b
    BY <2>1, ChainIs, HeightIs, WorkIs
  <2>3. b # Genesis /\ a \in Chain[Parent[b]] /\ Parent[b] \in Blocks
    BY <2>2, ChainIs, TreeAssumption
  <2>4. nHeight[b] = nHeight[Parent[b]] + 1 /\ nChainWork[Parent[b]] <= nChainWork[b]
    BY <2>2, <2>3, HeightIs, WorkIs, TreeAssumption
  <2>5. ~Ok(a, Parent[b])
    BY <2>1, <2>2, <2>3, <2>4, HeightIs, WorkIs
  <2> QED BY <2>3, <2>5
<1>2. S = {}
  BY <1>1, TreeInduction, Zenon
<1> QED BY <1>2

\* A block has more work than its parent, whose chain does not have it.
LEMMA ParentIsLess ==
  ASSUME NEW b \in Blocks \ {Genesis}
  PROVE  /\ Parent[b] \in Blocks
         /\ nChainWork[Parent[b]] < nChainWork[b]
         /\ Chain[Parent[b]] = Chain[b] \ {b}
<1>1. Parent[b] \in Blocks /\ GetBlockProof[b] \in Nat \ {0}
  BY TreeAssumption
<1>2. nChainWork[Parent[b]] < nChainWork[b]
  BY <1>1, WorkIs
<1>3. b \notin Chain[Parent[b]]
  BY <1>1, ChainGrows, HeightIs
<1> QED BY <1>1, <1>2, <1>3, ChainIs

\* A chain has a block of every height up to its own, which GetAncestor finds.
LEMMA AncestorIs ==
  ASSUME NEW b \in Blocks, NEW h \in Nat, h <= nHeight[b]
  PROVE  GetAncestor(b, h) \in Chain[b] /\ nHeight[GetAncestor(b, h)] = h
<1> DEFINE S == {c \in Blocks : h <= nHeight[c] /\ \A a \in Chain[c] : nHeight[a] # h}
<1>1. ASSUME NEW c \in S PROVE c # Genesis /\ Parent[c] \in S
  <2>1. nHeight[c] \in Nat /\ nHeight[c] # h /\ h < nHeight[c]
    BY ChainEnds, HeightIs
  <2>2. c # Genesis /\ Parent[c] \in Blocks
    BY <2>1, HeightIs, TreeAssumption
  <2>3. h <= nHeight[Parent[c]]
    BY <2>1, <2>2, HeightIs
  <2>4. \A a \in Chain[Parent[c]] : nHeight[a] # h
    BY <2>2, ChainIs
  <2> QED BY <2>2, <2>3, <2>4
<1>2. S = {}
  BY <1>1, TreeInduction, Zenon
<1>3. \E a \in Chain[b] : nHeight[a] = h
  BY <1>2
<1> QED BY <1>3 DEF GetAncestor

\* The fork of two chains is on both of them.
LEMMA ForkIs ==
  ASSUME NEW a \in Blocks, NEW b \in Blocks
  PROVE  FindFork(a, b) \in Chain[a] \cap Chain[b]
<1> DEFINE C == Chain[a] \cap Chain[b]
           H == {nHeight[c] : c \in C}
<1>1. C # {} /\ C \subseteq Blocks
  BY ChainEnds, ChainIs
<1>2. H \in SUBSET Nat /\ H # {} /\ \A h \in H : h <= nHeight[a]
  BY <1>1, ChainGrows, HeightIs
<1>3. PICK m \in H : \A h \in H : h <= m
  BY <1>2, GreatestNat, HeightIs, Zenon
<1>4. \E f \in C : \A g \in C : nHeight[g] <= nHeight[f]
  BY <1>3
<1> QED BY <1>4 DEF FindFork

----------------------------------------------------------------------------
(* setBlockIndexCandidates.                                                *)

\* f is v at 0, and G gives it at i from what it is at i - 1.
Counts(f, n, V, v, G) ==
    /\ f \in [0 .. n -> V]
    /\ f[0] = v
    /\ \A i \in 1 .. n : f[i] = G[i][f[i - 1]]

\* A sequence of values may be defined each from the one before.
LEMMA IntervalRecursion ==
  ASSUME NEW n \in Nat, NEW V, NEW v \in V, NEW G \in [1 .. n -> [V -> V]]
  PROVE  \E f : Counts(f, n, V, v, G)
<1> DEFINE P(m) == \E f : Counts(f, m, V, v, G)
           S == {m \in 0 .. n : ~P(m)}
<1>1. SUFFICES ASSUME S # {} PROVE FALSE
  <2>1. n \in 0 .. n
    OBVIOUS
  <2>2. SUFFICES P(n)
    BY Zenon
  <2> HIDE DEF P
  <2> QED BY <2>1, Zenon
<1>2. PICK m \in S : \A k \in S : m <= k
  <2>1. S \in SUBSET Nat
    OBVIOUS
  <2> HIDE DEF S
  <2> QED BY <1>1, <2>1, LeastNat
<1>3. m # 0
  <2>1. [i \in 0 .. 0 |-> v] \in [0 .. 0 -> V]
    OBVIOUS
  <2>2. P(0)
    <3> DEFINE f == [i \in 0 .. 0 |-> v]
    <3>1. f[0] = v /\ \A i \in 1 .. 0 : f[i] = G[i][f[i - 1]]
      OBVIOUS
    <3> HIDE DEF f
    <3>2. Counts(f, 0, V, v, G)
      BY <2>1, <3>1, Zenon DEF f, Counts
    <3> QED BY <3>2
  <2> QED BY <1>2, <2>2, Zenon
<1>4. m - 1 \in 0 .. n /\ m - 1 \notin S /\ m \in 1 .. n
  BY <1>2, <1>3
<1>5. PICK f \in [0 .. m - 1 -> V] : f[0] = v /\ \A i \in 1 .. m - 1 : f[i] = G[i][f[i - 1]]
  BY <1>4, Zenon DEF Counts
<1> DEFINE g == [i \in 0 .. m |-> IF i = m THEN G[m][f[m - 1]] ELSE f[i]]
<1>6. G[m][f[m - 1]] \in V
  BY <1>4, <1>5
<1>7. g \in [0 .. m -> V]
  BY <1>4, <1>6
<1>8. g[0] = v /\ \A i \in 1 .. m : g[i] = G[i][g[i - 1]]
  <2>1. \A i \in 1 .. m : i - 1 \in 0 .. m /\ i - 1 # m /\ i \in 0 .. m
    BY <1>4
  <2>2. \A i \in 1 .. m : i # m => i \in 1 .. m - 1
    BY <1>4
  <2>3. 0 \in 0 .. m /\ 0 # m
    BY <1>4
  <2>4. g[0] = v
    BY <1>5, <2>3, Zenon
  <2>5. ASSUME NEW i \in 1 .. m PROVE g[i] = G[i][g[i - 1]]
    <3>1. g[i - 1] = f[i - 1]
      BY <2>1, Zenon
    <3>2. CASE i = m
      <4>1. g[m] = G[m][f[m - 1]]
        BY <2>1, <3>2, Zenon
      <4> QED BY <3>1, <3>2, <4>1, Zenon
    <3>3. CASE i # m
      <4>1. g[i] = f[i]
        BY <2>1, <3>3, Zenon
      <4> QED BY <1>5, <2>2, <3>1, <3>3, <4>1, Zenon
    <3> QED BY <3>2, <3>3
  <2> QED BY <2>4, <2>5, Zenon
<1> HIDE DEF g
<1>9. P(m)
  BY <1>7, <1>8, Zenon DEF Counts
<1> QED BY <1>2, <1>9

\* Erasing candidates leaves candidates.
LEMMA ErasedType ==
  ASSUME NEW cand \in Seq(Blocks), NEW bs
  PROVE  Erased(cand, bs) \in Seq(Blocks)
<1> DEFINE n == Len(cand)
           V == Seq(Blocks)
           Step(i, k) == IF cand[i] \in bs THEN k ELSE Append(k, cand[i])
           G == [i \in 1 .. n |-> [x \in V |-> Step(i, x)]]
           Def(f) == f = [i \in 0 .. n |-> IF i = 0 THEN <<>>
                            ELSE IF cand[i] \in bs THEN f[i - 1] ELSE Append(f[i - 1], cand[i])]
<1>0. n \in Nat /\ <<>> \in V /\ \A i \in 1 .. n : \A k \in V : Step(i, k) \in V
  OBVIOUS
<1>1. PICK f : Counts(f, n, V, <<>>, G)
  <2>1. G \in [1 .. n -> [V -> V]]
    BY <1>0
  <2> HIDE DEF G, V, n
  <2> QED BY <1>0, <2>1, IntervalRecursion, Zenon
<1>2. /\ f \in [0 .. n -> V] /\ f[0] = <<>>
      /\ \A i \in 1 .. n : f[i] = Step(i, f[i - 1])
  <2>0. f \in [0 .. n -> V] /\ \A i \in 1 .. n : i - 1 \in 0 .. n
    BY <1>0, <1>1 DEF Counts
  <2>1. \A i \in 1 .. n : f[i - 1] \in V
    BY <2>0
  <2> QED BY <1>1, <2>1, Zenon DEF Counts
<1>3. Def(f)
  <2>1. \A i \in 0 .. n : f[i] = IF i = 0 THEN <<>>
                            ELSE IF cand[i] \in bs THEN f[i - 1] ELSE Append(f[i - 1], cand[i])
    <3>1. \A i \in 0 .. n : i # 0 => i \in 1 .. n
      BY <1>0
    <3> HIDE DEF n, V, G
    <3> QED BY <1>2, <3>1, Zenon
  <2> QED BY <1>2, <2>1
<1> DEFINE kept == CHOOSE g : Def(g)
<1>4. Def(kept)
  BY <1>3, Zenon
<1>5. Erased(cand, bs) = kept[n]
  BY DEF Erased
<1> HIDE DEF kept
<1>6. kept[0] = <<>> /\ \A i \in 1 .. n : kept[i] = Step(i, kept[i - 1])
  <2>1. 0 \in 0 .. n /\ \A i \in 1 .. n : i \in 0 .. n /\ i # 0
    BY <1>0
  <2> HIDE DEF n
  <2>2. kept[0] = <<>>
    BY <1>4, <2>1, Zenon
  <2>3. ASSUME NEW i \in 1 .. n PROVE kept[i] = Step(i, kept[i - 1])
    BY <1>4, <2>1, Zenon
  <2> QED BY <2>2, <2>3
<1> DEFINE S == {i \in 0 .. n : kept[i] \notin V}
<1>7. S = {}
  <2>1. SUFFICES ASSUME S # {} PROVE FALSE
    OBVIOUS
  <2>2. PICK m \in S : \A k \in S : m <= k
    <3>1. S \in SUBSET Nat
      BY <1>0
    <3> HIDE DEF S
    <3> QED BY <2>1, <3>1, LeastNat
  <2>3. m # 0
    BY <1>0, <1>6, <2>2, Zenon
  <2>4. m \in 1 .. n /\ m - 1 \in 0 .. n /\ kept[m - 1] \in V
    BY <1>0, <2>2, <2>3
  <2>5. kept[m] \in V
    BY <1>0, <1>6, <2>4, Zenon
  <2> QED BY <2>2, <2>5
<1> QED BY <1>0, <1>5, <1>7

\* Inserting a candidate gives candidates.
LEMMA InsertType ==
  ASSUME NEW cand \in Seq(Blocks), NEW b \in Blocks, NEW seq
  PROVE  InsertCandidate(cand, b, seq) \in Seq(Blocks)
<1> DEFINE W == {i \in DOMAIN cand : Worse(cand[i], b, seq)}
           k == 1 + Cardinality(W)
           s == [i \in 1 .. Len(cand) + 1 |->
                   IF i < k THEN cand[i] ELSE IF i = k THEN b ELSE cand[i - 1]]
<1>1. Cardinality(W) \in Nat /\ Cardinality(W) <= Len(cand)
  <2>1. W \in SUBSET (1 .. Len(cand)) /\ Len(cand) \in Nat
    OBVIOUS
  <2>2. IsFiniteSet(1 .. Len(cand)) /\ Cardinality(1 .. Len(cand)) = Len(cand)
    <3> DEFINE n == Len(cand)
    <3>1. n \in Nat
      OBVIOUS
    <3> HIDE DEF n
    <3>2. 1 .. n = {} => n = 0
      BY <3>1
    <3> SUFFICES IsFiniteSet(1 .. n) /\ Cardinality(1 .. n) = n
      BY Zenon DEF n
    <3> QED BY <3>1, <3>2, FS_Interval
  <2> HIDE DEF W
  <2> QED BY <2>1, <2>2, FS_Subset, FS_CardinalityType, Zenon
<1>2. InsertCandidate(cand, b, seq) \in {cand, s}
  BY DEF InsertCandidate
<1> HIDE DEF W
<1>3. s \in [1 .. Len(cand) + 1 -> Blocks]
  BY <1>1
<1>4. Len(cand) + 1 \in Nat
  OBVIOUS
<1> HIDE DEF s
<1>5. s \in Seq(Blocks)
  BY <1>3, <1>4
<1> QED BY <1>2, <1>5

\* Pruning leaves candidates.
LEMMA PruneType ==
  ASSUME NEW cand \in Seq(Blocks), NEW tip, NEW seq
  PROVE  PruneBlockIndexCandidates(cand, tip, seq) \in Seq(Blocks)
<1> DEFINE keep == {i \in DOMAIN cand : ~Worse(cand[i], tip, seq)}
           m == CHOOSE i \in keep : \A j \in keep : i <= j
<1>1. CASE keep = {}
  BY <1>1 DEF PruneBlockIndexCandidates
<1>2. CASE keep # {}
  <2>1. keep \in SUBSET Nat /\ keep \subseteq 1 .. Len(cand)
    OBVIOUS
  <2>2. PruneBlockIndexCandidates(cand, tip, seq) = SubSeq(cand, m, Len(cand))
    BY <1>2, Zenon DEF PruneBlockIndexCandidates
  <2> HIDE DEF keep
  <2>3. \E i \in keep : \A j \in keep : i <= j
    BY <1>2, <2>1, LeastNat
  <2>4. m \in 1 .. Len(cand)
    BY <2>1, <2>3, Zenon
  <2> HIDE DEF m
  <2> QED BY <2>2, <2>4
<1> QED BY <1>1, <1>2

\* FindMostWorkChain finds one candidate or none.
LEMMA FoundIs ==
  ASSUME NEW cand \in Seq(Blocks), NEW tip, NEW bad
  PROVE  /\ FindMostWorkChain(cand, tip, bad) \subseteq Range(cand)
         /\ \A a, b \in FindMostWorkChain(cand, tip, bad) : a = b
<1> DEFINE U == {0} \cup {i \in DOMAIN cand : ~Unusable(cand[i], tip, bad)}
<1>1. U \in SUBSET Nat /\ U # {} /\ U \subseteq 0 .. Len(cand) /\ Len(cand) \in Nat
  OBVIOUS
<1>2. MostWorkIndex(cand, tip, bad) = CHOOSE i \in U : \A j \in U : j <= i
  BY DEF MostWorkIndex
<1> HIDE DEF U
<1>3. \E i \in U : \A j \in U : j <= i
  <2>1. \A i \in U : i <= Len(cand)
    BY <1>1
  <2> QED BY <1>1, <2>1, GreatestNat, Zenon
<1>4. MostWorkIndex(cand, tip, bad) \in 0 .. Len(cand)
  BY <1>1, <1>2, <1>3, Zenon
<1> QED BY <1>4 DEF FindMostWorkChain, Range

\* What it walks over are blocks.
LEMMA GivenUpType ==
  ASSUME NEW cand \in Seq(Blocks), NEW tip, NEW bad
  PROVE  GivenUp(cand, tip, bad) \subseteq Blocks
<1>1. \A i \in DOMAIN cand : Walked(cand[i], tip, bad) \subseteq Blocks
  BY ChainIs DEF Walked
<1> QED BY <1>1 DEF GivenUp
=============================================================================
