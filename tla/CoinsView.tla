----------------------------- MODULE CoinsView -----------------------------
(***************************************************************************)
(* The layered coins views of coins.cpp and txdb.cpp: a cache in front of  *)
(* a base, which is another cache or the database.  A view maps the id of  *)
(* a transaction to what is left of its outputs.                           *)
(*                                                                         *)
(* A transaction has one output here, so that what is left of it is the    *)
(* whole coin or nothing.  Nothing is either Absent, where the map has no  *)
(* entry for the id, or Pruned, where it has an empty one.                 *)
(***************************************************************************)
CONSTANTS
    Txids,      \* ids of transactions
    Coins,      \* contents of a CCoins that still has its output
    Pruned,     \* the content of one that has none
    Absent      \* no entry

ASSUME CoinsAssumption ==
    Pruned # Absent /\ Pruned \notin Coins /\ Absent \notin Coins

Found == Coins \cup {Pruned}
Views == [Txids -> Found \cup {Absent}]

\* A CCoinsCacheEntry with its flags; an Absent one stands for no entry.
Entry == [coins : Found \cup {Absent}, dirty : BOOLEAN, fresh : BOOLEAN]
NoEntry == [coins |-> Absent, dirty |-> FALSE, fresh |-> FALSE]
Caches == [Txids -> Entry]
EmptyCache == [k \in Txids |-> NoEntry]
Has(cache, k) == cache[k].coins # Absent

IsPruned(c) == c \notin Coins

\* What a look-up through the cache finds (GetCoins).
GetCoins(cache, base) ==
    [k \in Txids |-> IF Has(cache, k) THEN cache[k].coins ELSE base[k]]

\* The unspent outputs a view stands for: having nothing left and not being
\* there are the same.
Left(c) == IF IsPruned(c) THEN Absent ELSE c
Unspent(view) == [k \in Txids |-> Left(view[k])]

\* A look-up leaves a clean copy of what the base has.
FetchCoins(cache, base, k) ==
    IF Has(cache, k) \/ base[k] = Absent THEN cache
    ELSE [cache EXCEPT ![k] = [coins |-> base[k], dirty |-> FALSE,
                               fresh |-> IsPruned(base[k])]]

\* The destructor of CCoinsModifier, after the caller has assigned content c.
Modified(c, fresh) ==
    IF fresh /\ IsPruned(c) THEN NoEntry
    ELSE [coins |-> c, dirty |-> TRUE, fresh |-> fresh]

ModifyCoins(cache, base, k, c) ==
    [cache EXCEPT ![k] =
        Modified(c, IF Has(cache, k) THEN @.fresh ELSE IsPruned(base[k]))]

\* The caller vouches that the base has no such coin.
ModifyNewCoins(cache, k, c) == [cache EXCEPT ![k] = Modified(c, TRUE)]

\* Mutant: an entry that is FRESH in the child becomes FRESH here.
MergedAsFresh(e, u) ==
    IF ~e.dirty THEN u
    ELSE IF u.coins = Absent
         THEN IF e.fresh /\ IsPruned(e.coins) THEN NoEntry
              ELSE [coins |-> e.coins, dirty |-> TRUE, fresh |-> e.fresh]
    ELSE IF u.fresh /\ IsPruned(e.coins) THEN NoEntry
    ELSE [coins |-> e.coins, dirty |-> TRUE, fresh |-> u.fresh \/ e.fresh]

\* BatchWrite of the child's entry e over our entry u.
Merged(e, u) ==
    IF ~e.dirty THEN u
    ELSE IF u.coins = Absent
         THEN IF e.fresh /\ IsPruned(e.coins) THEN NoEntry
              ELSE [coins |-> e.coins, dirty |-> TRUE, fresh |-> e.fresh]
    ELSE IF u.fresh /\ IsPruned(e.coins) THEN NoEntry
    ELSE [coins |-> e.coins, dirty |-> TRUE, fresh |-> u.fresh]

BatchWrite(child, cache) == [k \in Txids |-> Merged(child[k], cache[k])]

\* Mutant: pruned coins are written like others.
BatchWriteDBAll(cache, db) ==
    [k \in Txids |-> IF cache[k].dirty THEN cache[k].coins ELSE db[k]]

\* CCoinsViewDB::BatchWrite: one atomic batch, in which pruned coins go.
BatchWriteDB(cache, db) ==
    [k \in Txids |-> IF ~cache[k].dirty THEN db[k]
                     ELSE Left(cache[k].coins)]

\* Only what is neither DIRTY nor FRESH may be dropped.
Uncache(cache, k) ==
    IF cache[k].dirty \/ cache[k].fresh THEN cache
    ELSE [cache EXCEPT ![k] = NoEntry]

----------------------------------------------------------------------------
\* What the flags promise: a FRESH entry has no unspent coin under it, and one
\* that is not DIRTY says what the base says.  No FRESH entry is modified and
\* pruned, the modifier and BatchWrite would have erased it.
EntrySound(e, c) ==
    /\ e.fresh => IsPruned(c)
    /\ e.coins # Absent /\ ~e.dirty => Left(e.coins) = Left(c)
    /\ e.fresh /\ e.dirty => ~IsPruned(e.coins)
    /\ e.coins = Absent => e = NoEntry

FlagsSound(cache, base) == \A k \in Txids : EntrySound(cache[k], base[k])
=============================================================================
