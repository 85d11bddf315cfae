-------------------------- MODULE CoinsViewProofs --------------------------
(***************************************************************************)
(* What the coins caches promise, for any set of transactions: every       *)
(* operation keeps the flags sound, and with sound flags changes what the  *)
(* layers stand for exactly as its caller means it to.  Each operation is  *)
(* first taken entry by entry, then lifted to the whole map.               *)
(***************************************************************************)
EXTENDS CoinsView, TLAPS

\* What one entry shows of a coin c that lies under it.
Through(e, c) == IF e.coins # Absent THEN e.coins ELSE c

LEMMA NoEntryFact ==
  /\ NoEntry \in Entry
  /\ NoEntry.coins = Absent /\ NoEntry.dirty = FALSE /\ NoEntry.fresh = FALSE
  BY DEF NoEntry, Entry

LEMMA NoEntrySound ==
  ASSUME NEW c \in Found \cup {Absent}
  PROVE  EntrySound(NoEntry, c) /\ Through(NoEntry, c) = c
  BY NoEntryFact DEF EntrySound, Through

\* An entry that was looked up shows what it was copied from.
LEMMA FetchedFact ==
  ASSUME NEW c \in Found
  PROVE  LET e == [coins |-> c, dirty |-> FALSE, fresh |-> IsPruned(c)]
         IN  e \in Entry /\ EntrySound(e, c) /\ Through(e, c) = c
<1> DEFINE e == [coins |-> c, dirty |-> FALSE, fresh |-> IsPruned(c)]
<1>1. e \in Entry
  BY DEF Entry, IsPruned
<1>2. e.coins = c /\ e.dirty = FALSE /\ e.fresh = IsPruned(c)
  OBVIOUS
<1>3. c # Absent
  BY CoinsAssumption DEF Found
<1> HIDE DEF e
<1>4. EntrySound(e, c)
  BY <1>2, <1>3 DEF EntrySound
<1>5. Through(e, c) = c
  BY <1>2 DEF Through
<1> QED
  BY <1>1, <1>4, <1>5 DEF e

\* A modified entry is sound over c when it is FRESH only over nothing.
LEMMA ModifiedFact ==
  ASSUME NEW d \in Found, NEW fresh \in BOOLEAN, NEW c \in Found \cup {Absent},
         fresh => IsPruned(c)
  PROVE  /\ Modified(d, fresh) \in Entry
         /\ EntrySound(Modified(d, fresh), c)
         /\ Left(Through(Modified(d, fresh), c)) = Left(d)
<1> DEFINE e == [coins |-> d, dirty |-> TRUE, fresh |-> fresh]
<1>0. d # Absent
  BY CoinsAssumption DEF Found
<1>1. CASE fresh /\ IsPruned(d)
  <2>1. Modified(d, fresh) = NoEntry
    BY <1>1 DEF Modified
  <2>2. Left(c) = Left(d)
    BY <1>1 DEF Left
  <2> QED
    BY <2>1, <2>2, NoEntryFact, NoEntrySound
<1>2. CASE ~(fresh /\ IsPruned(d))
  <2>1. Modified(d, fresh) = e
    BY <1>2 DEF Modified
  <2>2. e \in Entry
    BY DEF Entry
  <2>3. e.coins = d /\ e.dirty = TRUE /\ e.fresh = fresh
    OBVIOUS
  <2> HIDE DEF e
  <2>4. EntrySound(e, c)
    BY <2>3, <1>0, <1>2 DEF EntrySound
  <2>5. Through(e, c) = d
    BY <2>3, <1>0 DEF Through
  <2> QED
    BY <2>1, <2>2, <2>4, <2>5
<1> QED
  BY <1>1, <1>2

\* One entry of BatchWrite: the child's entry e lies over ours, u, and ours over
\* c.  The result lies over c, and shows what e showed.
LEMMA MergedFact ==
  ASSUME NEW e \in Entry, NEW u \in Entry, NEW c \in Found \cup {Absent},
         EntrySound(u, c), EntrySound(e, Through(u, c))
  PROVE  /\ Merged(e, u) \in Entry
         /\ EntrySound(Merged(e, u), c)
         /\ Left(Through(Merged(e, u), c)) = Left(Through(e, Through(u, c)))
<1>0. /\ e.coins \in Found \cup {Absent} /\ e.dirty \in BOOLEAN /\ e.fresh \in BOOLEAN
      /\ u.coins \in Found \cup {Absent} /\ u.dirty \in BOOLEAN /\ u.fresh \in BOOLEAN
  BY DEF Entry
<1>1. CASE ~e.dirty
  <2>1. Merged(e, u) = u
    BY <1>1 DEF Merged
  <2>2. Left(Through(e, Through(u, c))) = Left(Through(u, c))
    BY <1>1 DEF EntrySound, Through
  <2> QED
    BY <2>1, <2>2
<1>2. CASE e.dirty
  <2>1. e.coins # Absent
    BY <1>2, NoEntryFact DEF EntrySound
  <2>2. Through(e, Through(u, c)) = e.coins
    BY <2>1 DEF Through
  <2>3. CASE u.coins = Absent
    <3>1. Through(u, c) = c
      BY <2>3 DEF Through
    <3>2. ~(e.fresh /\ IsPruned(e.coins))
      BY <1>2 DEF EntrySound
    <3>3. Merged(e, u) = Modified(e.coins, e.fresh)
      BY <1>2, <2>3, <3>2 DEF Merged, Modified
    <3>4. e.fresh => IsPruned(c)
      BY <3>1 DEF EntrySound
    <3>5. e.coins \in Found
      BY <2>1, <1>0
    <3> QED
      BY <3>3, <3>4, <3>5, <1>0, <2>2, ModifiedFact
  <2>4. CASE u.coins # Absent
    <3>1. Merged(e, u) = Modified(e.coins, u.fresh)
      BY <1>2, <2>4 DEF Merged, Modified
    <3>2. u.fresh => IsPruned(c)
      BY DEF EntrySound
    <3>3. e.coins \in Found
      BY <2>1, <1>0
    <3> QED
      BY <3>1, <3>2, <3>3, <1>0, <2>2, ModifiedFact
  <2> QED
    BY <2>3, <2>4
<1> QED
  BY <1>1, <1>2, <1>0

----------------------------------------------------------------------------
LEMMA EntryField ==
  ASSUME NEW cache \in Caches, NEW k \in Txids
  PROVE  /\ cache[k] \in Entry
         /\ cache[k].coins \in Found \cup {Absent}
         /\ cache[k].dirty \in BOOLEAN
         /\ cache[k].fresh \in BOOLEAN
  BY DEF Caches, Entry

LEMMA GetCoinsFact ==
  ASSUME NEW cache \in Caches, NEW base \in Views
  PROVE  /\ GetCoins(cache, base) \in Views
         /\ \A k \in Txids : GetCoins(cache, base)[k] = Through(cache[k], base[k])
<1>1. \A k \in Txids : GetCoins(cache, base)[k] = Through(cache[k], base[k])
  BY DEF GetCoins, Through, Has
<1>2. \A k \in Txids : Through(cache[k], base[k]) \in Found \cup {Absent}
  BY EntryField DEF Through, Views
<1> QED
  BY <1>1, <1>2 DEF GetCoins, Views, Through, Has

\* The effect of putting entry e at k, given what it shows there.
LEMMA PutFact ==
  ASSUME NEW cache \in Caches, NEW base \in Views, NEW k \in Txids,
         FlagsSound(cache, base),
         NEW e \in Entry, EntrySound(e, base[k])
  PROVE  /\ [cache EXCEPT ![k] = e] \in Caches
         /\ FlagsSound([cache EXCEPT ![k] = e], base)
         /\ Unspent(GetCoins([cache EXCEPT ![k] = e], base))
              = [Unspent(GetCoins(cache, base)) EXCEPT ![k] = Left(Through(e, base[k]))]
<1> DEFINE c2 == [cache EXCEPT ![k] = e]
<1>1. c2 \in Caches
  BY DEF Caches
<1>2. \A j \in Txids : c2[j] = IF j = k THEN e ELSE cache[j]
  BY DEF Caches
<1> HIDE DEF c2
<1>3. FlagsSound(c2, base)
  BY <1>2, Zenon DEF FlagsSound
<1>4. \A j \in Txids : Left(GetCoins(c2, base)[j])
                         = IF j = k THEN Left(Through(e, base[k])) ELSE Left(GetCoins(cache, base)[j])
  <2>1. \A j \in Txids : GetCoins(c2, base)[j] = Through(c2[j], base[j])
    BY <1>1, GetCoinsFact
  <2>2. \A j \in Txids : GetCoins(cache, base)[j] = Through(cache[j], base[j])
    BY GetCoinsFact
  <2> QED
    BY <1>2, <2>1, <2>2, Zenon
<1>5. Unspent(GetCoins(c2, base))
        = [Unspent(GetCoins(cache, base)) EXCEPT ![k] = Left(Through(e, base[k]))]
  BY <1>4, Zenon DEF Unspent
<1> QED
  BY <1>1, <1>3, <1>5 DEF c2

\* A cache that has just been flushed stands for its base.
THEOREM EmptyCacheSound ==
  ASSUME NEW base \in Views
  PROVE  /\ EmptyCache \in Caches
         /\ FlagsSound(EmptyCache, base)
         /\ GetCoins(EmptyCache, base) = base
<1>1. EmptyCache \in Caches
  BY NoEntryFact DEF EmptyCache, Caches
<1>2. \A k \in Txids : EmptyCache[k] = NoEntry /\ base[k] \in Found \cup {Absent}
  BY DEF EmptyCache, Views
<1>3. FlagsSound(EmptyCache, base)
  BY <1>2, NoEntrySound, Zenon DEF FlagsSound
<1>4. GetCoins(EmptyCache, base) = base
  BY <1>2, NoEntryFact DEF GetCoins, Has, Views
<1> QED
  BY <1>1, <1>3, <1>4

\* A look-up changes neither the coins nor the soundness of the flags
\* (CCoinsViewCache::FetchCoins).
THEOREM FetchCoinsSound ==
  ASSUME NEW cache \in Caches, NEW base \in Views, NEW k \in Txids,
         FlagsSound(cache, base)
  PROVE  /\ FetchCoins(cache, base, k) \in Caches
         /\ FlagsSound(FetchCoins(cache, base, k), base)
         /\ Unspent(GetCoins(FetchCoins(cache, base, k), base)) = Unspent(GetCoins(cache, base))
<1> DEFINE e == [coins |-> base[k], dirty |-> FALSE, fresh |-> IsPruned(base[k])]
<1>1. CASE Has(cache, k) \/ base[k] = Absent
  BY <1>1 DEF FetchCoins
<1>2. CASE ~Has(cache, k) /\ base[k] # Absent
  <2>1. base[k] \in Found
    BY <1>2 DEF Views
  <2>2. e \in Entry /\ EntrySound(e, base[k]) /\ Through(e, base[k]) = base[k]
    BY <2>1, FetchedFact
  <2>3. FetchCoins(cache, base, k) = [cache EXCEPT ![k] = e]
    BY <1>2 DEF FetchCoins
  <2> HIDE DEF e
  <2>4. GetCoins(cache, base)[k] = base[k]
    BY <1>2 DEF GetCoins
  <2>5. [Unspent(GetCoins(cache, base)) EXCEPT ![k] = Left(base[k])] = Unspent(GetCoins(cache, base))
    BY <2>4, Zenon DEF Unspent
  <2>6. /\ [cache EXCEPT ![k] = e] \in Caches
        /\ FlagsSound([cache EXCEPT ![k] = e], base)
        /\ Unspent(GetCoins([cache EXCEPT ![k] = e], base))
             = [Unspent(GetCoins(cache, base)) EXCEPT ![k] = Left(Through(e, base[k]))]
    BY <2>2, PutFact
  <2> QED
    BY <2>2, <2>3, <2>5, <2>6
<1> QED
  BY <1>1, <1>2

\* A modification changes the coin it is about and no other
\* (CCoinsViewCache::ModifyCoins with the destructor of CCoinsModifier).
THEOREM ModifyCoinsSound ==
  ASSUME NEW cache \in Caches, NEW base \in Views, NEW k \in Txids,
         FlagsSound(cache, base), NEW c \in Found
  PROVE  /\ ModifyCoins(cache, base, k, c) \in Caches
         /\ FlagsSound(ModifyCoins(cache, base, k, c), base)
         /\ Unspent(GetCoins(ModifyCoins(cache, base, k, c), base))
              = [Unspent(GetCoins(cache, base)) EXCEPT ![k] = Left(c)]
<1> DEFINE f == IF Has(cache, k) THEN cache[k].fresh ELSE IsPruned(base[k])
<1>1. f \in BOOLEAN
  BY EntryField, Zenon DEF IsPruned
<1>2. f => IsPruned(base[k])
  BY DEF FlagsSound, EntrySound
<1>3. ModifyCoins(cache, base, k, c) = [cache EXCEPT ![k] = Modified(c, f)]
  BY DEF ModifyCoins, Caches
<1>4. base[k] \in Found \cup {Absent}
  BY DEF Views
<1> HIDE DEF f
<1>5. /\ Modified(c, f) \in Entry
      /\ EntrySound(Modified(c, f), base[k])
      /\ Left(Through(Modified(c, f), base[k])) = Left(c)
  BY <1>1, <1>2, <1>4, ModifiedFact
<1>6. /\ [cache EXCEPT ![k] = Modified(c, f)] \in Caches
      /\ FlagsSound([cache EXCEPT ![k] = Modified(c, f)], base)
      /\ Unspent(GetCoins([cache EXCEPT ![k] = Modified(c, f)], base))
           = [Unspent(GetCoins(cache, base)) EXCEPT ![k] = Left(Through(Modified(c, f), base[k]))]
  BY <1>5, PutFact
<1> QED
  BY <1>3, <1>5, <1>6

\* So does one that does not look at the base, if the base has no unspent coin
\* there, which is what the rule against duplicate transactions guarantees
\* (CCoinsViewCache::ModifyNewCoins).
THEOREM ModifyNewCoinsSound ==
  ASSUME NEW cache \in Caches, NEW base \in Views, NEW k \in Txids,
         FlagsSound(cache, base), NEW c \in Found, IsPruned(base[k])
  PROVE  /\ ModifyNewCoins(cache, k, c) \in Caches
         /\ FlagsSound(ModifyNewCoins(cache, k, c), base)
         /\ Unspent(GetCoins(ModifyNewCoins(cache, k, c), base))
              = [Unspent(GetCoins(cache, base)) EXCEPT ![k] = Left(c)]
<1>1. base[k] \in Found \cup {Absent}
  BY DEF Views
<1> DEFINE e == Modified(c, TRUE)
<1>2. e \in Entry /\ EntrySound(e, base[k]) /\ Left(Through(e, base[k])) = Left(c)
  BY <1>1, ModifiedFact, Zenon
<1>3. ModifyNewCoins(cache, k, c) = [cache EXCEPT ![k] = e]
  BY DEF ModifyNewCoins
<1> HIDE DEF e
<1>4. /\ [cache EXCEPT ![k] = e] \in Caches
      /\ FlagsSound([cache EXCEPT ![k] = e], base)
      /\ Unspent(GetCoins([cache EXCEPT ![k] = e], base))
           = [Unspent(GetCoins(cache, base)) EXCEPT ![k] = Left(Through(e, base[k]))]
  BY <1>2, PutFact
<1> QED
  BY <1>2, <1>3, <1>4

\* Flushing a cache into the cache under it shows the same coins through one
\* layer less, and leaves the flags of that layer sound
\* (CCoinsViewCache::Flush into CCoinsViewCache::BatchWrite).
THEOREM BatchWriteSound ==
  ASSUME NEW child \in Caches, NEW cache \in Caches, NEW base \in Views,
         FlagsSound(cache, base), FlagsSound(child, GetCoins(cache, base))
  PROVE  /\ BatchWrite(child, cache) \in Caches
         /\ FlagsSound(BatchWrite(child, cache), base)
         /\ Unspent(GetCoins(BatchWrite(child, cache), base))
              = Unspent(GetCoins(child, GetCoins(cache, base)))
<1> DEFINE c2 == BatchWrite(child, cache)
<1>1. \A k \in Txids : c2[k] = Merged(child[k], cache[k])
  BY DEF BatchWrite
<1>2. ASSUME NEW k \in Txids
      PROVE  /\ Merged(child[k], cache[k]) \in Entry
             /\ EntrySound(Merged(child[k], cache[k]), base[k])
             /\ Left(Through(Merged(child[k], cache[k]), base[k]))
                  = Left(Through(child[k], Through(cache[k], base[k])))
  <2>1. base[k] \in Found \cup {Absent} /\ child[k] \in Entry /\ cache[k] \in Entry
    BY EntryField DEF Views
  <2>2. EntrySound(cache[k], base[k])
    BY DEF FlagsSound
  <2>3. EntrySound(child[k], Through(cache[k], base[k]))
    BY GetCoinsFact DEF FlagsSound
  <2> QED
    BY <2>1, <2>2, <2>3, MergedFact
<1>3. c2 \in Caches
  BY <1>2 DEF BatchWrite, Caches
<1> HIDE DEF c2
<1>4. FlagsSound(c2, base)
  BY <1>1, <1>2, Zenon DEF FlagsSound
<1>5. GetCoins(cache, base) \in Views
  BY GetCoinsFact
<1>6. \A k \in Txids : /\ GetCoins(c2, base)[k] = Through(c2[k], base[k])
                       /\ GetCoins(child, GetCoins(cache, base))[k]
                            = Through(child[k], Through(cache[k], base[k]))
  BY <1>3, <1>5, GetCoinsFact
<1>7. Unspent(GetCoins(c2, base)) = Unspent(GetCoins(child, GetCoins(cache, base)))
  BY <1>1, <1>2, <1>6 DEF Unspent
<1> QED
  BY <1>3, <1>4, <1>7 DEF c2

\* Flushing into the database leaves on disk what the cache showed, with no
\* empty records (CCoinsViewCache::Flush into CCoinsViewDB::BatchWrite).
THEOREM BatchWriteDBSound ==
  ASSUME NEW cache \in Caches, NEW db \in [Txids -> Coins \cup {Absent}],
         FlagsSound(cache, db)
  PROVE  /\ BatchWriteDB(cache, db) \in [Txids -> Coins \cup {Absent}]
         /\ BatchWriteDB(cache, db) = Unspent(GetCoins(cache, db))
<1>1. db \in Views
  BY DEF Views, Found
<1>2. ASSUME NEW k \in Txids
      PROVE  /\ (IF ~cache[k].dirty THEN db[k] ELSE Left(cache[k].coins))
                  = Left(Through(cache[k], db[k]))
             /\ Left(Through(cache[k], db[k])) \in Coins \cup {Absent}
  <2>1. EntrySound(cache[k], db[k]) /\ db[k] \in Coins \cup {Absent}
    BY DEF FlagsSound
  <2>2. Left(db[k]) = db[k]
    BY <2>1 DEF Left, IsPruned
  <2>3. CASE ~cache[k].dirty
    BY <2>1, <2>2, <2>3 DEF EntrySound, Through
  <2>4. CASE cache[k].dirty
    <3>1. cache[k].coins # Absent
      BY <2>1, <2>4, NoEntryFact DEF EntrySound
    <3>2. Left(cache[k].coins) \in Coins \cup {Absent}
      BY DEF Left, IsPruned
    <3> QED
      BY <2>4, <3>1, <3>2 DEF Through
  <2> QED
    BY <2>3, <2>4
<1>3. \A k \in Txids : GetCoins(cache, db)[k] = Through(cache[k], db[k])
  BY <1>1, GetCoinsFact
<1> QED
  BY <1>2, <1>3 DEF BatchWriteDB, Unspent

\* Dropping a clean entry changes nothing that can be seen
\* (CCoinsViewCache::Uncache).
THEOREM UncacheSound ==
  ASSUME NEW cache \in Caches, NEW base \in Views, NEW k \in Txids,
         FlagsSound(cache, base)
  PROVE  /\ Uncache(cache, k) \in Caches
         /\ FlagsSound(Uncache(cache, k), base)
         /\ Unspent(GetCoins(Uncache(cache, k), base)) = Unspent(GetCoins(cache, base))
<1>1. CASE cache[k].dirty \/ cache[k].fresh
  BY <1>1 DEF Uncache
<1>2. CASE ~(cache[k].dirty \/ cache[k].fresh)
  <2>1. Uncache(cache, k) = [cache EXCEPT ![k] = NoEntry]
    BY <1>2 DEF Uncache
  <2>2. base[k] \in Found \cup {Absent}
    BY DEF Views
  <2>3. NoEntry \in Entry /\ EntrySound(NoEntry, base[k]) /\ Through(NoEntry, base[k]) = base[k]
    BY <2>2, NoEntryFact, NoEntrySound
  <2>4. Left(GetCoins(cache, base)[k]) = Left(base[k])
    BY <1>2 DEF GetCoins, Has, FlagsSound, EntrySound
  <2>5. [Unspent(GetCoins(cache, base)) EXCEPT ![k] = Left(base[k])] = Unspent(GetCoins(cache, base))
    BY <2>4, Zenon DEF Unspent
  <2>6. /\ [cache EXCEPT ![k] = NoEntry] \in Caches
        /\ FlagsSound([cache EXCEPT ![k] = NoEntry], base)
        /\ Unspent(GetCoins([cache EXCEPT ![k] = NoEntry], base))
             = [Unspent(GetCoins(cache, base)) EXCEPT ![k] = Left(Through(NoEntry, base[k]))]
    BY <2>3, PutFact
  <2> QED
    BY <2>1, <2>3, <2>5, <2>6
<1> QED
  BY <1>1, <1>2
=============================================================================
