------------------------- MODULE ATileLoaderProofs --------------------------
(***************************************************************************)
(* Proofs about the tile loaders and their cache, for any number of        *)
(* loaders, any image and any cache size.                                  *)
(***************************************************************************)
EXTENDS ATileLoader, CommonLemmas

-----------------------------------------------------------------------------
(* A cached buffer moved to the front keeps its place only in the list.    *)
LEMMA MoveToFrontKeepsMembers ==
  ASSUME lru \in Seq(Slot), NoRepeat(lru), NEW s \in Elems(lru)
  PROVE  /\ MoveToFront(s) \in Seq(Slot)
         /\ NoRepeat(MoveToFront(s))
         /\ Elems(MoveToFront(s)) = Elems(lru)
         /\ Len(MoveToFront(s)) = Len(lru)
<1> DEFINE n == Len(lru)
           p == CHOOSE i \in 1..n : lru[i] = s
           r == MoveToFront(s)
<1>1. n \in Nat /\ p \in 1..n /\ lru[p] = s
  BY DEF Elems
<1>2. r = [i \in 1..n |-> IF i = 1 THEN s ELSE IF i <= p THEN lru[i - 1] ELSE lru[i]]
  BY DEF MoveToFront
<1> HIDE DEF p, r
<1>3. /\ r[1] = s
      /\ \A i \in 2..p : r[i] = lru[i - 1] /\ i - 1 \in 1..n
      /\ \A i \in p + 1..n : r[i] = lru[i] /\ i # 1
  BY <1>1, <1>2
<1>4. s \in Slot /\ \A i \in 1..n : lru[i] \in Slot
  BY <1>1
<1>5. r \in Seq(Slot) /\ Len(r) = n
  <2>1. ASSUME NEW i \in 1..n PROVE r[i] \in Slot
    <3>1. i = 1 \/ i \in 2..p \/ i \in p + 1..n
      BY <1>1
    <3> QED BY <3>1, <1>3, <1>4
  <2>2. r \in [1..n -> Slot]
    BY <1>2, <2>1
  <2> QED BY <2>2, <1>1
<1>6. ASSUME NEW i \in 1..n, NEW j \in 1..n, r[i] = r[j] PROVE i = j
  <2>1. /\ i = 1 \/ i \in 2..p \/ i \in p + 1..n
        /\ j = 1 \/ j \in 2..p \/ j \in p + 1..n
    BY <1>1
  <2> DEFINE from(k) == IF k = 1 THEN p ELSE IF k <= p THEN k - 1 ELSE k
  <2>2. /\ from(i) \in 1..n /\ lru[from(i)] = r[i]
        /\ from(j) \in 1..n /\ lru[from(j)] = r[j]
    BY <2>1, <1>1, <1>3
  <2>3. from(i) = from(j)
    BY <2>2, <1>6 DEF NoRepeat
  <2> QED BY <2>1, <2>3, <1>1
<1>7. ASSUME NEW x \in Elems(r) PROVE x \in Elems(lru)
  <2>1. PICK i \in 1..n : x = r[i]
    BY <1>5 DEF Elems
  <2>2. i = 1 \/ i \in 2..p \/ i \in p + 1..n
    BY <1>1
  <2> QED BY <2>1, <2>2, <1>3 DEF Elems
<1>8. ASSUME NEW x \in Elems(lru) PROVE x \in Elems(r)
  <2>1. PICK i \in 1..n : x = lru[i]
    BY DEF Elems
  <2>2. CASE i < p
    <3>1. i + 1 \in 2..p /\ i + 1 \in 1..n
      BY <2>2, <1>1
    <3>2. r[i + 1] = x
      BY <3>1, <2>1, <1>3
    <3> QED BY <3>1, <3>2, <1>5 DEF Elems
  <2>3. CASE i = p
    BY <2>1, <2>3, <1>1, <1>3, <1>5 DEF Elems
  <2>4. CASE i > p
    <3>1. i \in p + 1..n
      BY <2>4, <1>1
    <3> QED BY <3>1, <2>1, <1>3, <1>5 DEF Elems
  <2> QED BY <2>2, <2>3, <2>4, <1>1
<1> QED BY <1>5, <1>6, <1>7, <1>8 DEF NoRepeat, r

-----------------------------------------------------------------------------
(* Inv holds at the start and every step keeps it.                         *)

(* initCache allocates at least one buffer.                                *)
LEMMA SomeSlot == NbTilesCache \in Nat \ {0} /\ Origin \in Tile
<1>1. NumTilesHeight * NumTilesWidth \in Nat \ {0}
  BY SizesAssumption
<1> QED BY <1>1, SizesAssumption DEF NbTilesCache, Origin, Tile

LEMMA InvInit == Init => Inv
<1> SUFFICES ASSUME Init PROVE Inv
  OBVIOUS
<1> USE DEF Init, CacheInit
<1>1. NbTilesCache \in Nat /\ Origin \in Tile
  BY SomeSlot
<1>2. pool \in Seq(Slot) /\ NoRepeat(pool) /\ Elems(pool) = Slot
      /\ Len(pool) = NbTilesCache
  BY <1>1 DEF Slot, NoRepeat, Elems
<1>3. lru \in Seq(Slot) /\ NoRepeat(lru) /\ Elems(lru) = {} /\ Len(lru) = 0
  BY DEF NoRepeat, Elems
<1>4. TypeOK
  BY <1>1, <1>2, <1>3, RequestsAssumption DEF TypeOK, Slot, NoSlot
<1>5. CacheCoherent
  <2>1. \A t \in Tile, s \in Slot : mapCache[t] # s
    BY <1>1 DEF Slot, NoSlot
  <2>2. Len(lru) + Len(pool) = NbTilesCache
    BY <1>1, <1>2, <1>3
  <2> HIDE DEF Init, CacheInit
  <2> QED BY <2>1, <2>2, <1>2, <1>3 DEF CacheCoherent
<1>6. MutexesAgree /\ ChoiceStillRight /\ HeldTileIsTheAsked /\ CopiesAskedTile
  BY NamesAssumption DEF MutexesAgree, ChoiceStillRight, HeldTileIsTheAsked,
                         CopiesAskedTile, Holding
<1>7. PoolIsNew /\ CachedTilesAreLoaded
  BY <1>2, <1>3 DEF PoolIsNew, CachedTilesAreLoaded
<1> QED BY <1>4, <1>5, <1>6, <1>7 DEF Inv

(* A loader past the cache's mutex has a buffer in hand.                   *)
LEMMA SlotInHand ==
  ASSUME Inv, NEW l \in Loader,
         pc[l] \in {"hit", "recycle", "take"} \union Holding
  PROVE  /\ slot[l] \in Slot
         /\ pc[l] \in {"hit", "recycle"} \union Holding => slot[l] \in Elems(lru)
         /\ pc[l] = "take" => slot[l] \in Elems(pool)
<1> USE DEF Inv, TypeOK
<1>1. CASE pc[l] = "hit"
  BY <1>1 DEF ChoiceStillRight, CacheCoherent, Holding
<1>2. CASE pc[l] = "recycle"
  <2>1. /\ lru \in Seq(Slot) /\ lru # <<>> /\ NoRepeat(lru)
        /\ slot[l] = lru[Len(lru)]
    BY <1>2 DEF ChoiceStillRight, CacheCoherent
  <2>2. slot[l] \in Slot /\ slot[l] \in Elems(lru)
    BY <2>1, PopBack
  <2> QED BY <1>2, <2>2 DEF Holding
<1>3. CASE pc[l] = "take"
  <2>1. /\ pool \in Seq(Slot) /\ pool # <<>> /\ NoRepeat(pool)
        /\ slot[l] = Head(pool)
    BY <1>3 DEF ChoiceStillRight, CacheCoherent
  <2>2. slot[l] \in Slot /\ slot[l] \in Elems(pool)
    BY <2>1, PopFront
  <2> QED BY <1>3, <2>2 DEF Holding
<1>4. CASE pc[l] \in Holding
  BY <1>4 DEF HeldTileIsTheAsked, CacheCoherent, Holding
<1> QED BY <1>1, <1>2, <1>3, <1>4

LEMMA LockOnHitKeepsInv ==
  ASSUME Inv, NEW l \in Loader, LockOnHit(l),
         UNCHANGED <<pending, got, timeDisk, timeSeen>>
  PROVE  Inv'
<1> USE DEF Inv, LockOnHit, Goto, cacheVars
<1>1. mapCache[ask[l]] \in Slot
  BY DEF TypeOK, IsInCache
<1>2. TypeOK'
  BY <1>1 DEF TypeOK
<1>3. CacheCoherent'
  BY DEF CacheCoherent
<1>4. MutexesAgree'
  BY NamesAssumption DEF MutexesAgree, TypeOK, Holding
<1>5. ChoiceStillRight'
  BY NamesAssumption DEF ChoiceStillRight, TypeOK, IsInCache, MutexesAgree
<1>6. HeldTileIsTheAsked' /\ CopiesAskedTile'
  BY DEF HeldTileIsTheAsked, CopiesAskedTile, TypeOK, Holding
<1>7. PoolIsNew' /\ CachedTilesAreLoaded'
  BY DEF PoolIsNew, CachedTilesAreLoaded, TypeOK
<1> QED BY <1>2, <1>3, <1>4, <1>5, <1>6, <1>7

LEMMA LockOnMissKeepsInv ==
  ASSUME Inv, NEW l \in Loader, LockOnMiss(l),
         UNCHANGED <<pending, got, timeDisk, timeSeen>>
  PROVE  Inv'
<1> USE DEF Inv
<1>1. /\ pc[l] = "get" /\ cacheMutex = NoLoader /\ ~IsInCache(ask[l])
      /\ cacheMutex' = l /\ miss' = miss + 1
      /\ UNCHANGED <<ask, tileMutex, hit, pool, lru, mapCache, index, newTile,
                     content, pending, got, timeDisk, timeSeen>>
  BY DEF LockOnMiss, cacheVars
<1>2. PICK s, where :
        /\ pc' = [pc EXCEPT ![l] = where]
        /\ slot' = [slot EXCEPT ![l] = s]
        /\ s \in Slot
        /\ \/ where = "recycle" /\ pool = <<>> /\ lru # <<>> /\ s = lru[Len(lru)]
           \/ where = "take" /\ pool # <<>> /\ s = Head(pool)
  <2>1. CASE pool = <<>>
    <3>1. 1 \in Slot /\ Elems(pool) = {}
      BY <2>1, SomeSlot DEF Slot, Elems
    <3>2. lru # <<>>
      <4>1. 1 \in Elems(lru)
        BY <3>1 DEF CacheCoherent
      <4> QED BY <4>1 DEF Elems
    <3>3. lru[Len(lru)] \in Slot
      BY <3>2, PopBack DEF CacheCoherent, TypeOK
    <3> QED BY <2>1, <3>2, <3>3 DEF LockOnMiss, Goto
  <2>2. CASE pool # <<>>
    <3>1. Head(pool) \in Slot
      BY <2>2, PopFront DEF CacheCoherent, TypeOK
    <3> QED BY <2>2, <3>1 DEF LockOnMiss, Goto
  <2> QED BY <2>1, <2>2
<1>3. TypeOK'
  BY <1>1, <1>2 DEF TypeOK
<1>4. CacheCoherent'
  BY <1>1 DEF CacheCoherent
<1>5. MutexesAgree'
  BY <1>1, <1>2, NamesAssumption DEF MutexesAgree, TypeOK, Holding
<1>6. ChoiceStillRight'
  BY <1>1, <1>2, NamesAssumption DEF ChoiceStillRight, TypeOK, IsInCache, MutexesAgree
<1>7. HeldTileIsTheAsked' /\ CopiesAskedTile'
  BY <1>1, <1>2 DEF HeldTileIsTheAsked, CopiesAskedTile, TypeOK, Holding
<1>8. PoolIsNew' /\ CachedTilesAreLoaded'
  BY <1>1 DEF PoolIsNew, CachedTilesAreLoaded, TypeOK
<1> QED BY <1>3, <1>4, <1>5, <1>6, <1>7, <1>8

LEMMA RecycleTileKeepsInv ==
  ASSUME Inv, NEW l \in Loader, RecycleTile(l),
         UNCHANGED <<pending, got, timeDisk, timeSeen>>
  PROVE  Inv'
<1> USE DEF Inv, RecycleTile, Goto
<1> DEFINE s == slot[l]
<1>1. /\ pool = <<>> /\ lru # <<>> /\ s = lru[Len(lru)] /\ ~IsInCache(ask[l])
      /\ s \in Slot /\ s \in Elems(lru) /\ s \notin Elems(pool)
  BY SlotInHand DEF ChoiceStillRight, CacheCoherent
<1>2. /\ lru' \in Seq(Slot) /\ NoRepeat(lru') /\ Elems(lru') = Elems(lru) \ {s}
  BY <1>1, PopBack DEF CacheCoherent, TypeOK
<1>3. /\ pool' \in Seq(Slot) /\ NoRepeat(pool')
      /\ Elems(pool') = Elems(pool) \union {s} /\ Head(pool') = s /\ pool' # <<>>
  <2>1. Append(pool, s) # <<>> /\ Head(Append(pool, s)) = s
    BY <1>1
  <2>2. pool' = Append(pool, s) /\ pool \in Seq(Slot) /\ NoRepeat(pool)
    BY DEF CacheCoherent, TypeOK
  <2>3. /\ Append(pool, s) \in Seq(Slot) /\ NoRepeat(Append(pool, s))
        /\ Elems(Append(pool, s)) = Elems(pool) \union {s}
    <3> HIDE DEF Inv, RecycleTile, Goto, s
    <3>1. s \in Slot /\ s \notin Elems(pool)
      BY <1>1
    <3> QED BY <3>1, <2>2, PushBack
  <2> QED BY <2>1, <2>2, <2>3
<1>4. index[s] \in Tile /\ Origin \in Tile
  BY <1>1, SomeSlot DEF TypeOK
<1>5. TypeOK'
  BY <1>2, <1>3, <1>4 DEF TypeOK
<1>6. CacheCoherent'
  <2>1. ASSUME NEW t \in Tile, NEW u \in Slot
        PROVE  mapCache'[t] = u <=> u \in Elems(lru') /\ index'[u] = t
    <3>1. mapCache[t] = u <=> u \in Elems(lru) /\ index[u] = t
      BY DEF CacheCoherent
    <3>2. mapCache[index[s]] = s
      BY <1>1, <1>4 DEF CacheCoherent
    <3>3. NoSlot # u
      BY DEF NoSlot, Slot
    <3>4. CASE t = index[s]
      BY <3>1, <3>2, <3>3, <3>4, <1>1, <1>2, <1>4 DEF TypeOK
    <3>5. CASE t # index[s]
      BY <3>1, <3>5, <1>1, <1>2, <1>4 DEF TypeOK
    <3> QED BY <3>4, <3>5
  <2> QED BY <2>1, <1>1, <1>2, <1>3 DEF CacheCoherent
<1>7. MutexesAgree'
  BY NamesAssumption DEF MutexesAgree, TypeOK, Holding
<1>8. ChoiceStillRight'
  <2>1. ~IsInCache(ask[l])'
    BY <1>1, <1>4 DEF IsInCache, TypeOK
  <2>2. \A m \in Loader : pc[m] \in {"hit", "recycle", "take"} => m = l
    BY DEF MutexesAgree
  <2>3. \A m \in Loader : m # l => pc'[m] \notin {"hit", "recycle", "take"}
    BY <2>2 DEF TypeOK
  <2>4. pc'[l] = "take"
    BY DEF TypeOK
  <2> QED BY <2>1, <2>3, <2>4, <1>3 DEF ChoiceStillRight
<1>9. HeldTileIsTheAsked' /\ CopiesAskedTile'
  <2>1. ASSUME NEW m \in Loader, pc'[m] \in Holding
        PROVE  pc[m] = pc'[m] /\ pc[m] \in Holding /\ slot[m] # s /\ slot[m] \in Slot
    <3>1. m # l /\ pc[m] = pc'[m] /\ pc[m] \in Holding
      BY <2>1 DEF TypeOK, Holding
    <3>2. slot[m] \in Slot /\ tileMutex[slot[m]] = m
      BY <3>1, SlotInHand DEF MutexesAgree
    <3> QED BY <3>1, <3>2, NamesAssumption
  <2>2. HeldTileIsTheAsked'
    BY <2>1, <1>1, <1>2 DEF HeldTileIsTheAsked, TypeOK
  <2> QED BY <2>2 DEF CopiesAskedTile, TypeOK
<1>10. PoolIsNew'
  <2>1. \A u \in Slot : newTile'[u] = (u = s \/ newTile[u])
    BY <1>1 DEF TypeOK
  <2>2. Elems(pool) \subseteq Slot
    BY DEF CacheCoherent
  <2> QED BY <1>1, <1>3, <2>1, <2>2 DEF PoolIsNew
<1>11. CachedTilesAreLoaded'
  <2>1. \A u \in Elems(lru') : /\ u \in Elems(lru)
                               /\ newTile'[u] = newTile[u] /\ index'[u] = index[u]
    BY <1>1, <1>2 DEF TypeOK, CacheCoherent
  <2> QED BY <2>1 DEF CachedTilesAreLoaded
<1> QED BY <1>5, <1>6, <1>7, <1>8, <1>9, <1>10, <1>11

LEMMA GetNewLockedTileKeepsInv ==
  ASSUME Inv, NEW l \in Loader, GetNewLockedTile(l),
         UNCHANGED <<pending, got, timeDisk, timeSeen>>
  PROVE  Inv'
<1> USE DEF Inv, GetNewLockedTile, Goto
<1> DEFINE s == slot[l]
<1>1. /\ pool # <<>> /\ s = Head(pool) /\ ~IsInCache(ask[l]) /\ ask[l] \in Tile
      /\ s \in Slot /\ s \in Elems(pool) /\ s \notin Elems(lru)
  BY SlotInHand DEF ChoiceStillRight, CacheCoherent, TypeOK
<1>2. /\ lru' \in Seq(Slot) /\ NoRepeat(lru') /\ Elems(lru') = Elems(lru) \union {s}
  <2>1. lru' = <<s>> \o lru /\ lru \in Seq(Slot) /\ NoRepeat(lru)
    BY DEF CacheCoherent, TypeOK
  <2> HIDE DEF Inv, GetNewLockedTile, Goto, s
  <2> QED BY <1>1, <2>1, PushFront
<1>3. /\ pool' \in Seq(Slot) /\ NoRepeat(pool') /\ Elems(pool') = Elems(pool) \ {s}
  BY <1>1, PopFront DEF CacheCoherent, TypeOK
<1>4. TypeOK'
  BY <1>1, <1>2, <1>3 DEF TypeOK, Holding
<1>5. CacheCoherent'
  <2>1. ASSUME NEW t \in Tile, NEW u \in Slot
        PROVE  mapCache'[t] = u <=> u \in Elems(lru') /\ index'[u] = t
    <3>1. mapCache[t] = u <=> u \in Elems(lru) /\ index[u] = t
      BY DEF CacheCoherent
    <3>2. \A v \in Elems(lru) : v \in Slot /\ index[v] # ask[l]
      BY <1>1 DEF CacheCoherent, IsInCache, NoSlot, Slot
    <3>3. CASE t = ask[l]
      BY <3>2, <3>3, <1>1, <1>2 DEF TypeOK
    <3>4. CASE t # ask[l]
      BY <3>1, <3>4, <1>1, <1>2 DEF TypeOK
    <3> QED BY <3>3, <3>4
  <2>2. /\ Elems(lru) \intersect Elems(pool) = {}
        /\ Elems(lru) \union Elems(pool) = Slot
    BY DEF CacheCoherent
  <2>3. /\ Elems(lru') \intersect Elems(pool') = {}
        /\ Elems(lru') \union Elems(pool') = Slot
    <3>1. /\ Elems(pool') = Elems(pool) \ {s} /\ s \in Elems(pool)
          /\ Elems(lru') = Elems(lru) \union {s} /\ s \in Slot
      BY <1>1, <1>2, <1>3
    <3> DEFINE L == Elems(lru)
               P == Elems(pool)
    <3>2. L \intersect P = {} /\ L \union P = Slot /\ s \in P
      BY <2>2, <3>1
    <3> HIDE DEF L, P, s
    <3>3. (L \union {s}) \intersect (P \ {s}) = {} /\ (L \union {s}) \union (P \ {s}) = Slot
      BY <3>2
    <3> QED BY <3>1, <3>3 DEF L, P
  <2> QED BY <2>1, <2>3, <1>2, <1>3 DEF CacheCoherent
<1>6. MutexesAgree'
  BY <1>1, NamesAssumption DEF MutexesAgree, TypeOK, Holding
<1>7. ChoiceStillRight'
  <2>1. \A m \in Loader : pc'[m] \notin {"hit", "recycle", "take"}
    BY DEF MutexesAgree, TypeOK
  <2> QED BY <2>1 DEF ChoiceStillRight
<1>8. newTile[s]
  BY <1>1 DEF PoolIsNew
<1>9. HeldTileIsTheAsked'
  <2>1. ASSUME NEW m \in Loader, m # l, pc'[m] \in Holding
        PROVE  pc[m] = pc'[m] /\ pc[m] \in Holding /\ slot[m] # s /\ slot[m] \in Elems(lru)
    <3>1. pc[m] = pc'[m] /\ pc[m] \in Holding
      BY <2>1 DEF TypeOK
    <3> QED BY <3>1, <1>1, SlotInHand
  <2>2. Elems(lru) \subseteq Slot
    BY DEF CacheCoherent
  <2>3. ASSUME NEW m \in Loader, m # l, pc'[m] \in Holding
        PROVE  /\ slot'[m] \in Elems(lru')
               /\ index'[slot'[m]] = ask'[m]
               /\ pc'[m] # "check" => ~newTile'[slot'[m]]
               /\ ~newTile'[slot'[m]] /\ pc'[m] # "load" =>
                    content'[slot'[m]] \in Readings(ask'[m])
    BY <2>1, <2>2, <2>3, <1>2 DEF HeldTileIsTheAsked, TypeOK
  <2>4. /\ slot'[l] \in Elems(lru') /\ index'[slot'[l]] = ask'[l]
        /\ pc'[l] = "check" /\ newTile'[slot'[l]]
    BY <1>1, <1>2, <1>8 DEF TypeOK
  <2> QED BY <2>3, <2>4 DEF HeldTileIsTheAsked
<1>10. CopiesAskedTile'
  BY DEF CopiesAskedTile, TypeOK
<1>11. PoolIsNew'
  BY <1>3 DEF PoolIsNew
<1>12. CachedTilesAreLoaded'
  <2>1. ASSUME NEW u \in Elems(lru'), tileMutex'[u] = NoLoader
        PROVE  u \in Elems(lru) /\ tileMutex[u] = NoLoader /\ index'[u] = index[u]
    <3>1. u \in Slot /\ s \in Slot /\ l # NoLoader
      BY <1>1, <1>2, NamesAssumption DEF CacheCoherent
    <3>2. tileMutex'[s] = l
      BY <3>1 DEF TypeOK
    <3>3. u # s
      BY <3>1, <3>2, <2>1
    <3> QED BY <3>1, <3>3, <2>1, <1>2 DEF TypeOK
  <2> QED BY <2>1 DEF CachedTilesAreLoaded
<1> QED BY <1>4, <1>5, <1>6, <1>7, <1>9, <1>10, <1>11, <1>12

LEMMA GetCachedLockedTileKeepsInv ==
  ASSUME Inv, NEW l \in Loader, GetCachedLockedTile(l),
         UNCHANGED <<pending, got, timeDisk, timeSeen>>
  PROVE  Inv'
<1> USE DEF Inv, GetCachedLockedTile, Goto
<1> DEFINE s == slot[l]
<1>1. /\ s = mapCache[ask[l]] /\ ask[l] \in Tile /\ s \in Slot
      /\ s \in Elems(lru) /\ index[s] = ask[l] /\ tileMutex[s] = NoLoader
  BY SlotInHand DEF ChoiceStillRight, CacheCoherent, TypeOK
<1>2. /\ lru' \in Seq(Slot) /\ NoRepeat(lru') /\ Elems(lru') = Elems(lru)
      /\ Len(lru') = Len(lru)
  BY <1>1, MoveToFrontKeepsMembers DEF CacheCoherent, TypeOK
<1>3. TypeOK'
  BY <1>1, <1>2 DEF TypeOK, Holding
<1>4. CacheCoherent'
  BY <1>2 DEF CacheCoherent
<1>5. MutexesAgree'
  BY <1>1, NamesAssumption DEF MutexesAgree, TypeOK, Holding
<1>6. ChoiceStillRight'
  <2>1. \A m \in Loader : pc'[m] \notin {"hit", "recycle", "take"}
    BY DEF MutexesAgree, TypeOK
  <2> QED BY <2>1 DEF ChoiceStillRight
<1>7. ~newTile[s] /\ content[s] \in Readings(ask[l])
  BY <1>1 DEF CachedTilesAreLoaded
<1>8. HeldTileIsTheAsked'
  <2>1. \A m \in Loader : m # l => pc'[m] = pc[m]
    BY DEF TypeOK
  <2>2. pc'[l] = "check"
    BY DEF TypeOK
  <2> QED BY <2>1, <2>2, <1>1, <1>2, <1>7 DEF HeldTileIsTheAsked
<1>9. CopiesAskedTile' /\ PoolIsNew'
  BY DEF CopiesAskedTile, PoolIsNew, TypeOK
<1>10. CachedTilesAreLoaded'
  <2>1. \A u \in Elems(lru) : tileMutex'[u] = NoLoader => tileMutex[u] = NoLoader
    BY <1>1 DEF TypeOK, CacheCoherent
  <2> QED BY <2>1, <1>2 DEF CachedTilesAreLoaded
<1> QED BY <1>3, <1>4, <1>5, <1>6, <1>8, <1>9, <1>10

LEMMA ReceiveKeepsInv ==
  ASSUME Inv, NEW l \in Loader, NEW t \in Tile, Receive(l, t)
  PROVE  Inv'
<1> USE DEF Inv, Receive, Goto, cacheVars
<1>1. TypeOK' /\ CacheCoherent'
  BY DEF TypeOK, CacheCoherent
<1>2. MutexesAgree'
  BY NamesAssumption DEF MutexesAgree, TypeOK, Holding
<1>3. ChoiceStillRight'
  BY DEF ChoiceStillRight, TypeOK, IsInCache
<1>4. HeldTileIsTheAsked' /\ CopiesAskedTile' /\ PoolIsNew' /\ CachedTilesAreLoaded'
  BY DEF HeldTileIsTheAsked, CopiesAskedTile, PoolIsNew, CachedTilesAreLoaded,
         TypeOK, Holding
<1> QED BY <1>1, <1>2, <1>3, <1>4

LEMMA CheckNewTileKeepsInv ==
  ASSUME Inv, NEW l \in Loader, CheckNewTile(l)
  PROVE  Inv'
<1> USE DEF Inv
<1> DEFINE s == slot[l]
<1>1. /\ pc[l] = "check" /\ s \in Slot /\ s \in Elems(lru) /\ index[s] = ask[l]
      /\ tileMutex[s] = l /\ s \notin Elems(pool)
  BY SlotInHand DEF CheckNewTile, HeldTileIsTheAsked, MutexesAgree, Holding, CacheCoherent
<1>2. PICK where \in {"load", "copy"} :
        /\ where = "copy" => content[s] \in Readings(ask[l])
        /\ pc' = [pc EXCEPT ![l] = where]
  BY <1>1 DEF CheckNewTile, Goto, HeldTileIsTheAsked, Holding, TypeOK
<1>3. /\ newTile' = [newTile EXCEPT ![s] = FALSE]
      /\ UNCHANGED <<ask, slot, got, pending, cacheMutex, tileMutex, pool, lru,
                     mapCache, index, content, hit, miss, timeDisk, timeSeen>>
  BY DEF CheckNewTile
<1>4. TypeOK' /\ CacheCoherent'
  BY <1>1, <1>2, <1>3 DEF TypeOK, CacheCoherent, Holding
<1>5. MutexesAgree'
  BY <1>1, <1>2, <1>3 DEF MutexesAgree, TypeOK, Holding
<1>6. ChoiceStillRight' /\ CopiesAskedTile'
  BY <1>2, <1>3 DEF ChoiceStillRight, CopiesAskedTile, TypeOK, IsInCache
<1>7. HeldTileIsTheAsked'
  <2>1. ASSUME NEW m \in Loader, m # l, pc'[m] \in Holding
        PROVE  slot[m] # s /\ pc[m] \in Holding /\ pc'[m] = pc[m] /\ slot[m] \in Slot
    <3>1. pc[m] \in Holding /\ pc'[m] = pc[m]
      BY <2>1, <1>2 DEF TypeOK
    <3>2. slot[m] \in Slot /\ tileMutex[slot[m]] = m
      BY <3>1, SlotInHand DEF MutexesAgree
    <3> QED BY <3>1, <3>2, <2>1, <1>1
  <2> QED BY <2>1, <1>1, <1>2, <1>3 DEF HeldTileIsTheAsked, TypeOK, Holding
<1>8. PoolIsNew'
  BY <1>1, <1>3 DEF PoolIsNew, TypeOK, CacheCoherent
<1>9. CachedTilesAreLoaded'
  BY <1>1, <1>3, NamesAssumption DEF CachedTilesAreLoaded, TypeOK, CacheCoherent
<1> QED BY <1>4, <1>5, <1>6, <1>7, <1>8, <1>9

LEMMA LoadTileFromFileKeepsInv ==
  ASSUME Inv, NEW l \in Loader, LoadTileFromFile(l)
  PROVE  Inv'
<1> USE DEF Inv
<1> DEFINE s == slot[l]
<1>1. /\ pc[l] = "load" /\ s \in Slot /\ s \in Elems(lru) /\ index[s] = ask[l]
      /\ tileMutex[s] = l /\ ~newTile[s] /\ ask[l] \in Tile
  BY SlotInHand DEF LoadTileFromFile, HeldTileIsTheAsked, MutexesAgree, Holding, TypeOK
<1>2. PICK d \in Readings(ask[l]) : content' = [content EXCEPT ![s] = d]
  BY DEF LoadTileFromFile
<1>3. d \in Tile \union {Garbage}
  BY <1>1, <1>2 DEF Readings
<1>4. /\ pc' = [pc EXCEPT ![l] = "time"]
      /\ timeSeen' = [timeSeen EXCEPT ![l] = timeDisk]
      /\ UNCHANGED <<ask, slot, got, pending, cacheMutex, tileMutex, pool, lru,
                     mapCache, index, newTile, hit, miss, timeDisk>>
  BY DEF LoadTileFromFile, Goto
<1>5. TypeOK' /\ CacheCoherent'
  BY <1>1, <1>2, <1>3, <1>4 DEF TypeOK, CacheCoherent, Holding
<1>6. MutexesAgree'
  BY <1>1, <1>4 DEF MutexesAgree, TypeOK, Holding
<1>7. ChoiceStillRight' /\ CopiesAskedTile' /\ PoolIsNew'
  BY <1>4 DEF ChoiceStillRight, CopiesAskedTile, PoolIsNew, TypeOK, IsInCache
<1>8. HeldTileIsTheAsked'
  <2>1. ASSUME NEW m \in Loader, m # l, pc'[m] \in Holding
        PROVE  slot[m] # s /\ pc[m] \in Holding /\ pc'[m] = pc[m] /\ slot[m] \in Slot
    <3>1. pc[m] \in Holding /\ pc'[m] = pc[m]
      BY <2>1, <1>4 DEF TypeOK
    <3>2. slot[m] \in Slot /\ tileMutex[slot[m]] = m
      BY <3>1, SlotInHand DEF MutexesAgree
    <3> QED BY <3>1, <3>2, <2>1, <1>1
  <2> QED BY <2>1, <1>1, <1>2, <1>4 DEF HeldTileIsTheAsked, TypeOK, Holding
<1>9. CachedTilesAreLoaded'
  BY <1>1, <1>2, <1>4, NamesAssumption DEF CachedTilesAreLoaded, TypeOK, CacheCoherent
<1> QED BY <1>5, <1>6, <1>7, <1>8, <1>9

LEMMA AddTimeDiskKeepsInv ==
  ASSUME Inv, NEW l \in Loader, AddTimeDisk(l)
  PROVE  Inv'
<1> USE DEF Inv, AddTimeDisk, Goto, cacheVars
<1>1. TypeOK' /\ CacheCoherent'
  BY DEF TypeOK, CacheCoherent, Holding
<1>2. MutexesAgree'
  BY DEF MutexesAgree, TypeOK, Holding
<1>3. ChoiceStillRight' /\ CopiesAskedTile' /\ PoolIsNew' /\ CachedTilesAreLoaded'
  BY DEF ChoiceStillRight, CopiesAskedTile, PoolIsNew, CachedTilesAreLoaded,
         TypeOK, IsInCache
<1>4. HeldTileIsTheAsked'
  BY DEF HeldTileIsTheAsked, TypeOK, Holding
<1> QED BY <1>1, <1>2, <1>3, <1>4

LEMMA CopyTileToViewKeepsInv ==
  ASSUME Inv, NEW l \in Loader, CopyTileToView(l)
  PROVE  Inv'
<1> USE DEF Inv, CopyTileToView, Goto, cacheVars
<1> DEFINE s == slot[l]
<1>1. /\ s \in Slot /\ s \in Elems(lru) /\ index[s] = ask[l] /\ tileMutex[s] = l
      /\ ~newTile[s] /\ content[s] \in Readings(ask[l])
  BY SlotInHand DEF HeldTileIsTheAsked, MutexesAgree, Holding
<1>2. TypeOK' /\ CacheCoherent'
  BY <1>1 DEF TypeOK, CacheCoherent
<1>3. MutexesAgree'
  BY <1>1, NamesAssumption DEF MutexesAgree, TypeOK, Holding, NoSlot, Slot
<1>4. ChoiceStillRight' /\ PoolIsNew'
  BY DEF ChoiceStillRight, PoolIsNew, TypeOK, IsInCache
<1>5. HeldTileIsTheAsked'
  BY DEF HeldTileIsTheAsked, TypeOK, Holding
<1>6. CopiesAskedTile'
  BY <1>1 DEF CopiesAskedTile, TypeOK
<1>7. CachedTilesAreLoaded'
  BY <1>1 DEF CachedTilesAreLoaded, TypeOK, CacheCoherent
<1> QED BY <1>2, <1>3, <1>4, <1>5, <1>6, <1>7

LEMMA AddResultKeepsInv ==
  ASSUME Inv, NEW l \in Loader, AddResult(l)
  PROVE  Inv'
<1> USE DEF Inv, AddResult, Goto, cacheVars
<1>1. TypeOK' /\ CacheCoherent'
  BY SomeSlot DEF TypeOK, CacheCoherent
<1>2. MutexesAgree'
  BY NamesAssumption DEF MutexesAgree, TypeOK, Holding
<1>3. ChoiceStillRight' /\ CopiesAskedTile' /\ PoolIsNew' /\ CachedTilesAreLoaded'
  BY DEF ChoiceStillRight, CopiesAskedTile, PoolIsNew, CachedTilesAreLoaded,
         TypeOK, IsInCache
<1>4. HeldTileIsTheAsked'
  BY DEF HeldTileIsTheAsked, TypeOK, Holding
<1> QED BY <1>1, <1>2, <1>3, <1>4

LEMMA StutterKeepsInv == Inv /\ UNCHANGED vars => Inv'
BY DEF Inv, vars, loaderVars, cacheVars, TypeOK, CacheCoherent, MutexesAgree,
       ChoiceStillRight, HeldTileIsTheAsked, PoolIsNew, CachedTilesAreLoaded,
       CopiesAskedTile, IsInCache

LEMMA NextKeepsInv == Inv /\ [Next]_vars => Inv'
<1> SUFFICES ASSUME Inv, [Next]_vars PROVE Inv'
  OBVIOUS
<1>1. CASE UNCHANGED vars
  BY <1>1, StutterKeepsInv
<1>2. CASE Done
  BY <1>2, StutterKeepsInv DEF Done
<1>3. ASSUME NEW l \in Loader, ExecuteTask(l) PROVE Inv'
  <2>1. CASE \E t \in Tile : Receive(l, t)
    BY <2>1, ReceiveKeepsInv
  <2>2. CASE GetTile(l)
    BY <2>2, LockOnHitKeepsInv, LockOnMissKeepsInv, RecycleTileKeepsInv,
       GetNewLockedTileKeepsInv, GetCachedLockedTileKeepsInv
       DEF GetTile, GetLockedTile
  <2>3. CASE CheckNewTile(l)
    BY <2>3, CheckNewTileKeepsInv
  <2>4. CASE LoadTileFromFile(l)
    BY <2>4, LoadTileFromFileKeepsInv
  <2>5. CASE AddTimeDisk(l)
    BY <2>5, AddTimeDiskKeepsInv
  <2>6. CASE CopyTileToView(l)
    BY <2>6, CopyTileToViewKeepsInv
  <2>7. CASE AddResult(l)
    BY <2>7, AddResultKeepsInv
  <2> QED BY <1>3, <2>1, <2>2, <2>3, <2>4, <2>5, <2>6, <2>7 DEF ExecuteTask
<1> QED BY <1>1, <1>2, <1>3 DEF Next

(* The mutexes protect the cache: the inductive invariant, for any number  *)
(* of loaders, any image and any cache size.                               *)
THEOREM Invariance == Spec => []Inv
<1>1. Init => Inv
  BY InvInit
<1>2. Inv /\ [Next]_vars => Inv'
  BY NextKeepsInv
<1> QED BY <1>1, <1>2, PTL DEF Spec

(* Every variable of the loaders and the cache keeps its type: in          *)
(* particular no loader follows a null pointer of _mapCache.               *)
THEOREM TypeCorrectness == Spec => []TypeOK
<1>1. Inv => TypeOK
  BY DEF Inv
<1> QED BY <1>1, Invariance, PTL

(* _pool, _lru, _mapCache and the buffers' indices stay consistent.        *)
THEOREM Coherence == Spec => []CacheCoherent
<1>1. Inv => CacheCoherent
  BY DEF Inv
<1> QED BY <1>1, Invariance, PTL

(* No buffer is handed out with another tile's pixels, or unread.          *)
THEOREM HandedOutTilesAreLoaded == Spec => []CachedTilesAreLoaded
<1>1. Inv => CachedTilesAreLoaded
  BY DEF Inv
<1> QED BY <1>1, Invariance, PTL

(* Every tile request is answered with the pixels of the tile asked for.   *)
THEOREM CopyCorrectness == Spec => []CopiesAskedTile
<1>1. Inv => CopiesAskedTile
  BY DEF Inv
<1> QED BY <1>1, Invariance, PTL

-----------------------------------------------------------------------------
(* What a step may never do to a buffer somebody holds.                    *)

(* Two loaders never hold the same buffer.                                 *)
LEMMA OneHolder ==
  ASSUME Inv, NEW l \in Loader, NEW m \in Loader, l # m, pc[l] \in Holding,
         NEW s \in Slot, tileMutex[s] = NoLoader \/ tileMutex[s] = m
  PROVE  slot[l] # s
BY NamesAssumption DEF Inv, MutexesAgree

LEMMA StepLeavesHeldTiles == Inv /\ [Next]_vars => HeldTilesUntouched
<1> SUFFICES ASSUME Inv, [Next]_vars, NEW l \in Loader,
                    pc[l] \in Holding, pc'[l] \in Holding
             PROVE  /\ index'[slot[l]] = index[slot[l]]
                    /\ pc[l] # "load" => content'[slot[l]] = content[slot[l]]
                    /\ tileMutex'[slot[l]] = l
  BY DEF HeldTilesUntouched
<1>1. slot[l] \in Slot /\ tileMutex[slot[l]] = l
  BY SlotInHand DEF Inv, MutexesAgree
<1> USE DEF TypeOK
<1>2. TypeOK
  BY DEF Inv
<1>3. CASE UNCHANGED vars
  BY <1>1, <1>3 DEF vars, cacheVars, loaderVars
<1>4. CASE Done
  BY <1>1, <1>4 DEF Done, vars, cacheVars, loaderVars
<1>5. ASSUME NEW m \in Loader, ExecuteTask(m)
      PROVE  /\ index'[slot[l]] = index[slot[l]]
             /\ pc[l] # "load" => content'[slot[l]] = content[slot[l]]
             /\ tileMutex'[slot[l]] = l
  <2>1. CASE m = l
    BY <1>1, <1>2, <1>5, <2>1
       DEF ExecuteTask, Receive, GetTile, GetLockedTile, LockOnHit, LockOnMiss,
           RecycleTile, GetNewLockedTile, GetCachedLockedTile, CheckNewTile,
           LoadTileFromFile, AddTimeDisk, CopyTileToView, AddResult, Goto,
           Holding, cacheVars
  <2>2. CASE m # l
    <3>1. pc[m] \in {"recycle", "take", "hit"} \union Holding => slot[m] \in Slot
      BY SlotInHand
    <3>2. CASE RecycleTile(m) \/ GetNewLockedTile(m) \/ GetCachedLockedTile(m)
      <4>1. slot[m] \in Slot /\ slot[m] # slot[l]
        BY <2>2, <3>1, <3>2, OneHolder
           DEF RecycleTile, GetNewLockedTile, GetCachedLockedTile
      <4> QED BY <1>1, <1>2, <3>2, <4>1
              DEF RecycleTile, GetNewLockedTile, GetCachedLockedTile
    <3>3. CASE LoadTileFromFile(m) \/ CopyTileToView(m)
      <4>1. slot[m] \in Slot /\ slot[m] # slot[l]
        <5>1. pc[m] \in Holding /\ slot[m] \in Slot
          BY <3>1, <3>3 DEF LoadTileFromFile, CopyTileToView, Holding
        <5>2. tileMutex[slot[m]] = m
          BY <5>1 DEF Inv, MutexesAgree
        <5> QED BY <2>2, <5>1, <5>2, OneHolder
      <4> QED BY <1>1, <1>2, <3>3, <4>1 DEF LoadTileFromFile, CopyTileToView, cacheVars
    <3>4. CASE \/ \E t \in Tile : Receive(m, t)
               \/ LockOnHit(m) \/ LockOnMiss(m) \/ CheckNewTile(m)
               \/ AddTimeDisk(m) \/ AddResult(m)
      BY <1>1, <3>4 DEF Receive, LockOnHit, LockOnMiss, CheckNewTile, AddTimeDisk,
                        AddResult, cacheVars
    <3> QED BY <1>5, <3>2, <3>3, <3>4 DEF ExecuteTask, GetTile, GetLockedTile
  <2> QED BY <2>1, <2>2
<1> QED BY <1>3, <1>4, <1>5 DEF Next

(* From getLockedTile to unlock a buffer is its holder's alone.            *)
THEOREM HeldTilesAreStable == Spec => HeldTileIsStable
<1>1. Inv /\ [Next]_vars => [HeldTilesUntouched]_vars
  BY StepLeavesHeldTiles
<1> QED BY <1>1, Invariance, PTL DEF Spec, HeldTileIsStable

-----------------------------------------------------------------------------
(* The loaders and the cache implement TileStore.                          *)

(* The tiles kept are those _mapCache knows.                               *)
LEMMA KeptTiles ==
  ASSUME Inv
  PROVE  /\ TilesKept \in Seq(Tile) /\ Len(TilesKept) = Len(lru) /\ Len(lru) \in Nat
         /\ \A t \in Tile : t \in Store!Kept <=> IsInCache(t)
<1>1. /\ lru \in Seq(Slot) /\ index \in [Slot -> Tile] /\ Len(lru) \in Nat
      /\ mapCache \in [Tile -> Slot \union {NoSlot}]
  BY DEF Inv, TypeOK
<1>2. \A i \in 1..Len(lru) : lru[i] \in Slot /\ index[lru[i]] \in Tile
  BY <1>1
<1>3. TilesKept \in Seq(Tile) /\ Len(TilesKept) = Len(lru)
  BY <1>1, <1>2 DEF TilesKept
<1>4. \A i \in 1..Len(lru) : TilesKept[i] = index[lru[i]]
  BY DEF TilesKept
<1>5. ASSUME NEW t \in Tile
      PROVE  t \in Store!Kept <=> IsInCache(t)
  <2>1. ASSUME t \in Store!Kept PROVE IsInCache(t)
    <3>1. PICK i \in 1..Len(lru) : t = index[lru[i]]
      BY <2>1, <1>3, <1>4 DEF Store!Kept
    <3>2. lru[i] \in Slot /\ lru[i] \in Elems(lru)
      BY <1>2 DEF Elems
    <3>3. mapCache[t] = lru[i]
      BY <3>1, <3>2 DEF Inv, CacheCoherent
    <3> QED BY <3>2, <3>3 DEF IsInCache, NoSlot, Slot
  <2>2. ASSUME IsInCache(t) PROVE t \in Store!Kept
    <3>1. mapCache[t] \in Slot
      BY <2>2, <1>1 DEF IsInCache
    <3>2. mapCache[t] \in Elems(lru) /\ index[mapCache[t]] = t
      BY <3>1 DEF Inv, CacheCoherent
    <3>3. PICK i \in 1..Len(lru) : lru[i] = mapCache[t]
      BY <3>2 DEF Elems
    <3>4. TilesKept[i] = t
      BY <3>2, <3>3, <1>4
    <3> QED BY <3>3, <3>4, <1>3 DEF Store!Kept
  <2> QED BY <2>1, <2>2
<1> QED BY <1>1, <1>3, <1>5

LEMMA RecycleIsEvict ==
  ASSUME Inv, NEW l \in Loader, RecycleTile(l),
         UNCHANGED <<pending, got, timeDisk, timeSeen>>
  PROVE  Store!Evict(l)
<1> DEFINE s == slot[l]
           n == Len(lru)
<1>1. /\ pc[l] = "recycle" /\ pool = <<>> /\ lru # <<>> /\ s = lru[n] /\ ~IsInCache(ask[l])
      /\ lru' = SubSeq(lru, 1, n - 1) /\ index' = [index EXCEPT ![s] = Origin]
      /\ pc' = [pc EXCEPT ![l] = "take"] /\ UNCHANGED <<ask, got>>
  BY DEF RecycleTile, Goto, Inv, ChoiceStillRight
<1>2. /\ lru \in Seq(Slot) /\ NoRepeat(lru) /\ n \in Nat /\ n > 0
      /\ index \in [Slot -> Tile] /\ ask[l] \in Tile
      /\ pc \in [Loader -> {"idle", "get", "hit", "recycle", "take", "send"} \union Holding]
  BY <1>1 DEF Inv, TypeOK, CacheCoherent
<1>3. n = NbTilesCache
  BY <1>1, <1>2, SomeSlot DEF Inv, CacheCoherent
<1>4. Phases[l] = "asked" /\ Phases' = Phases
  BY <1>1, <1>2 DEF Phases, Phase
<1>5. ask[l] \notin Store!Kept
  BY <1>1, <1>2, KeptTiles
<1>6. TilesKept' = SubSeq(TilesKept, 1, Len(TilesKept) - 1)
  <2>1. /\ lru' \in Seq(Slot) /\ Len(lru') = n - 1
        /\ \A i \in 1..n - 1 : lru'[i] = lru[i]
    BY <1>1, <1>2, PopBack DEF Inv, TypeOK
  <2>2. ASSUME NEW i \in 1..n - 1 PROVE index'[lru'[i]] = index[lru[i]]
    <3>1. i \in 1..n /\ n \in 1..n /\ i # n
      BY <1>2
    <3>2. lru[i] \in Slot /\ lru[i] # s
      BY <3>1, <1>1, <1>2 DEF NoRepeat
    <3> QED BY <3>2, <2>1, <1>1, <1>2
  <2>3. TilesKept' = [i \in 1..n - 1 |-> index[lru[i]]]
    BY <2>1, <2>2 DEF TilesKept
  <2>4. /\ TilesKept \in Seq(Tile) /\ Len(TilesKept) = n
        /\ \A i \in 1..n : TilesKept[i] = index[lru[i]]
    BY KeptTiles DEF TilesKept
  <2>5. SubSeq(TilesKept, 1, n - 1) = [i \in 1..n - 1 |-> index[lru[i]]]
    <3> DEFINE q == TilesKept
    <3>2. q \in Seq(Tile) /\ n - 1 \in 0..Len(q)
      BY <2>4, <1>2
    <3> HIDE DEF q
    <3>3. SubSeq(q, 1, n - 1) = Restrict(q, 1..n - 1)
      BY <3>2, SubSeqRestrict
    <3>1. SubSeq(TilesKept, 1, n - 1) = Restrict(TilesKept, 1..n - 1)
      BY <3>3 DEF q
    <3> QED BY <3>1, <2>4, <1>2 DEF Restrict
  <2> QED BY <2>3, <2>4, <2>5
<1>7. Len(TilesKept) = NbTilesCache
  BY <1>3, KeptTiles
<1> QED BY <1>1, <1>4, <1>5, <1>6, <1>7 DEF Store!Evict

LEMMA GetNewIsUse ==
  ASSUME Inv, NEW l \in Loader, GetNewLockedTile(l),
         UNCHANGED <<pending, got, timeDisk, timeSeen>>
  PROVE  Store!Use(l)
<1> DEFINE s == slot[l]
           n == Len(lru)
<1>1. /\ pc[l] = "take" /\ pool # <<>> /\ ~IsInCache(ask[l])
      /\ lru' = <<s>> \o lru /\ index' = [index EXCEPT ![s] = ask[l]]
      /\ pc' = [pc EXCEPT ![l] = "check"] /\ UNCHANGED <<ask, got>>
  BY DEF GetNewLockedTile, Goto, Inv, ChoiceStillRight
<1>2. /\ lru \in Seq(Slot) /\ pool \in Seq(Slot) /\ n \in Nat
      /\ index \in [Slot -> Tile] /\ ask[l] \in Tile
      /\ pc \in [Loader -> {"idle", "get", "hit", "recycle", "take", "send"} \union Holding]
  BY <1>1 DEF Inv, TypeOK, CacheCoherent
<1>3. s \in Slot /\ s \notin Elems(lru)
  BY <1>1, SlotInHand DEF Inv, CacheCoherent
<1>4. n < NbTilesCache
  <2>1. n + Len(pool) = NbTilesCache
    BY DEF Inv, CacheCoherent
  <2>2. Len(pool) \in Nat /\ Len(pool) > 0
    BY <1>1, <1>2
  <2> QED BY <2>1, <2>2, <1>2, SomeSlot
<1>5. Phases[l] = "asked" /\ Phases' = [Phases EXCEPT ![l] = "using"]
  BY <1>1, <1>2 DEF Phases, Phase, Holding
<1>6. ask[l] \notin Store!Kept
  BY <1>1, <1>2, KeptTiles
<1>7. TilesKept' = <<ask[l]>> \o TilesKept
  <2>1. /\ Len(lru') = n + 1 /\ lru'[1] = s
        /\ \A i \in 2..n + 1 : lru'[i] = lru[i - 1] /\ i - 1 \in 1..n
    BY <1>1, <1>2
  <2>2. /\ TilesKept \in Seq(Tile) /\ Len(TilesKept) = n
        /\ \A i \in 1..n : TilesKept[i] = index[lru[i]]
    BY KeptTiles DEF TilesKept
  <2>3. ASSUME NEW i \in 2..n + 1 PROVE index'[lru'[i]] = TilesKept[i - 1]
    <3>1. lru'[i] = lru[i - 1] /\ i - 1 \in 1..n
      BY <2>1
    <3>2. lru[i - 1] \in Slot /\ lru[i - 1] # s
      BY <3>1, <1>2, <1>3 DEF Elems
    <3> QED BY <3>1, <3>2, <2>2, <1>1, <1>2
  <2>4. index'[lru'[1]] = ask[l]
    BY <2>1, <1>1, <1>2, <1>3
  <2>5. TilesKept' = [i \in 1..n + 1 |-> index'[lru'[i]]]
    BY <2>1 DEF TilesKept
  <2>6. /\ <<ask[l]>> \o TilesKept \in Seq(Tile)
        /\ Len(<<ask[l]>> \o TilesKept) = n + 1
        /\ (<<ask[l]>> \o TilesKept)[1] = ask[l]
        /\ \A i \in 2..n + 1 : (<<ask[l]>> \o TilesKept)[i] = TilesKept[i - 1]
    BY <2>2, <1>2
  <2>7. \A i \in 1..n + 1 : index'[lru'[i]] = (<<ask[l]>> \o TilesKept)[i]
    BY <2>3, <2>4, <2>6, <1>2
  <2> HIDE DEF s, n
  <2>8. <<ask[l]>> \o TilesKept = [i \in 1..n + 1 |-> (<<ask[l]>> \o TilesKept)[i]]
    BY <2>6
  <2> QED BY <2>5, <2>7, <2>8
<1>8. Store!Used(ask[l]) = <<ask[l]>> \o TilesKept
  BY <1>6 DEF Store!Used
<1>9. Len(TilesKept) < NbTilesCache
  BY <1>4, KeptTiles
<1> QED BY <1>1, <1>5, <1>7, <1>8, <1>9 DEF Store!Use

LEMMA GetCachedIsUse ==
  ASSUME Inv, NEW l \in Loader, GetCachedLockedTile(l),
         UNCHANGED <<pending, got, timeDisk, timeSeen>>
  PROVE  Store!Use(l)
<1> DEFINE s == slot[l]
           n == Len(lru)
           t == ask[l]
           p == CHOOSE i \in 1..n : lru[i] = s
           at == CHOOSE i \in 1..Len(TilesKept) : TilesKept[i] = t
<1>1. /\ pc[l] = "hit" /\ s = mapCache[t] /\ IsInCache(t)
      /\ lru' = MoveToFront(s) /\ UNCHANGED index
      /\ pc' = [pc EXCEPT ![l] = "check"] /\ UNCHANGED <<ask, got>>
  BY DEF GetCachedLockedTile, Goto, Inv, ChoiceStillRight, IsInCache
<1>2. /\ lru \in Seq(Slot) /\ NoRepeat(lru) /\ n \in Nat
      /\ index \in [Slot -> Tile] /\ t \in Tile
      /\ pc \in [Loader -> {"idle", "get", "hit", "recycle", "take", "send"} \union Holding]
  BY <1>1 DEF Inv, TypeOK, CacheCoherent
<1>3. s \in Slot /\ s \in Elems(lru) /\ index[s] = t
  BY <1>1, <1>2, SlotInHand DEF Inv, CacheCoherent
<1>4. Phases[l] = "asked" /\ Phases' = [Phases EXCEPT ![l] = "using"]
  BY <1>1, <1>2 DEF Phases, Phase, Holding
<1>5. t \in Store!Kept
  BY <1>1, <1>2, KeptTiles
<1>6. /\ TilesKept = [i \in 1..n |-> index[lru[i]]] /\ Len(TilesKept) = n
  BY KeptTiles DEF TilesKept
<1>7. p \in 1..n /\ lru[p] = s
  BY <1>3 DEF Elems
<1>8. at \in 1..n /\ index[lru[at]] = t
  <2>1. \E i \in 1..Len(TilesKept) : TilesKept[i] = t
    BY <1>5 DEF Store!Kept
  <2>2. at \in 1..Len(TilesKept) /\ TilesKept[at] = t
    BY <2>1
  <2> HIDE DEF at
  <2> QED BY <2>2, <1>6
<1> HIDE DEF p, at
<1>9. at = p
  <2>1. lru[at] \in Slot /\ lru[at] \in Elems(lru)
    BY <1>2, <1>8 DEF Elems
  <2>2. lru[at] = s
    BY <2>1, <1>1, <1>2, <1>8 DEF Inv, CacheCoherent
  <2> QED BY <2>2, <1>2, <1>7, <1>8 DEF NoRepeat
<1>10. TilesKept' = Store!Used(t)
  <2>1. /\ lru' = [i \in 1..n |-> IF i = 1 THEN s ELSE IF i <= p THEN lru[i - 1] ELSE lru[i]]
        /\ Len(lru') = n
    BY <1>1, <1>2, <1>3, MoveToFrontKeepsMembers DEF MoveToFront, p
  <2>2. TilesKept' = [i \in 1..n |-> index[lru'[i]]]
    BY <2>1, <1>1 DEF TilesKept
  <2>3. Store!Used(t) = [i \in 1..n |->
                           IF i = 1 THEN t ELSE TilesKept[IF i <= at THEN i - 1 ELSE i]]
    BY <1>5, <1>6 DEF Store!Used, at
  <2>4. ASSUME NEW i \in 1..n
        PROVE  index[lru'[i]] =
                 IF i = 1 THEN t ELSE TilesKept[IF i <= at THEN i - 1 ELSE i]
    <3>1. CASE i = 1
      BY <2>1, <3>1, <1>3
    <3>2. CASE i # 1 /\ i <= p
      <4>1. i - 1 \in 1..n /\ lru'[i] = lru[i - 1]
        BY <2>1, <3>2, <1>2, <1>7
      <4> QED BY <4>1, <3>2, <1>6, <1>9
    <3>3. CASE i # 1 /\ ~(i <= p)
      BY <2>1, <3>3, <1>6, <1>9
    <3> QED BY <3>1, <3>2, <3>3
  <2> QED BY <2>2, <2>3, <2>4
<1> QED BY <1>1, <1>4, <1>5, <1>10 DEF Store!Use

(***************************************************************************)
(* The remaining steps move one loader from one phase to the next, or are  *)
(* invisible to the store.                                                 *)
(***************************************************************************)
LEMMA ReceiveIsAsk ==
  ASSUME TypeOK, NEW l \in Loader, NEW t \in Tile, Receive(l, t)
  PROVE  Store!Ask(l, t)
<1>1. Phases[l] = "idle" /\ Phases' = [Phases EXCEPT ![l] = "asked"]
  BY DEF TypeOK, Receive, Goto, Phases, Phase, Holding
<1>2. UNCHANGED TilesKept
  BY DEF Receive, cacheVars, TilesKept
<1> QED BY <1>1, <1>2 DEF Receive, Store!Ask

LEMMA CopyIsAnswer ==
  ASSUME Inv, NEW l \in Loader, CopyTileToView(l)
  PROVE  Store!Answer(l)
<1>1. Phases[l] = "using" /\ Phases' = [Phases EXCEPT ![l] = "answered"]
  BY DEF Inv, TypeOK, CopyTileToView, Goto, Phases, Phase, Holding
<1>2. content[slot[l]] \in Store!Readings(ask[l])
  BY DEF Inv, HeldTileIsTheAsked, Holding, CopyTileToView, Readings, Store!Readings
<1>3. UNCHANGED TilesKept
  BY DEF CopyTileToView, cacheVars, TilesKept
<1> QED BY <1>1, <1>2, <1>3 DEF CopyTileToView, Store!Answer

LEMMA AddResultIsDeliver ==
  ASSUME TypeOK, NEW l \in Loader, AddResult(l)
  PROVE  Store!Deliver(l)
<1>1. Phases[l] = "answered" /\ Phases' = [Phases EXCEPT ![l] = "idle"]
  BY DEF TypeOK, AddResult, Goto, Phases, Phase, Holding
<1>2. UNCHANGED TilesKept
  BY DEF AddResult, cacheVars, TilesKept
<1> QED BY <1>1, <1>2 DEF AddResult, Store!Deliver

LEMMA HiddenSteps ==
  ASSUME TypeOK, NEW l \in Loader,
         \/ (LockOnHit(l) \/ LockOnMiss(l)) /\ UNCHANGED got
         \/ CheckNewTile(l)
         \/ LoadTileFromFile(l)
         \/ AddTimeDisk(l)
         \/ UNCHANGED vars
  PROVE  UNCHANGED Store!storeVars
<1>1. UNCHANGED <<ask, got, lru, index>>
  BY DEF LockOnHit, LockOnMiss, CheckNewTile, LoadTileFromFile, AddTimeDisk,
         vars, loaderVars, cacheVars
<1>2. UNCHANGED Phases
  <2>1. CASE UNCHANGED vars
    BY <2>1 DEF vars, loaderVars, Phases
  <2>2. CASE (LockOnHit(l) \/ LockOnMiss(l)) /\ UNCHANGED got
    BY <2>2 DEF TypeOK, LockOnHit, LockOnMiss, Goto, Phases, Phase, Holding
  <2>3. CASE CheckNewTile(l)
    BY <2>3 DEF TypeOK, CheckNewTile, Goto, Phases, Phase, Holding
  <2>4. CASE LoadTileFromFile(l)
    BY <2>4 DEF TypeOK, LoadTileFromFile, Goto, Phases, Phase, Holding
  <2>5. CASE AddTimeDisk(l)
    BY <2>5 DEF TypeOK, AddTimeDisk, Goto, Phases, Phase, Holding
  <2> QED BY <2>1, <2>2, <2>3, <2>4, <2>5
<1>3. UNCHANGED TilesKept
  BY <1>1 DEF TilesKept
<1> QED BY <1>1, <1>2, <1>3 DEF Store!storeVars

LEMMA StoreStarts ==
  ASSUME Init
  PROVE  Store!StoreInit
<1>1. Phases = [l \in Loader |-> "idle"]
  BY DEF Init, Phases, Phase, Holding
<1>2. TilesKept = <<>>
  BY DEF Init, CacheInit, TilesKept
<1> QED BY <1>1, <1>2 DEF Init, Store!StoreInit

LEMMA StepsImplementStore ==
  ASSUME Inv, [Next]_vars
  PROVE  [Store!StoreNext]_(Store!storeVars)
<1>0. TypeOK
  BY DEF Inv
<1>1. ASSUME NEW l \in Loader, ExecuteTask(l)
      PROVE  Store!StoreNext \/ UNCHANGED Store!storeVars
  <2>1. CASE \E t \in Tile : Receive(l, t)
    BY <1>0, <2>1, ReceiveIsAsk DEF Store!StoreNext
  <2>2. CASE GetTile(l)
    <3>1. CASE LockOnHit(l) \/ LockOnMiss(l)
      BY <1>0, <2>2, <3>1, HiddenSteps DEF GetTile
    <3>2. CASE RecycleTile(l)
      BY <2>2, <3>2, RecycleIsEvict DEF GetTile, Store!StoreNext
    <3>3. CASE GetNewLockedTile(l)
      BY <2>2, <3>3, GetNewIsUse DEF GetTile, Store!StoreNext
    <3>4. CASE GetCachedLockedTile(l)
      BY <2>2, <3>4, GetCachedIsUse DEF GetTile, Store!StoreNext
    <3> QED BY <2>2, <3>1, <3>2, <3>3, <3>4 DEF GetTile, GetLockedTile
  <2>3. CASE CheckNewTile(l) \/ LoadTileFromFile(l) \/ AddTimeDisk(l)
    BY <1>0, <2>3, HiddenSteps
  <2>4. CASE CopyTileToView(l)
    BY <2>4, CopyIsAnswer DEF Store!StoreNext
  <2>5. CASE AddResult(l)
    BY <1>0, <2>5, AddResultIsDeliver DEF Store!StoreNext
  <2> QED BY <1>1, <2>1, <2>2, <2>3, <2>4, <2>5 DEF ExecuteTask
<1>2. CASE UNCHANGED vars
  <2>1. UNCHANGED <<Phases, ask, got, TilesKept>>
    BY <1>2 DEF vars, loaderVars, cacheVars, Phases, TilesKept
  <2> QED BY <2>1 DEF Store!storeVars
<1> QED BY <1>1, <1>2 DEF Next, Done

(***************************************************************************)
(* The loaders and FigCache, with their two levels of mutexes, their pool  *)
(* and their recycled buffers, implement the store of TileStore.           *)
(***************************************************************************)
THEOREM Implementation == Spec => ImplementsTileStore
<1>1. Init => Store!StoreInit
  BY StoreStarts
<1>2. Inv /\ [Next]_vars => [Store!StoreNext]_(Store!storeVars)
  BY StepsImplementStore
<1> QED BY <1>1, <1>2, Invariance, PTL DEF Spec, ImplementsTileStore, Store!StoreSpec
=============================================================================
