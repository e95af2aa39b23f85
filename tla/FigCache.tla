------------------------------ MODULE FigCache ------------------------------
(***************************************************************************)
(* The tile cache (object/FigCache.h, data/CachedTile.h): a fixed set of   *)
(* tile buffers shared by the tile loader threads, under one cache mutex   *)
(* and one mutex per buffer, with LRU replacement.                         *)
(*                                                                         *)
(* getLockedTile runs in the calling loader, one action per section        *)
(* between two blocking points: the caller first takes the cache mutex,    *)
(* and keeps it while it waits for the mutex of the buffer it needs.       *)
(*                                                                         *)
(* A pixel buffer is abstracted to the tile whose pixels it holds.  _mapLRU *)
(* is not a variable: it is the position of a buffer in the list _lru.     *)
(*                                                                         *)
(* getLockedTile throws for an index outside the image.  Its only callers  *)
(* are the tile loaders, whose requests are made of the tiles of the image *)
(* (ViewRequestData cuts them at its borders), so no step stands for that. *)
(***************************************************************************)
EXTENDS Lists

CONSTANTS
  Loader,         (* The threads of the tile loader task.                  *)
  NoLoader,       (* The owner of a free mutex.                            *)
  NumTilesHeight, (* Tiles in a column and ...                             *)
  NumTilesWidth,  (* ... in a row of the image.                            *)
  NbTilesAsked,   (* The constructor's argument: tiles to cache, or 0.     *)
  Unreadable,     (* The tiles whose part of the file may fail to decode.  *)
  Garbage         (* What a buffer holds when no tile was decoded into it. *)

Tile == (0..NumTilesHeight - 1) \X (0..NumTilesWidth - 1)

ASSUME SizesAssumption ==
  /\ NumTilesHeight \in Nat \ {0}
  /\ NumTilesWidth \in Nat \ {0}
  /\ NbTilesAsked \in Nat

ASSUME NamesAssumption ==
  /\ NoLoader \notin Loader
  /\ Garbage \notin Tile
  /\ Unreadable \subseteq Tile

Origin == <<0, 0>>

(* initCache: by default two rows of tiles, and never more than the image. *)
NbTilesCache ==
  LET asked == IF NbTilesAsked = 0 THEN 2 * NumTilesWidth ELSE NbTilesAsked
      inImage == NumTilesHeight * NumTilesWidth
  IN  IF inImage < asked THEN inImage ELSE asked

(* The CachedTile objects initCache allocates, and the null pointer.       *)
Slot == 1..NbTilesCache
NoSlot == 0

VARIABLES
  pc,             (* Where each loader is.                                 *)
  ask,            (* The tile each loader is asked for.                    *)
  slot,           (* The buffer each loader has in hand, or NoSlot.        *)
  cacheMutex,     (* _cacheMutex: its owner.                               *)
  tileMutex,      (* _accessMutex of each buffer: its owner.               *)
  pool,           (* _pool: buffers never used, first in first out.        *)
  lru,            (* _lru: buffers in use, most recently used first.       *)
  mapCache,       (* _mapCache: the buffer that holds a tile, or NoSlot.   *)
  index,          (* _indexRow, _indexCol of each buffer.                  *)
  newTile,        (* _newTile of each buffer.                              *)
  content,        (* _data of each buffer.                                 *)
  hit, miss       (* _hit, _miss.                                          *)

cacheVars == <<pool, lru, mapCache, index, newTile, content>>

CacheInit ==
  /\ cacheMutex = NoLoader
  /\ tileMutex = [s \in Slot |-> NoLoader]
  /\ pool = [i \in 1..NbTilesCache |-> i]
  /\ lru = <<>>
  /\ mapCache = [t \in Tile |-> NoSlot]
  /\ index = [s \in Slot |-> Origin]
  /\ newTile = [s \in Slot |-> TRUE]
  /\ content = [s \in Slot |-> Garbage]
  /\ hit = 0
  /\ miss = 0

Goto(l, where) == pc' = [pc EXCEPT ![l] = where]

IsInCache(t) == mapCache[t] # NoSlot

-----------------------------------------------------------------------------
(* Slips the properties must notice: recycleTile without waiting for the   *)
(* buffer's user, or without marking the buffer new; a hit that lets       *)
(* the cache go before it has the buffer, or gets the buffer while another *)
(* loader has it, or that leaves the list as it is.                        *)
RecycleTileInUse(l) ==
  /\ pc[l] = "recycle"
  /\ lru' = SubSeq(lru, 1, Len(lru) - 1)
  /\ mapCache' = [mapCache EXCEPT ![index[slot[l]]] = NoSlot]
  /\ index' = [index EXCEPT ![slot[l]] = Origin]
  /\ newTile' = [newTile EXCEPT ![slot[l]] = TRUE]
  /\ pool' = Append(pool, slot[l])
  /\ Goto(l, "take")
  /\ UNCHANGED <<ask, slot, cacheMutex, tileMutex, content, hit, miss>>

RecycleTileNotNew(l) ==
  /\ pc[l] = "recycle"
  /\ tileMutex[slot[l]] = NoLoader
  /\ lru' = SubSeq(lru, 1, Len(lru) - 1)
  /\ mapCache' = [mapCache EXCEPT ![index[slot[l]]] = NoSlot]
  /\ index' = [index EXCEPT ![slot[l]] = Origin]
  /\ pool' = Append(pool, slot[l])
  /\ Goto(l, "take")
  /\ UNCHANGED <<ask, slot, cacheMutex, tileMutex, newTile, content, hit, miss>>

LockOnHitAndUnlock(l) ==
  /\ pc[l] = "get"
  /\ cacheMutex = NoLoader
  /\ IsInCache(ask[l])
  /\ hit' = hit + 1
  /\ slot' = [slot EXCEPT ![l] = mapCache[ask[l]]]
  /\ Goto(l, "hit")
  /\ UNCHANGED <<ask, cacheMutex, tileMutex, miss, cacheVars>>

FirstInFirstOut(s) == lru

GetCachedTileAtOnce(l) ==
  /\ pc[l] = "hit"
  /\ tileMutex' = [tileMutex EXCEPT ![slot[l]] = l]
  /\ lru' = lru
  /\ cacheMutex' = NoLoader
  /\ Goto(l, "check")
  /\ UNCHANGED <<ask, slot, pool, mapCache, index, newTile, content, hit, miss>>

-----------------------------------------------------------------------------
(* The steps of getLockedTile by loader l.                                 *)

(* lock(), then a tile that is in the cache: its buffer is to be locked.   *)
LockOnHit(l) ==
  /\ pc[l] = "get"
  /\ cacheMutex = NoLoader
  /\ IsInCache(ask[l])
  /\ cacheMutex' = l
  /\ hit' = hit + 1
  /\ slot' = [slot EXCEPT ![l] = mapCache[ask[l]]]
  /\ Goto(l, "hit")
  /\ UNCHANGED <<ask, tileMutex, miss, cacheVars>>

(* lock(), then a tile that is not: the buffer to lock is the first of the *)
(* pool or, when the pool is empty, the least recently used one.           *)
LockOnMiss(l) ==
  /\ pc[l] = "get"
  /\ cacheMutex = NoLoader
  /\ ~IsInCache(ask[l])
  /\ cacheMutex' = l
  /\ miss' = miss + 1
  /\ IF pool = <<>>
       THEN /\ slot' = [slot EXCEPT ![l] = lru[Len(lru)]]
            /\ Goto(l, "recycle")
       ELSE /\ slot' = [slot EXCEPT ![l] = Head(pool)]
            /\ Goto(l, "take")
  /\ UNCHANGED <<ask, tileMutex, hit, cacheVars>>

(* recycleTile, once the buffer's last user has unlocked it: the buffer    *)
(* loses its tile and its place in the list, and is back in the pool.      *)
RecycleTile(l) ==
  /\ pc[l] = "recycle"
  /\ tileMutex[slot[l]] = NoLoader
  /\ lru' = SubSeq(lru, 1, Len(lru) - 1)
  /\ mapCache' = [mapCache EXCEPT ![index[slot[l]]] = NoSlot]
  /\ index' = [index EXCEPT ![slot[l]] = Origin]
  /\ newTile' = [newTile EXCEPT ![slot[l]] = TRUE]
  /\ pool' = Append(pool, slot[l])
  /\ Goto(l, "take")
  /\ UNCHANGED <<ask, slot, cacheMutex, tileMutex, content, hit, miss>>

(* getNewLockedTile and unlock().                                          *)
GetNewLockedTile(l) ==
  /\ pc[l] = "take"
  /\ tileMutex[slot[l]] = NoLoader
  /\ tileMutex' = [tileMutex EXCEPT ![slot[l]] = l]
  /\ pool' = Tail(pool)
  /\ index' = [index EXCEPT ![slot[l]] = ask[l]]
  /\ mapCache' = [mapCache EXCEPT ![ask[l]] = slot[l]]
  /\ lru' = <<slot[l]>> \o lru
  /\ cacheMutex' = NoLoader
  /\ Goto(l, "check")
  /\ UNCHANGED <<ask, slot, newTile, content, hit, miss>>

(* _lru.erase(_mapLRU[tile]) and _lru.push_front(tile).                    *)
MoveToFront(s) ==
  LET position == CHOOSE i \in 1..Len(lru) : lru[i] = s
  IN  [i \in 1..Len(lru) |->
         IF i = 1 THEN s ELSE IF i <= position THEN lru[i - 1] ELSE lru[i]]

(* getCachedLockedTile and unlock().                                       *)
GetCachedLockedTile(l) ==
  /\ pc[l] = "hit"
  /\ tileMutex[slot[l]] = NoLoader
  /\ tileMutex' = [tileMutex EXCEPT ![slot[l]] = l]
  /\ lru' = MoveToFront(slot[l])
  /\ cacheMutex' = NoLoader
  /\ Goto(l, "check")
  /\ UNCHANGED <<ask, slot, pool, mapCache, index, newTile, content, hit, miss>>

GetLockedTile(l) ==
  \/ LockOnHit(l)
  \/ LockOnMiss(l)
  \/ RecycleTile(l)
  \/ GetNewLockedTile(l)
  \/ GetCachedLockedTile(l)
=============================================================================
