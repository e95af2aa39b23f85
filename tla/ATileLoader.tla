----------------------------- MODULE ATileLoader ----------------------------
(***************************************************************************)
(* The tile loader task (api/ATileLoader.h): a group of threads that share *)
(* one FigCache.  Each takes a tile request from the task's input queue,   *)
(* gets the tile's buffer locked from the cache, reads the file into it    *)
(* when it is new, copies it into the view and passes the request on.      *)
(*                                                                         *)
(* A view is abstracted to the data copied into it for one request.        *)
(***************************************************************************)
EXTENDS FigCache

CONSTANT
  NbRequests      (* Bound: the tile requests the view loader sends.       *)

ASSUME RequestsAssumption == NbRequests \in Nat

VARIABLES
  pending,        (* The tile requests not taken yet.                      *)
  got,            (* What each loader has copied into the view.            *)
  timeDisk,       (* _timeDisk, counting each file read as 1.              *)
  timeSeen        (* The value of _timeDisk a loader is about to add to.   *)

loaderVars == <<pc, ask, slot, got, pending>>
vars == <<loaderVars, cacheMutex, tileMutex, cacheVars, hit, miss, timeDisk, timeSeen>>

(* The data a read of tile t from the file may leave in the buffer: its    *)
(* pixels or, when the decoder fails, whatever its own buffer held, because *)
(* loadTileFromFile does not look at the decoder's result.                 *)
Readings(t) == IF t \in Unreadable THEN {t, Garbage} ELSE {t}

Init ==
  /\ CacheInit
  /\ pc = [l \in Loader |-> "idle"]
  /\ ask = [l \in Loader |-> Origin]
  /\ slot = [l \in Loader |-> NoSlot]
  /\ got = [l \in Loader |-> Garbage]
  /\ pending = NbRequests
  /\ timeDisk = 0
  /\ timeSeen = [l \in Loader |-> 0]

-----------------------------------------------------------------------------
(* A slip the properties must notice: a buffer that is never unlocked.     *)
CopyWithoutUnlock(l) ==
  /\ pc[l] = "copy"
  /\ got' = [got EXCEPT ![l] = content[slot[l]]]
  /\ slot' = [slot EXCEPT ![l] = NoSlot]
  /\ Goto(l, "send")
  /\ UNCHANGED <<ask, pending, cacheMutex, tileMutex, cacheVars, hit, miss,
                 timeDisk, timeSeen>>

-----------------------------------------------------------------------------
(* executeTask.  Any tile of the image may be the next one requested.      *)

Receive(l, t) ==
  /\ pc[l] = "idle"
  /\ pending > 0
  /\ pending' = pending - 1
  /\ ask' = [ask EXCEPT ![l] = t]
  /\ Goto(l, "get")
  /\ UNCHANGED <<slot, got, cacheMutex, tileMutex, cacheVars, hit, miss,
                 timeDisk, timeSeen>>

GetTile(l) ==
  /\ GetLockedTile(l)
  /\ UNCHANGED <<pending, got, timeDisk, timeSeen>>

(* A new tile is marked as read before it is read.                         *)
CheckNewTile(l) ==
  /\ pc[l] = "check"
  /\ newTile' = [newTile EXCEPT ![slot[l]] = FALSE]
  /\ Goto(l, IF newTile[slot[l]] THEN "load" ELSE "copy")
  /\ UNCHANGED <<ask, slot, got, pending, cacheMutex, tileMutex, pool, lru,
                 mapCache, index, content, hit, miss, timeDisk, timeSeen>>

(* loadTileFromFile, then the first half of _timeDisk += time, which no    *)
(* mutex covers: the value to add to is read.                              *)
LoadTileFromFile(l) ==
  /\ pc[l] = "load"
  /\ content' \in {[content EXCEPT ![slot[l]] = d] : d \in Readings(ask[l])}
  /\ timeSeen' = [timeSeen EXCEPT ![l] = timeDisk]
  /\ Goto(l, "time")
  /\ UNCHANGED <<ask, slot, got, pending, cacheMutex, tileMutex, pool, lru,
                 mapCache, index, newTile, hit, miss, timeDisk>>

AddTimeDisk(l) ==
  /\ pc[l] = "time"
  /\ timeDisk' = timeSeen[l] + 1
  /\ timeSeen' = [timeSeen EXCEPT ![l] = 0]
  /\ Goto(l, "copy")
  /\ UNCHANGED <<ask, slot, got, pending, cacheMutex, tileMutex, cacheVars,
                 hit, miss>>

(* copyTileToView, then unlock() of the buffer.                            *)
CopyTileToView(l) ==
  /\ pc[l] = "copy"
  /\ got' = [got EXCEPT ![l] = content[slot[l]]]
  /\ tileMutex' = [tileMutex EXCEPT ![slot[l]] = NoLoader]
  /\ slot' = [slot EXCEPT ![l] = NoSlot]
  /\ Goto(l, "send")
  /\ UNCHANGED <<ask, pending, cacheMutex, cacheVars, hit, miss, timeDisk,
                 timeSeen>>

(* addResult: the request goes to the view counter.                        *)
AddResult(l) ==
  /\ pc[l] = "send"
  /\ got' = [got EXCEPT ![l] = Garbage]
  /\ ask' = [ask EXCEPT ![l] = Origin]
  /\ Goto(l, "idle")
  /\ UNCHANGED <<slot, pending, cacheMutex, tileMutex, cacheVars, hit, miss,
                 timeDisk, timeSeen>>

(* One step of thread l, and the end: every request passed on.             *)
ExecuteTask(l) ==
  \/ \E t \in Tile : Receive(l, t)
  \/ GetTile(l)
  \/ CheckNewTile(l)
  \/ LoadTileFromFile(l)
  \/ AddTimeDisk(l)
  \/ CopyTileToView(l)
  \/ AddResult(l)

AllDone == pending = 0 /\ \A l \in Loader : pc[l] = "idle"

Done == AllDone /\ UNCHANGED vars

Next == (\E l \in Loader : ExecuteTask(l)) \/ Done

(* Every thread runs: the scheduler never forgets one that can take a step. *)
Spec == Init /\ [][Next]_vars /\ \A l \in Loader : WF_vars(ExecuteTask(l))

-----------------------------------------------------------------------------
Holding == {"check", "load", "time", "copy"}

(* The type of every variable.                                             *)
TypeOK ==
  /\ pc \in [Loader -> {"idle", "get", "hit", "recycle", "take", "send"} \union Holding]
  /\ ask \in [Loader -> Tile]
  /\ slot \in [Loader -> Slot \union {NoSlot}]
  /\ got \in [Loader -> Tile \union {Garbage}]
  /\ pending \in Nat
  /\ cacheMutex \in Loader \union {NoLoader}
  /\ tileMutex \in [Slot -> Loader \union {NoLoader}]
  /\ pool \in Seq(Slot)
  /\ lru \in Seq(Slot)
  /\ mapCache \in [Tile -> Slot \union {NoSlot}]
  /\ index \in [Slot -> Tile]
  /\ newTile \in [Slot -> BOOLEAN]
  /\ content \in [Slot -> Tile \union {Garbage}]
  /\ hit \in Nat /\ miss \in Nat
  /\ timeDisk \in Nat /\ timeSeen \in [Loader -> Nat]

(* Every buffer is in exactly one place, once: the pool or the LRU list.   *)
(* _mapCache and the buffers' own indices say the same of those in use: no *)
(* tile of the image is held twice and none that is held is lost.          *)
CacheCoherent ==
  /\ NoRepeat(lru) /\ NoRepeat(pool)
  /\ Elems(lru) \intersect Elems(pool) = {}
  /\ Elems(lru) \union Elems(pool) = Slot
  /\ Len(lru) + Len(pool) = NbTilesCache
  /\ \A t \in Tile, s \in Slot :
       mapCache[t] = s <=> s \in Elems(lru) /\ index[s] = t

(* A buffer that nobody holds and that the cache would hand out for a tile *)
(* has been read from the file, and from that tile's part of it: the       *)
(* _newTile flag set before the read never lets a second loader see a      *)
(* buffer that is not filled yet or still filled with its previous tile.   *)
CachedTilesAreLoaded ==
  \A s \in Elems(lru) : tileMutex[s] = NoLoader =>
    /\ ~newTile[s]
    /\ content[s] \in Readings(index[s])

(* What a loader has copied is the tile it was asked for, whatever the     *)
(* other loaders did with the cache in the meantime.                       *)
CopiesAskedTile ==
  \A l \in Loader : pc[l] = "send" => got[l] \in Readings(ask[l])

(* What each mutex protects, as an inductive invariant.  The cache mutex   *)
(* covers a loader's decision about which buffer to wait for: it is still  *)
(* right when the buffer's own mutex is obtained.  The buffer's mutex      *)
(* covers its index and its content until the loader has copied it.        *)
MutexesAgree ==
  /\ \A l \in Loader : cacheMutex = l <=> pc[l] \in {"hit", "recycle", "take"}
  /\ \A l \in Loader, s \in Slot :
       tileMutex[s] = l <=> pc[l] \in Holding /\ slot[l] = s

ChoiceStillRight ==
  \A l \in Loader :
    /\ pc[l] = "hit" => slot[l] # NoSlot /\ slot[l] = mapCache[ask[l]]
    /\ pc[l] = "recycle" =>
         pool = <<>> /\ lru # <<>> /\ slot[l] = lru[Len(lru)] /\ ~IsInCache(ask[l])
    /\ pc[l] = "take" =>
         pool # <<>> /\ slot[l] = Head(pool) /\ ~IsInCache(ask[l])

HeldTileIsTheAsked ==
  \A l \in Loader : pc[l] \in Holding =>
    /\ slot[l] \in Elems(lru)
    /\ index[slot[l]] = ask[l]
    /\ pc[l] # "check" => ~newTile[slot[l]]
    /\ ~newTile[slot[l]] /\ pc[l] # "load" => content[slot[l]] \in Readings(ask[l])

PoolIsNew == \A s \in Elems(pool) : newTile[s]

Inv ==
  /\ TypeOK
  /\ CacheCoherent
  /\ MutexesAgree
  /\ ChoiceStillRight
  /\ HeldTileIsTheAsked
  /\ PoolIsNew
  /\ CachedTilesAreLoaded
  /\ CopiesAskedTile

(* Between getLockedTile and unlock a buffer belongs to its loader: no     *)
(* other thread recycles it, refills it or gets it too.                    *)
HeldTilesUntouched ==
  \A l \in Loader :
    pc[l] \in Holding /\ pc'[l] \in Holding =>
      /\ index'[slot[l]] = index[slot[l]]
      /\ pc[l] # "load" => content'[slot[l]] = content[slot[l]]
      /\ tileMutex'[slot[l]] = l

HeldTileIsStable == [][HeldTilesUntouched]_vars

(* The loaders and their cache implement the tile store.  The tiles kept   *)
(* are those of the LRU list, in its order.                                *)
Phase(at) ==
  IF at \in {"get", "hit", "recycle", "take"} THEN "asked"
  ELSE IF at \in Holding THEN "using"
  ELSE IF at = "send" THEN "answered" ELSE "idle"

Phases == [l \in Loader |-> Phase(pc[l])]
TilesKept == [i \in 1..Len(lru) |-> index[lru[i]]]

Store == INSTANCE TileStore WITH
  Capacity <- NbTilesCache,
  phase    <- Phases,
  want     <- ask,
  answer   <- got,
  recent   <- TilesKept

ImplementsTileStore == Store!StoreSpec

(* No deadlock between the cache mutex and the buffers' mutexes, and no    *)
(* loader left waiting: every request is passed on.                        *)
EveryRequestIsServed == <>AllDone

(* "Add a duration to the disk time usage" (object/FigCache.h, addTimeDisk):*)
(* when the loaders are done every read of the file has been counted, one  *)
(* for each miss.                                                          *)
TimeDiskCountsEveryRead == AllDone => timeDisk = miss
=============================================================================
