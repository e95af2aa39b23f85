---------------------------- MODULE ViewCounter -----------------------------
(***************************************************************************)
(* The view counter task (tasks/ViewCounter.h), the last of the graph: it   *)
(* counts the tiles of each view that have been loaded, finishes the view   *)
(* when they all have, and sends it out, in the order of the requests when  *)
(* the option asks for it.                                                  *)
(*                                                                         *)
(* Each pyramid level has its own counter thread.  The requests register    *)
(* their traversals with the counter of level 0 only: the other levels have *)
(* a copy() of it, and copy() does not keep the option.                     *)
(***************************************************************************)
EXTENDS ViewMemory

CONSTANT
  PreserveOrder         (* The option: send the views as requested.        *)

ASSUME PreserveOrderAssumption == PreserveOrder \in BOOLEAN

VARIABLES
  loaded,           (* Tile requests of each view the loaders are done with. *)
  countMap,         (* _countMap; 0 for a view that is not in the map.       *)
  storing,          (* Levels whose counter is in handleStoredViews.         *)
  waitingList,      (* _waitingList.                                         *)
  queueTraversals,  (* _queueTraversals.                                     *)
  currentTraversal, (* _currentTraversal.                                    *)
  output            (* The graph's output: views finished, first one first.  *)

orderVars == <<storing, waitingList, queueTraversals, currentTraversal>>
counterVars == <<loaded, countMap, orderVars, output>>

CounterInit ==
  /\ loaded = [v \in View |-> 0]
  /\ countMap = [v \in View |-> 0]
  /\ storing = {}
  /\ waitingList = {}
  /\ queueTraversals = <<>>
  /\ currentTraversal = <<>>
  /\ output = <<>>

Ordered(p) == PreserveOrder /\ p = 0

AddTraversal(trav) == queueTraversals' = Append(queueTraversals, trav)

(* updateCurrentTraversal: the traversal that is current once it is done,   *)
(* and those still queued.                                                  *)
MovesOn == currentTraversal = <<>> /\ queueTraversals # <<>>
Current == IF MovesOn THEN Head(queueTraversals) ELSE currentTraversal
Queued  == IF MovesOn THEN Tail(queueTraversals) ELSE queueTraversals

(* front() of the current traversal.  It is also read when there is none    *)
(* (handleStoredViews does so behind the last view): any tile, or none.     *)
NoTile == <<>>
FrontTiles == IF Current = <<>> THEN AnyTile \union {NoTile} ELSE {Head(Current)}

(* pop(): an empty traversal, of which nothing can be popped, stays empty.  *)
Popped == IF Current = <<>> THEN <<>> ELSE Tail(Current)

(* A slip the properties must notice: any view asked for is the next.       *)
AnyViewIsNext(v, front) == \E i \in 1..Len(Current) : Current[i] = tile[v]

(* The level of the view does not count.                                    *)
ViewIsNext(v, front) == tile[v] = front

AddResult(v) == output' = Append(output, v)

-----------------------------------------------------------------------------
(* dataReady: view v is finished.                                           *)

SendUnordered(v) ==
  /\ ~Ordered(LevelOf(v))
  /\ AddResult(v)
  /\ UNCHANGED orderVars

(* A slip the properties must notice: the stored views are not looked at.   *)
SendOnlyNext(v) ==
  /\ Ordered(LevelOf(v))
  /\ \E front \in FrontTiles : ViewIsNext(v, front)
  /\ AddResult(v)
  /\ currentTraversal' = Popped
  /\ queueTraversals' = Queued
  /\ UNCHANGED <<storing, waitingList>>

SendNext(v) ==
  /\ Ordered(LevelOf(v))
  /\ \E front \in FrontTiles : ViewIsNext(v, front)
  /\ AddResult(v)
  /\ currentTraversal' = Popped
  /\ queueTraversals' = Queued
  /\ storing' = storing \union {LevelOf(v)}
  /\ UNCHANGED waitingList

Store(v) ==
  /\ Ordered(LevelOf(v))
  /\ \E front \in FrontTiles : ~ViewIsNext(v, front)
  /\ waitingList' = waitingList \union {v}
  /\ currentTraversal' = Current
  /\ queueTraversals' = Queued
  /\ UNCHANGED <<storing, output>>

DataReady(v) == SendUnordered(v) \/ SendNext(v) \/ Store(v)

(* One turn of handleStoredViews: a stored view that is next is sent, and   *)
(* the loop ends when there is none.                                        *)
HandleStoredView(p, v) ==
  /\ p \in storing
  /\ v \in waitingList
  /\ \E front \in FrontTiles : ViewIsNext(v, front)
  /\ AddResult(v)
  /\ waitingList' = waitingList \ {v}
  /\ currentTraversal' = Popped
  /\ queueTraversals' = Queued
  /\ UNCHANGED <<loaded, countMap, storing>>

NoStoredViewIsNext(p) ==
  /\ p \in storing
  /\ \E front \in FrontTiles : \A v \in waitingList : ~ViewIsNext(v, front)
  /\ storing' = storing \ {p}
  /\ currentTraversal' = Current
  /\ queueTraversals' = Queued
  /\ UNCHANGED <<loaded, countMap, waitingList, output>>

(* A slip the properties must notice: a finished view stays in the map.     *)
CountTileNoErase(v) ==
  LET n == NumberTilesToLoad(LevelOf(v), tile[v])
  IN  /\ loaded[v] > 0
      /\ LevelOf(v) \notin storing
      /\ loaded' = [loaded EXCEPT ![v] = @ - 1]
      /\ countMap' = [countMap EXCEPT ![v] = @ + 1]
      /\ IF countMap[v] + 1 = n THEN DataReady(v) ELSE UNCHANGED <<orderVars, output>>

(* executeTask for a tile request of view v.                                *)
CountTile(v) ==
  LET n == NumberTilesToLoad(LevelOf(v), tile[v])
      single == n = 1 \/ ReachHeight[LevelOf(v)] = 0
      known == countMap[v] > 0
      last == known /\ countMap[v] + 1 = n
  IN  /\ loaded[v] > 0
      /\ LevelOf(v) \notin storing
      /\ loaded' = [loaded EXCEPT ![v] = @ - 1]
      /\ \/ single /\ DataReady(v) /\ UNCHANGED countMap
         \/ /\ ~single /\ last
            /\ countMap' = [countMap EXCEPT ![v] = 0]
            /\ DataReady(v)
         \/ /\ ~single /\ known /\ ~last
            /\ countMap' = [countMap EXCEPT ![v] = @ + 1]
            /\ UNCHANGED <<orderVars, output>>
         \/ /\ ~single /\ ~known
            /\ countMap' = [countMap EXCEPT ![v] = 1]
            /\ UNCHANGED <<orderVars, output>>

ViewCounterStep(p) ==
  \/ \E v \in View : LevelOf(v) = p /\ CountTile(v)
  \/ \E v \in View : HandleStoredView(p, v)
  \/ NoStoredViewIsNext(p)
=============================================================================
