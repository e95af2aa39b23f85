----------------------------- MODULE ViewMemory -----------------------------
(***************************************************************************)
(* The views of every pyramid level and the memory they live in            *)
(* (memory/VariableMemoryManager.h, rules/ReleaseCountRule.h, the counts of *)
(* data/ViewRequestData.h).  A level has a fixed number of views.  A view   *)
(* that is taken out of its level's pool gets a rule that counts how many   *)
(* times it must be released before it goes back.                           *)
(*                                                                         *)
(* The pool itself belongs to the task graph library: it hands out the view *)
(* that has been free the longest.                                          *)
(***************************************************************************)
EXTENDS Lists

CONSTANTS
  NbPyramidLevels,      (* Pyramid levels of the image.                    *)
  NumberTilesHeight,    (* Tiles in a column and ...                       *)
  NumberTilesWidth,     (* ... in a row, of each level.                    *)
  ReachHeight,          (* Tiles that the radius extends over, rounded up, *)
  ReachWidth,           (* in a column and in a row of each level.         *)
  NumberOfViewParallel, (* The option: views that may exist at once.       *)
  NbReleasePyramid      (* The option: releases a view needs, per level.   *)

Level == 0..NbPyramidLevels - 1

ASSUME ViewSizesAssumption ==
  /\ NbPyramidLevels \in Nat \ {0}
  /\ NumberTilesHeight \in [Level -> Nat \ {0}]
  /\ NumberTilesWidth \in [Level -> Nat \ {0}]
  /\ ReachHeight \in [Level -> Nat]
  /\ ReachWidth \in [Level -> Nat]
  /\ \A p \in Level : ReachHeight[p] = 0 <=> ReachWidth[p] = 0
  /\ NumberOfViewParallel \in Nat \ {0}
  /\ NbReleasePyramid \in [Level -> Nat]

Tile(p) == (0..NumberTilesHeight[p] - 1) \X (0..NumberTilesWidth[p] - 1)
AnyTile == UNION {Tile(p) : p \in Level}
Origin == <<0, 0>>

(* The tiles of a row (or column) of n that a view around tile i overlaps.  *)
Overlap(i, reach, n) ==
  LET first == IF i > reach THEN i - reach ELSE 0
      last  == IF i + reach + 1 < n THEN i + reach + 1 ELSE n
  IN  last - first

NumberTilesToLoad(p, t) ==
  Overlap(t[1], ReachHeight[p], NumberTilesHeight[p])
    * Overlap(t[2], ReachWidth[p], NumberTilesWidth[p])

(* No more views than tiles are allocated for a level.                      *)
MemoryPoolSize(p) ==
  LET tiles == NumberTilesWidth[p] * NumberTilesHeight[p]
  IN  IF tiles < NumberOfViewParallel THEN tiles ELSE NumberOfViewParallel

View == UNION {{p} \X (1..MemoryPoolSize(p)) : p \in Level}
LevelOf(v) == v[1]

VARIABLES
  pool,           (* The free views of each level, longest free first.     *)
  releaseCount,   (* _releaseCount of the rule of each view.               *)
  tile            (* The tile each view is centred on.                     *)

memoryVars == <<pool, releaseCount, tile>>

MemoryInit ==
  /\ pool = [p \in Level |-> [i \in 1..MemoryPoolSize(p) |-> <<p, i>>]]
  /\ releaseCount = [v \in View |-> 0]
  /\ tile = [v \in View |-> Origin]

(* Slips the properties must notice: a rule that counts the taking of the   *)
(* view; a view that goes back at its first release, or never.              *)
GetMemoryIsAUse(v, n, t) ==
  LET p == LevelOf(v)
  IN  /\ pool[p] # <<>>
      /\ v = Head(pool[p])
      /\ pool' = [pool EXCEPT ![p] = Tail(@)]
      /\ releaseCount' = [releaseCount EXCEPT ![v] = n - 1]
      /\ tile' = [tile EXCEPT ![v] = t]

ReleaseAtOnce(v) ==
  /\ releaseCount' = [releaseCount EXCEPT ![v] = @ - 1]
  /\ pool' = IF v \in Elems(pool[LevelOf(v)]) THEN pool
             ELSE [pool EXCEPT ![LevelOf(v)] = Append(@, v)]
  /\ UNCHANGED tile

ReleaseNever(v) ==
  /\ releaseCount' = [releaseCount EXCEPT ![v] = @ - 1]
  /\ UNCHANGED <<pool, tile>>

(* getMemory("viewMem", new ReleaseCountRule(n)) and View::init: blocks     *)
(* until the level has a free view.                                         *)
GetMemory(v, n, t) ==
  LET p == LevelOf(v)
  IN  /\ pool[p] # <<>>
      /\ v = Head(pool[p])
      /\ pool' = [pool EXCEPT ![p] = Tail(@)]
      /\ releaseCount' = [releaseCount EXCEPT ![v] = n]
      /\ tile' = [tile EXCEPT ![v] = t]

(* releaseMemory: memoryUsed, then canReleaseMemory.  A negative count      *)
(* stands for the unsigned counter that has wrapped around.                 *)
ReleaseMemory(v) ==
  LET left == releaseCount[v] - 1
  IN  /\ releaseCount' = [releaseCount EXCEPT ![v] = left]
      /\ pool' = IF left = 0
                   THEN [pool EXCEPT ![LevelOf(v)] = Append(@, v)] ELSE pool
      /\ UNCHANGED tile
=============================================================================
