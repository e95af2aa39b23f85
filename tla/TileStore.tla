----------------------------- MODULE TileStore -----------------------------
(***************************************************************************)
(* What the tile loaders and their shared cache promise together: every    *)
(* loader that is asked for a tile answers with that tile's data, and the  *)
(* store behind them keeps at most Capacity tiles, the most recently used  *)
(* first, dropping the least recently used one when it needs room.         *)
(*                                                                         *)
(* There are no locks, no tile buffers and no pool here: ATileLoader is    *)
(* shown to implement this module.                                         *)
(***************************************************************************)
EXTENDS Naturals, Sequences

CONSTANTS
  Loader,         (* The tile loader threads.                              *)
  Tile,           (* The tiles of the image.                               *)
  Origin,         (* The tile an idle loader is set to.                    *)
  Capacity,       (* The number of tiles kept.                             *)
  Unreadable,     (* The tiles whose part of the file may fail to decode.  *)
  Garbage         (* What a buffer holds when no tile was decoded into it. *)

VARIABLES
  phase,          (* What each loader is doing.                            *)
  want,           (* The tile each loader is asked for.                    *)
  answer,         (* The data each loader has copied out.                  *)
  recent          (* The tiles kept, most recently used first.             *)

storeVars == <<phase, want, answer, recent>>

Kept == {recent[i] : i \in 1..Len(recent)}

(* The data a reader of tile t may be given: its own, never another tile's. *)
Readings(t) == IF t \in Unreadable THEN {t, Garbage} ELSE {t}

StoreInit ==
  /\ phase = [l \in Loader |-> "idle"]
  /\ want = [l \in Loader |-> Origin]
  /\ answer = [l \in Loader |-> Garbage]
  /\ recent = <<>>

Ask(l, t) ==
  /\ phase[l] = "idle"
  /\ phase' = [phase EXCEPT ![l] = "asked"]
  /\ want' = [want EXCEPT ![l] = t]
  /\ UNCHANGED <<answer, recent>>

(* Room is made only for a tile that is not kept, when there is none left, *)
(* and at the expense of the least recently used one.                      *)
Evict(l) ==
  /\ phase[l] = "asked"
  /\ want[l] \notin Kept
  /\ Len(recent) = Capacity
  /\ recent' = SubSeq(recent, 1, Len(recent) - 1)
  /\ UNCHANGED <<phase, want, answer>>

(* Tile t becomes the most recently used, the others keep their order.     *)
Used(t) ==
  IF t \in Kept
    THEN LET at == CHOOSE i \in 1..Len(recent) : recent[i] = t
         IN  [i \in 1..Len(recent) |->
                IF i = 1 THEN t ELSE recent[IF i <= at THEN i - 1 ELSE i]]
    ELSE <<t>> \o recent

Use(l) ==
  /\ phase[l] = "asked"
  /\ want[l] \in Kept \/ Len(recent) < Capacity
  /\ phase' = [phase EXCEPT ![l] = "using"]
  /\ recent' = Used(want[l])
  /\ UNCHANGED <<want, answer>>

Answer(l) ==
  /\ phase[l] = "using"
  /\ phase' = [phase EXCEPT ![l] = "answered"]
  /\ answer' \in {[answer EXCEPT ![l] = d] : d \in Readings(want[l])}
  /\ UNCHANGED <<want, recent>>

Deliver(l) ==
  /\ phase[l] = "answered"
  /\ phase' = [phase EXCEPT ![l] = "idle"]
  /\ want' = [want EXCEPT ![l] = Origin]
  /\ answer' = [answer EXCEPT ![l] = Garbage]
  /\ UNCHANGED recent

StoreNext ==
  \E l \in Loader :
    \/ \E t \in Tile : Ask(l, t)
    \/ Evict(l)
    \/ Use(l)
    \/ Answer(l)
    \/ Deliver(l)

StoreSpec == StoreInit /\ [][StoreNext]_storeVars
=============================================================================
