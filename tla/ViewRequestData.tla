-------------------------- MODULE ViewRequestData ---------------------------
(***************************************************************************)
(* Where a view lies over the image and its tiles                          *)
(* (data/ViewRequestData.h, api/View.h, the loops of tasks/ViewLoader.h).   *)
(* The code computes everything twice, for rows and for columns, with the   *)
(* same formulas: here they are stated once, along an axis.  An axis `a' is *)
(* the size of the image and of a tile, the radius, and the index of the    *)
(* central tile, all below 2^31.                                            *)
(***************************************************************************)
EXTENDS Integers

Least(x, y) == IF x <= y THEN x ELSE y
Most(x, y) == IF x <= y THEN y ELSE x
Ceil(x, y) == (x + y - 1) \div y

NumberTiles(a) == Ceil(a.image, a.tile)

IsAxis(a) ==
  /\ a \in [image : Nat \ {0}, tile : Nat \ {0}, radius : Nat, index : Nat]
  /\ a.index < NumberTiles(a)

ViewSize(a) == a.tile + 2 * a.radius

(* Top left pixel of the central tile.                                      *)
MinCentralTile(a) == a.index * a.tile

(* The tiles overlapped: the first one, and the one after the last.         *)
IndexMinTile(a) == Most(a.index - Ceil(a.radius, a.tile), 0)
IndexMaxTile(a) == Least(a.index + Ceil(a.radius, a.tile) + 1, NumberTiles(a))

(* The lines to copy from the file.                                         *)
MinFile(a) == Most(MinCentralTile(a) - a.radius, 0)
MaxFile(a) == Least((a.index + 1) * a.tile + a.radius, a.image)
FilledFromFile(a) == MaxFile(a) - MinFile(a)

(* The lines to fill with ghost values, before and after them.              *)
FillBefore(a) ==
  IF MinCentralTile(a) - a.radius < 0 THEN a.radius - MinCentralTile(a) ELSE 0
FillAfter(a) ==
  LET filled == FillBefore(a) + FilledFromFile(a)
  IN  IF filled < ViewSize(a) THEN ViewSize(a) - filled ELSE 0

NumberTilesToLoad(rows, cols) ==
  (IndexMaxTile(rows) - IndexMinTile(rows)) * (IndexMaxTile(cols) - IndexMinTile(cols))

(* The part of tile t to copy: from which line, and how many lines.         *)
From(a, t) == IF t * a.tile <= MinFile(a) THEN MinFile(a) - t * a.tile ELSE 0

(* A slip the properties must notice: the size of the part does not take    *)
(* its start into account.                                                  *)
ToCopyWholeTile(a, t) == Least(MaxFile(a), t * a.tile + a.tile) - t * a.tile

ToCopy(a, t) == Least(MaxFile(a), t * a.tile + a.tile) - From(a, t) - t * a.tile

(* View::init: in the coordinates of the central tile, the lines of the     *)
(* central tile and those that the image has.  The slip takes the whole     *)
(* tile, which the image may not have.                                      *)
CenterTileUnclipped(a) == a.tile

MaxCenterTileLocal(a) == Least(a.image, MinCentralTile(a) + a.tile) - MinCentralTile(a)
MinRealPixelLocal(a) == MinFile(a) - MinCentralTile(a)
MaxRealPixelLocal(a) == MaxFile(a) - MinCentralTile(a)
=============================================================================
