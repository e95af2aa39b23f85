------------------------------ MODULE Traversal -----------------------------
(***************************************************************************)
(* The order in which requestAllTiles asks for the tiles of an image        *)
(* (object/Traversal.h).  The loops of four of the five orders are          *)
(* sequences that can be written down; the spiral walks over the image      *)
(* until it has made as many steps as there are tiles.                      *)
(***************************************************************************)
EXTENDS Integers, Sequences, SequencesExt

CONSTANTS
  NumTileRows,    (* Numbers of rows of tiles an image may have, ...       *)
  NumTileCols     (* ... and of columns.                                   *)

ASSUME TilesAssumption == NumTileRows \subseteq Nat \ {0} /\ NumTileCols \subseteq Nat \ {0}

VARIABLES
  traversalType,
  numTileRow, numTileCol,
  traversal,              (* The tiles <<row, column>> in their order.     *)
  built,                  (* The constructor has returned.                 *)
  row, col, step,         (* spiralAlgorithm's own variables.              *)
  direction,
  hasNotBeenVisited

image == <<traversalType, numTileRow, numTileCol>>
walk == <<row, col, step, direction, hasNotBeenVisited>>
vars == <<image, traversal, built, walk>>

TraversalType == {"NAIVE", "SNAKE", "DIAGONAL", "HILBERT", "SPIRAL"}
Tile == (0..numTileRow - 1) \X (0..numTileCol - 1)

Init ==
  /\ traversalType \in TraversalType
  /\ numTileRow \in NumTileRows
  /\ numTileCol \in NumTileCols
  /\ row = 0 /\ col = 0 /\ step = 0
  /\ direction = "EAST"
  /\ hasNotBeenVisited = Tile \ {<<0, 0>>}
  /\ traversal = IF traversalType = "SPIRAL" THEN << <<0, 0>> >> ELSE <<>>
  /\ built = FALSE

-----------------------------------------------------------------------------
(* Part of a row of tiles, and every second one backwards.                  *)
Line(r, first, last) == [k \in 1..last - first + 1 |-> <<r, first + k - 1>>]

SnakeLine(r, first, last) ==
  IF r % 2 = 0 THEN Line(r, first, last) ELSE Reverse(Line(r, first, last))

Naive == FlattenSeq([k \in 1..numTileRow |-> Line(k - 1, 0, numTileCol - 1)])

(* A slip the properties must notice: no row is taken backwards.            *)
SnakeForward == FlattenSeq([k \in 1..numTileRow |-> Line(k - 1, 0, numTileCol - 1)])

Snake == FlattenSeq([k \in 1..numTileRow |-> SnakeLine(k - 1, 0, numTileCol - 1)])

(* From tile <<r, c>> up and to the right, up to the border.                *)
Diagonal(r, c) ==
  [k \in 1..Min({r + 1, numTileCol - c}) |-> <<r - k + 1, c + k - 1>>]

(* A slip the properties must notice: the longest diagonal is taken twice.  *)
DiagonalsAgain ==
  FlattenSeq([k \in 1..numTileRow |-> Diagonal(k - 1, 0)])
    \o FlattenSeq([k \in 1..numTileCol |-> Diagonal(numTileRow - 1, k - 1)])

(* From the first column, then from the last row.                           *)
Diagonals ==
  FlattenSeq([k \in 1..numTileRow |-> Diagonal(k - 1, 0)])
    \o FlattenSeq([k \in 1..numTileCol - 1 |-> Diagonal(numTileRow - 1, k)])

-----------------------------------------------------------------------------
(* The Hilbert curve fills the largest square of tiles whose side is a      *)
(* power of two; snakes fill what is on its right, then what is below.      *)

NoRot(n, p, rx, ry) == IF ry = 0 THEN <<p[2], p[1]>> ELSE p

Rot(n, p, rx, ry) ==
  IF ry # 0 THEN p
  ELSE IF rx = 1 THEN <<n - 1 - p[2], n - 1 - p[1]>>
  ELSE <<p[2], p[1]>>

(* The sides of the squares that the curve is made of.                      *)
Doubled[i \in Nat] == IF i = 0 THEN 1 ELSE 2 * Doubled[i - 1]

(* One turn of d2xy's loop: p is the tile in a square with side s, which is *)
(* a quarter of the next one, where digit t of d says which.                *)
Turn(p, s, d) ==
  LET t == d \div (s * s)
      rx == (t \div 2) % 2
      ry == (t + rx) % 2
      q == Rot(s, p, rx, ry)
  IN  <<q[1] + s * rx, q[2] + s * ry>>

(* Tile at distance d on the curve, after k turns.                          *)
D2XY(k, d) ==
  LET xy[i \in 0..k] == IF i = 0 THEN <<0, 0>> ELSE Turn(xy[i - 1], Doubled[i - 1], d)
  IN  xy[k]

HilbertCurve ==
  LET smallest == Min({numTileRow, numTileCol})
      k == Max({i \in 0..smallest : Doubled[i] <= smallest})
  IN  [i \in 1..Doubled[k] * Doubled[k] |-> D2XY(k, i - 1)]

(* minX and minY are the last row and the last column of the curve.         *)
Hilbert(curve, minX, minY) ==
  curve
    \o FlattenSeq([k \in 1..numTileRow |-> SnakeLine(k - 1, minY + 1, numTileCol - 1)])
    \o FlattenSeq([k \in 1..numTileRow - minY - 1 |-> SnakeLine(k + minY, 0, minX)])

(* The loops of the four first orders.                                      *)
Algorithm ==
  /\ ~built
  /\ \/ traversalType = "NAIVE" /\ traversal' = Naive
     \/ traversalType = "SNAKE" /\ traversal' = Snake
     \/ traversalType = "DIAGONAL" /\ traversal' = Diagonals
     \/ /\ traversalType = "HILBERT"
        /\ \E curve \in {HilbertCurve} :
             traversal' = Hilbert(curve, Max({p[1] : p \in ToSet(curve)}),
                                         Max({p[2] : p \in ToSet(curve)}))
  /\ built' = TRUE
  /\ UNCHANGED <<image, walk>>

-----------------------------------------------------------------------------
(* The spiral: one step, or one turn, in each turn of the loop.             *)

(* A slip the properties must notice: the walk turns the other way.         *)
TurnLeft(d) ==
  CASE d = "EAST" -> "NORTH" [] d = "NORTH" -> "WEST"
    [] d = "WEST" -> "SOUTH" [] d = "SOUTH" -> "EAST"

NextDirection(d) ==
  CASE d = "EAST" -> "SOUTH" [] d = "SOUTH" -> "WEST"
    [] d = "WEST" -> "NORTH" [] d = "NORTH" -> "EAST"

NextStep(d) ==
  CASE d = "NORTH" -> <<row - 1, col>> [] d = "SOUTH" -> <<row + 1, col>>
    [] d = "EAST" -> <<row, col + 1>> [] d = "WEST" -> <<row, col - 1>>

IsFree(t) ==
  /\ t[1] # -1 /\ t[1] # numTileRow /\ t[2] # -1 /\ t[2] # numTileCol
  /\ t \in hasNotBeenVisited

Spiralling == traversalType = "SPIRAL" /\ step < numTileRow * numTileCol - 1

(* A slip the properties must notice: the steps are not counted.            *)
SpiralStepUncounted ==
  /\ Spiralling
  /\ IsFree(NextStep(direction))
  /\ row' = NextStep(direction)[1] /\ col' = NextStep(direction)[2]
  /\ hasNotBeenVisited' = hasNotBeenVisited \ {NextStep(direction)}
  /\ traversal' = Append(traversal, NextStep(direction))
  /\ UNCHANGED <<image, built, step, direction>>

SpiralStep ==
  /\ Spiralling
  /\ IsFree(NextStep(direction))
  /\ step' = step + 1
  /\ row' = NextStep(direction)[1] /\ col' = NextStep(direction)[2]
  /\ hasNotBeenVisited' = hasNotBeenVisited \ {NextStep(direction)}
  /\ traversal' = Append(traversal, NextStep(direction))
  /\ UNCHANGED <<image, built, direction>>

SpiralTurn ==
  /\ Spiralling
  /\ ~IsFree(NextStep(direction))
  /\ direction' = NextDirection(direction)
  /\ UNCHANGED <<image, built, traversal, row, col, step, hasNotBeenVisited>>

SpiralEnd ==
  /\ traversalType = "SPIRAL" /\ ~Spiralling /\ ~built
  /\ built' = TRUE
  /\ UNCHANGED <<image, traversal, walk>>

Done == built /\ UNCHANGED vars

Next == Algorithm \/ SpiralStep \/ SpiralTurn \/ SpiralEnd \/ Done

Spec == Init /\ [][Next]_vars /\ WF_vars(Next)
-----------------------------------------------------------------------------
(* The spiral's variables agree: it has visited the tiles of the traversal, *)
(* and stands on the last one.                                              *)
WalkInv ==
  traversalType = "SPIRAL" =>
    /\ step = Len(traversal) - 1
    /\ hasNotBeenVisited = Tile \ ToSet(traversal)
    /\ <<row, col>> = Last(traversal) /\ <<row, col>> \in Tile

(* requestAllTiles asks for every tile once.                                *)
EachTileOnce ==
  built => /\ Len(traversal) = numTileRow * numTileCol
           /\ ToSet(traversal) = Tile

(* The spiral never has to turn twice: it cannot be shut in by the tiles    *)
(* it has visited before it has visited them all.                           *)
NeverShutIn ==
  Spiralling => \/ IsFree(NextStep(direction))
                \/ IsFree(NextStep(NextDirection(direction)))

(* The snake, the spiral, and the Hilbert curve in its square, go from one  *)
(* tile to a neighbour, whose pixels the cache has just loaded.             *)
Neighbours(s, t) ==
  \/ s[1] = t[1] /\ s[2] - t[2] \in {-1, 1}
  \/ s[2] = t[2] /\ s[1] - t[1] \in {-1, 1}

GoesToNeighbours ==
  \A i \in 1..Len(traversal) - 1 :
    \/ traversalType \in {"SNAKE", "SPIRAL"}
    \/ traversalType = "HILBERT" /\ numTileRow = numTileCol
         /\ numTileRow \in {Doubled[k] : k \in 0..numTileRow}
    => Neighbours(traversal[i], traversal[i + 1])

(* The constructor returns.                                                 *)
GetsBuilt == <>built
=============================================================================
