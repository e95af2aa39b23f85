--------------------------- MODULE TraversalProofs --------------------------
(***************************************************************************)
(* The spiral visits each tile of an image of any size once, going from    *)
(* neighbour to neighbour: the tiles it has not visited are always what is *)
(* left of the line it walks along, and a rectangle on its right hand.     *)
(* The other orders have each tile once too, and the snake and the Hilbert *)
(* curve in its square go from neighbour to neighbour.                     *)
(***************************************************************************)
EXTENDS Traversal, CommonLemmas

-----------------------------------------------------------------------------
(* The free tiles, for each direction.  The rectangle's rows are from t to *)
(* b and its columns from l to r, or it has the walk's line as a side.     *)

FreeEast(b, l, r) ==
  /\ l <= col + 1 /\ col <= r /\ row <= b
  /\ hasNotBeenVisited = ({row} \X (col + 1..r)) \union ((row + 1..b) \X (l..r))

FreeSouth(t, b, l) ==
  /\ t <= row + 1 /\ row <= b /\ l <= col
  /\ hasNotBeenVisited = ((row + 1..b) \X {col}) \union ((t..b) \X (l..col - 1))

FreeWest(t, l, r) ==
  /\ l <= col /\ col <= r + 1 /\ t <= row
  /\ hasNotBeenVisited = ({row} \X (l..col - 1)) \union ((t..row - 1) \X (l..r))

FreeNorth(t, b, r) ==
  /\ t <= row /\ row <= b + 1 /\ col <= r
  /\ hasNotBeenVisited = ((t..row - 1) \X {col}) \union ((t..b) \X (col + 1..r))

Frontier ==
  /\ direction = "EAST" => \E b, l, r \in Int : FreeEast(b, l, r)
  /\ direction = "SOUTH" => \E t, b, l \in Int : FreeSouth(t, b, l)
  /\ direction = "WEST" => \E t, l, r \in Int : FreeWest(t, l, r)
  /\ direction = "NORTH" => \E t, b, r \in Int : FreeNorth(t, b, r)

TypeInv ==
  /\ numTileRow \in Nat \ {0} /\ numTileCol \in Nat \ {0}
  /\ traversal \in Seq(Tile) /\ traversal # <<>>
  /\ built \in BOOLEAN
  /\ row \in Nat /\ col \in Nat /\ step \in Nat
  /\ direction \in {"EAST", "SOUTH", "WEST", "NORTH"}

SpiralInv ==
  traversalType = "SPIRAL" =>
    /\ TypeInv
    /\ WalkInv
    /\ IsFiniteSet(hasNotBeenVisited)
    /\ Cardinality(hasNotBeenVisited) = numTileRow * numTileCol - 1 - step
    /\ Frontier
    /\ built => ~Spiralling

-----------------------------------------------------------------------------
(* What is appended is the last, and one more tile.                        *)
LEMMA AppendedTile ==
  ASSUME NEW S, NEW s \in Seq(S), NEW x \in S
  PROVE  /\ Append(s, x) \in Seq(S) /\ Append(s, x) # <<>>
         /\ Len(Append(s, x)) = Len(s) + 1
         /\ ToSet(Append(s, x)) = ToSet(s) \union {x}
         /\ Last(Append(s, x)) = x
<1>1. /\ Append(s, x) \in Seq(S) /\ Len(Append(s, x)) = Len(s) + 1
      /\ Len(s) \in Nat
      /\ \A i \in 1..Len(s) : Append(s, x)[i] = s[i]
      /\ Append(s, x)[Len(s) + 1] = x
      /\ DOMAIN s = 1..Len(s) /\ DOMAIN Append(s, x) = 1..Len(s) + 1
  OBVIOUS
<1>2. ToSet(Append(s, x)) = ToSet(s) \union {x}
  <2>1. 1..Len(s) + 1 = (1..Len(s)) \union {Len(s) + 1}
    BY <1>1
  <2>2. ToSet(s) = {s[i] : i \in 1..Len(s)}
    BY <1>1 DEF ToSet
  <2>3. ToSet(Append(s, x)) = {Append(s, x)[i] : i \in 1..Len(s) + 1}
    BY <1>1 DEF ToSet
  <2> QED BY <1>1, <2>1, <2>2, <2>3
<1>3. Last(Append(s, x)) = x
  BY <1>1 DEF Last
<1>4. Append(s, x) # <<>>
  BY <1>1
<1> QED BY <1>1, <1>2, <1>3, <1>4

(* The borders of the image are never free.                                *)
LEMMA FreeTiles ==
  ASSUME hasNotBeenVisited \subseteq Tile, TypeInv, NEW t
  PROVE  IsFree(t) <=> t \in hasNotBeenVisited
<1>1. ASSUME t \in Tile
      PROVE  t[1] # -1 /\ t[1] # numTileRow /\ t[2] # -1 /\ t[2] # numTileCol
  BY <1>1 DEF Tile, TypeInv
<1> QED BY <1>1 DEF IsFree

(* There is a free tile as long as the walk goes on, ...                   *)
LEMMA SomeTileIsFree ==
  ASSUME SpiralInv, Spiralling
  PROVE  hasNotBeenVisited # {}
<1>1. /\ numTileRow * numTileCol \in Nat /\ step \in Nat
      /\ IsFiniteSet(hasNotBeenVisited)
      /\ Cardinality(hasNotBeenVisited) = numTileRow * numTileCol - 1 - step
      /\ step < numTileRow * numTileCol - 1
  BY DEF SpiralInv, Spiralling, TypeInv
<1>2. Cardinality(hasNotBeenVisited) # 0
  BY <1>1
<1> QED BY <1>2, FS_EmptySet

(* ... and it is ahead or, where the line ends, on the right hand.         *)
LEMMA EastOrSouth ==
  ASSUME SpiralInv, Spiralling, direction = "EAST"
  PROVE  \/ <<row, col + 1>> \in hasNotBeenVisited
         \/ /\ <<row, col + 1>> \notin hasNotBeenVisited
            /\ <<row + 1, col>> \in hasNotBeenVisited
            /\ \E t, b, l \in Int : FreeSouth(t, b, l)
<1>1. PICK b \in Int, l \in Int, r \in Int : FreeEast(b, l, r)
  BY DEF SpiralInv, Spiralling, Frontier
<1>2. row \in Nat /\ col \in Nat
  BY DEF SpiralInv, Spiralling, TypeInv
<1>3. hasNotBeenVisited # {}
  BY SomeTileIsFree
<1>4. CASE col + 1 <= r
  BY <1>1, <1>2, <1>4 DEF FreeEast
<1>5. CASE col = r
  <2>1. hasNotBeenVisited = (row + 1..b) \X (l..col)
    BY <1>1, <1>2, <1>5 DEF FreeEast
  <2>2. row + 1 <= b /\ l <= col
    BY <1>1, <1>2, <1>3, <2>1
  <2>3. (row + 1..b) \X (l..col) = ((row + 1..b) \X {col}) \union ((row + 1..b) \X (l..col - 1))
    <3>1. l..col = {col} \union (l..col - 1)
      BY <1>2, <2>2
    <3> QED BY <3>1
  <2>4. FreeSouth(row + 1, b, l)
    BY <1>2, <2>1, <2>2, <2>3 DEF FreeSouth
  <2>5. <<row + 1, col>> \in hasNotBeenVisited /\ <<row, col + 1>> \notin hasNotBeenVisited
    BY <1>2, <2>1, <2>2
  <2> QED BY <1>2, <2>4, <2>5
<1> QED BY <1>1, <1>2, <1>4, <1>5 DEF FreeEast

LEMMA SouthOrWest ==
  ASSUME SpiralInv, Spiralling, direction = "SOUTH"
  PROVE  \/ <<row + 1, col>> \in hasNotBeenVisited
         \/ /\ <<row + 1, col>> \notin hasNotBeenVisited
            /\ <<row, col - 1>> \in hasNotBeenVisited
            /\ \E t, l, r \in Int : FreeWest(t, l, r)
<1>1. PICK t \in Int, b \in Int, l \in Int : FreeSouth(t, b, l)
  BY DEF SpiralInv, Spiralling, Frontier
<1>2. row \in Nat /\ col \in Nat
  BY DEF SpiralInv, Spiralling, TypeInv
<1>3. hasNotBeenVisited # {}
  BY SomeTileIsFree
<1>4. CASE row + 1 <= b
  BY <1>1, <1>2, <1>4 DEF FreeSouth
<1>5. CASE row = b
  <2>1. hasNotBeenVisited = (t..row) \X (l..col - 1)
    BY <1>1, <1>2, <1>5 DEF FreeSouth
  <2>2. t <= row /\ l <= col - 1
    BY <1>1, <1>2, <1>3, <2>1
  <2>3. (t..row) \X (l..col - 1) = ({row} \X (l..col - 1)) \union ((t..row - 1) \X (l..col - 1))
    <3>1. t..row = {row} \union (t..row - 1)
      BY <1>2, <2>2
    <3> QED BY <3>1
  <2>4. FreeWest(t, l, col - 1)
    BY <1>2, <2>1, <2>2, <2>3 DEF FreeWest
  <2>5. <<row, col - 1>> \in hasNotBeenVisited /\ <<row + 1, col>> \notin hasNotBeenVisited
    BY <1>2, <2>1, <2>2
  <2> QED BY <1>2, <2>4, <2>5
<1> QED BY <1>1, <1>2, <1>4, <1>5 DEF FreeSouth

LEMMA WestOrNorth ==
  ASSUME SpiralInv, Spiralling, direction = "WEST"
  PROVE  \/ <<row, col - 1>> \in hasNotBeenVisited
         \/ /\ <<row, col - 1>> \notin hasNotBeenVisited
            /\ <<row - 1, col>> \in hasNotBeenVisited
            /\ \E t, b, r \in Int : FreeNorth(t, b, r)
<1>1. PICK t \in Int, l \in Int, r \in Int : FreeWest(t, l, r)
  BY DEF SpiralInv, Spiralling, Frontier
<1>2. row \in Nat /\ col \in Nat
  BY DEF SpiralInv, Spiralling, TypeInv
<1>3. hasNotBeenVisited # {}
  BY SomeTileIsFree
<1>4. CASE l <= col - 1
  BY <1>1, <1>2, <1>4 DEF FreeWest
<1>5. CASE col = l
  <2>1. hasNotBeenVisited = (t..row - 1) \X (col..r)
    BY <1>1, <1>2, <1>5 DEF FreeWest
  <2>2. t <= row - 1 /\ col <= r
    BY <1>1, <1>2, <1>3, <2>1
  <2>3. (t..row - 1) \X (col..r) = ((t..row - 1) \X {col}) \union ((t..row - 1) \X (col + 1..r))
    <3>1. col..r = {col} \union (col + 1..r)
      BY <1>2, <2>2
    <3> QED BY <3>1
  <2>4. FreeNorth(t, row - 1, r)
    BY <1>2, <2>1, <2>2, <2>3 DEF FreeNorth
  <2>5. <<row - 1, col>> \in hasNotBeenVisited /\ <<row, col - 1>> \notin hasNotBeenVisited
    BY <1>2, <2>1, <2>2
  <2> QED BY <1>2, <2>4, <2>5
<1> QED BY <1>1, <1>2, <1>4, <1>5 DEF FreeWest

LEMMA NorthOrEast ==
  ASSUME SpiralInv, Spiralling, direction = "NORTH"
  PROVE  \/ <<row - 1, col>> \in hasNotBeenVisited
         \/ /\ <<row - 1, col>> \notin hasNotBeenVisited
            /\ <<row, col + 1>> \in hasNotBeenVisited
            /\ \E b, l, r \in Int : FreeEast(b, l, r)
<1>1. PICK t \in Int, b \in Int, r \in Int : FreeNorth(t, b, r)
  BY DEF SpiralInv, Spiralling, Frontier
<1>2. row \in Nat /\ col \in Nat
  BY DEF SpiralInv, Spiralling, TypeInv
<1>3. hasNotBeenVisited # {}
  BY SomeTileIsFree
<1>4. CASE t <= row - 1
  BY <1>1, <1>2, <1>4 DEF FreeNorth
<1>5. CASE row = t
  <2>1. hasNotBeenVisited = (row..b) \X (col + 1..r)
    BY <1>1, <1>2, <1>5 DEF FreeNorth
  <2>2. row <= b /\ col + 1 <= r
    BY <1>1, <1>2, <1>3, <2>1
  <2>3. (row..b) \X (col + 1..r) = ({row} \X (col + 1..r)) \union ((row + 1..b) \X (col + 1..r))
    <3>1. row..b = {row} \union (row + 1..b)
      BY <1>2, <2>2
    <3> QED BY <3>1
  <2>4. FreeEast(b, col + 1, r)
    BY <1>2, <2>1, <2>2, <2>3 DEF FreeEast
  <2>5. <<row, col + 1>> \in hasNotBeenVisited /\ <<row - 1, col>> \notin hasNotBeenVisited
    BY <1>2, <2>1, <2>2
  <2> QED BY <1>2, <2>4, <2>5
<1> QED BY <1>1, <1>2, <1>4, <1>5 DEF FreeNorth

-----------------------------------------------------------------------------
(* The invariant.                                                          *)

LEMMA SpiralInvInit == Init => SpiralInv
<1> SUFFICES ASSUME Init, traversalType = "SPIRAL"
             PROVE  /\ TypeInv /\ WalkInv
                    /\ IsFiniteSet(hasNotBeenVisited)
                    /\ Cardinality(hasNotBeenVisited) = numTileRow * numTileCol - 1 - step
                    /\ Frontier /\ (built => ~Spiralling)
  BY DEF SpiralInv
<1>1. /\ numTileRow \in Nat \ {0} /\ numTileCol \in Nat \ {0}
      /\ row = 0 /\ col = 0 /\ step = 0 /\ direction = "EAST" /\ built = FALSE
      /\ hasNotBeenVisited = Tile \ {<<0, 0>>}
      /\ traversal = << <<0, 0>> >>
  BY TilesAssumption DEF Init
<1>2. <<0, 0>> \in Tile
  BY <1>1 DEF Tile
<1>3. TypeInv
  <2>1. << <<0, 0>> >> \in Seq(Tile) /\ << <<0, 0>> >> # <<>>
    BY <1>2
  <2> QED BY <1>1, <2>1 DEF TypeInv
<1>4. WalkInv
  <2>1. ToSet(traversal) = {<<0, 0>>} /\ Last(traversal) = <<0, 0>> /\ Len(traversal) = 1
    BY <1>1 DEF ToSet, Last
  <2> QED BY <1>1, <1>2, <2>1 DEF WalkInv
<1>5. IsFiniteSet(Tile) /\ Cardinality(Tile) = numTileRow * numTileCol
  <2>1. ASSUME NEW n \in Nat \ {0}
        PROVE  IsFiniteSet(0..n - 1) /\ Cardinality(0..n - 1) = n
    <3>1. IsFiniteSet(0..n - 1) /\ Cardinality(0..n - 1) = IF 0 > n - 1 THEN 0 ELSE n - 1 - 0 + 1
      BY FS_Interval
    <3> QED BY <3>1
  <2>2. /\ IsFiniteSet(0..numTileRow - 1) /\ Cardinality(0..numTileRow - 1) = numTileRow
        /\ IsFiniteSet(0..numTileCol - 1) /\ Cardinality(0..numTileCol - 1) = numTileCol
    BY <1>1, <2>1
  <2>3. /\ IsFiniteSet((0..numTileRow - 1) \X (0..numTileCol - 1))
        /\ Cardinality((0..numTileRow - 1) \X (0..numTileCol - 1))
             = Cardinality(0..numTileRow - 1) * Cardinality(0..numTileCol - 1)
    BY ONLY <2>2, FS_Product
  <2> QED BY <2>2, <2>3 DEF Tile
<1>6. /\ IsFiniteSet(hasNotBeenVisited)
      /\ Cardinality(hasNotBeenVisited) = numTileRow * numTileCol - 1
  BY <1>1, <1>2, <1>5, FS_RemoveElement
<1>7. numTileRow * numTileCol - 1 - step = numTileRow * numTileCol - 1
  BY <1>1
<1>8. Frontier
  <2>1. FreeEast(numTileRow - 1, 0, numTileCol - 1)
    <3>1. hasNotBeenVisited = ({0} \X (1..numTileCol - 1))
                                \union ((1..numTileRow - 1) \X (0..numTileCol - 1))
      BY <1>1 DEF Tile
    <3> QED BY <1>1, <3>1 DEF FreeEast
  <2>2. numTileRow - 1 \in Int /\ numTileCol - 1 \in Int /\ 0 \in Int
    BY <1>1
  <2> QED BY <1>1, <2>1, <2>2 DEF Frontier
<1> QED BY <1>1, <1>3, <1>4, <1>6, <1>7, <1>8

(* A step along the line leaves the rest of it.                            *)
LEMMA FrontierStep ==
  ASSUME SpiralInv, SpiralStep
  PROVE  Frontier'
<1>1. /\ row \in Nat /\ col \in Nat /\ traversalType = "SPIRAL"
      /\ Frontier
      /\ NextStep(direction) \in hasNotBeenVisited
  BY DEF SpiralInv, SpiralStep, Spiralling, TypeInv, IsFree
<1>2. /\ row' = NextStep(direction)[1] /\ col' = NextStep(direction)[2]
      /\ hasNotBeenVisited' = hasNotBeenVisited \ {NextStep(direction)}
      /\ direction' = direction
  BY DEF SpiralStep
<1>3. CASE direction = "EAST"
  <2>1. NextStep(direction) = <<row, col + 1>>
    BY <1>3 DEF NextStep
  <2>2. PICK b \in Int, l \in Int, r \in Int : FreeEast(b, l, r)
    BY <1>1, <1>3 DEF Frontier
  <2>3. col + 1 <= r
    BY <1>1, <2>1, <2>2 DEF FreeEast
  <2>4. hasNotBeenVisited' = ({row} \X (col + 2..r)) \union ((row + 1..b) \X (l..r))
    BY <1>1, <1>2, <2>1, <2>2 DEF FreeEast
  <2>5. row' = row /\ col' = col + 1 /\ (col + 1) + 1 = col + 2
    BY <1>1, <1>2, <2>1
  <2>6. l <= (col + 1) + 1 /\ row <= b
    BY <1>1, <2>2 DEF FreeEast
  <2>7. FreeEast(b, l, r)'
    BY <2>3, <2>4, <2>5, <2>6 DEF FreeEast
  <2> QED BY <1>2, <1>3, <2>7 DEF Frontier
<1>4. CASE direction = "SOUTH"
  <2>1. NextStep(direction) = <<row + 1, col>>
    BY <1>4 DEF NextStep
  <2>2. PICK t \in Int, b \in Int, l \in Int : FreeSouth(t, b, l)
    BY <1>1, <1>4 DEF Frontier
  <2>3. row + 1 <= b
    BY <1>1, <2>1, <2>2 DEF FreeSouth
  <2>4. hasNotBeenVisited' = ((row + 2..b) \X {col}) \union ((t..b) \X (l..col - 1))
    BY <1>1, <1>2, <2>1, <2>2 DEF FreeSouth
  <2>5. row' = row + 1 /\ col' = col /\ (row + 1) + 1 = row + 2
    BY <1>1, <1>2, <2>1
  <2>6. t <= (row + 1) + 1 /\ l <= col
    BY <1>1, <2>2 DEF FreeSouth
  <2>7. FreeSouth(t, b, l)'
    BY <2>3, <2>4, <2>5, <2>6 DEF FreeSouth
  <2> QED BY <1>2, <1>4, <2>7 DEF Frontier
<1>5. CASE direction = "WEST"
  <2>1. NextStep(direction) = <<row, col - 1>>
    BY <1>5 DEF NextStep
  <2>2. PICK t \in Int, l \in Int, r \in Int : FreeWest(t, l, r)
    BY <1>1, <1>5 DEF Frontier
  <2>3. l <= col - 1
    BY <1>1, <2>1, <2>2 DEF FreeWest
  <2>4. hasNotBeenVisited' = ({row} \X (l..col - 2)) \union ((t..row - 1) \X (l..r))
    BY <1>1, <1>2, <2>1, <2>2 DEF FreeWest
  <2>5. row' = row /\ col' = col - 1 /\ (col - 1) - 1 = col - 2
    BY <1>1, <1>2, <2>1
  <2>6. col - 1 <= r + 1 /\ t <= row
    BY <1>1, <2>2 DEF FreeWest
  <2>7. FreeWest(t, l, r)'
    BY <2>3, <2>4, <2>5, <2>6 DEF FreeWest
  <2> QED BY <1>2, <1>5, <2>7 DEF Frontier
<1>6. CASE direction = "NORTH"
  <2>1. NextStep(direction) = <<row - 1, col>>
    BY <1>6 DEF NextStep
  <2>2. PICK t \in Int, b \in Int, r \in Int : FreeNorth(t, b, r)
    BY <1>1, <1>6 DEF Frontier
  <2>3. t <= row - 1
    BY <1>1, <2>1, <2>2 DEF FreeNorth
  <2>4. hasNotBeenVisited' = ((t..row - 2) \X {col}) \union ((t..b) \X (col + 1..r))
    BY <1>1, <1>2, <2>1, <2>2 DEF FreeNorth
  <2>5. row' = row - 1 /\ col' = col /\ (row - 1) - 1 = row - 2
    BY <1>1, <1>2, <2>1
  <2>6. row - 1 <= b + 1 /\ col <= r
    BY <1>1, <2>2 DEF FreeNorth
  <2>7. FreeNorth(t, b, r)'
    BY <2>3, <2>4, <2>5, <2>6 DEF FreeNorth
  <2> QED BY <1>2, <1>6, <2>7 DEF Frontier
<1> QED BY <1>3, <1>4, <1>5, <1>6 DEF SpiralInv, TypeInv, SpiralStep, Spiralling

LEMMA SpiralInvStep ==
  ASSUME SpiralInv, SpiralStep
  PROVE  SpiralInv'
<1> DEFINE next == NextStep(direction)
<1>1. /\ traversalType = "SPIRAL" /\ TypeInv /\ WalkInv
      /\ IsFiniteSet(hasNotBeenVisited)
      /\ Cardinality(hasNotBeenVisited) = numTileRow * numTileCol - 1 - step
      /\ Spiralling /\ ~built
  BY DEF SpiralInv, SpiralStep, Spiralling
<1>2. /\ next \in hasNotBeenVisited
      /\ step' = step + 1 /\ row' = next[1] /\ col' = next[2]
      /\ hasNotBeenVisited' = hasNotBeenVisited \ {next}
      /\ traversal' = Append(traversal, next)
      /\ UNCHANGED <<traversalType, numTileRow, numTileCol>>
      /\ UNCHANGED built /\ UNCHANGED direction
  BY DEF SpiralStep, IsFree, image
<1> HIDE DEF next
<1>3. /\ step = Len(traversal) - 1 /\ hasNotBeenVisited = Tile \ ToSet(traversal)
      /\ Tile' = Tile
  BY <1>1, <1>2 DEF WalkInv, Tile
<1>4. next \in Tile /\ next[1] \in Nat /\ next[2] \in Nat /\ next = <<next[1], next[2]>>
  BY <1>2, <1>3 DEF Tile
<1>5. traversal \in Seq(Tile) /\ Len(traversal) \in Nat
  BY <1>1 DEF TypeInv
<1>6. /\ traversal' \in Seq(Tile) /\ traversal' # <<>>
      /\ Len(traversal') = Len(traversal) + 1
      /\ ToSet(traversal') = ToSet(traversal) \union {next}
      /\ Last(traversal') = next
  BY <1>2, <1>4, <1>5, AppendedTile
<1>7. TypeInv'
  BY <1>1, <1>2, <1>3, <1>4, <1>6 DEF TypeInv
<1>8. WalkInv'
  <2>1. step' = Len(traversal') - 1
    BY <1>2, <1>3, <1>5, <1>6
  <2>2. hasNotBeenVisited' = Tile' \ ToSet(traversal')
    BY <1>2, <1>3, <1>6
  <2>3. <<row', col'>> = Last(traversal') /\ <<row', col'>> \in Tile'
    BY <1>2, <1>3, <1>4, <1>6
  <2> QED BY <2>1, <2>2, <2>3 DEF WalkInv
<1>9. IsFiniteSet(hasNotBeenVisited') /\ Cardinality(hasNotBeenVisited') = Cardinality(hasNotBeenVisited) - 1
  BY <1>1, <1>2, FS_RemoveElement
<1>10. Cardinality(hasNotBeenVisited') = numTileRow' * numTileCol' - 1 - step'
  <2>1. numTileRow * numTileCol \in Nat /\ step \in Nat
    BY <1>1 DEF TypeInv
  <2> QED BY <1>1, <1>2, <1>9, <2>1
<1>11. Frontier'
  BY FrontierStep
<1>12. ~built'
  BY <1>1, <1>2
<1> QED BY <1>7, <1>8, <1>9, <1>10, <1>11, <1>12 DEF SpiralInv

LEMMA SpiralInvTurn ==
  ASSUME SpiralInv, SpiralTurn
  PROVE  SpiralInv'
<1>1. /\ traversalType = "SPIRAL" /\ TypeInv /\ WalkInv /\ Spiralling /\ ~built
  BY DEF SpiralInv, SpiralTurn, Spiralling
<1>2. /\ direction' = NextDirection(direction)
      /\ UNCHANGED <<traversalType, numTileRow, numTileCol, built, traversal, row, col, step, hasNotBeenVisited>>
  BY DEF SpiralTurn, image
<1>3. NextStep(direction) \notin hasNotBeenVisited
  <2>1. hasNotBeenVisited \subseteq Tile
    BY <1>1 DEF WalkInv
  <2> QED BY <1>1, <2>1, FreeTiles DEF SpiralTurn
<1>4. CASE direction = "EAST"
  <2>1. PICK t \in Int, b \in Int, l \in Int : FreeSouth(t, b, l)
    BY <1>1, <1>3, <1>4, EastOrSouth DEF NextStep
  <2>2. direction' = "SOUTH" /\ FreeSouth(t, b, l)'
    BY <1>2, <1>4, <2>1 DEF NextDirection, FreeSouth
  <2>3. Frontier' /\ TypeInv'
    BY <1>1, <1>2, <2>2 DEF Frontier, TypeInv, Tile
  <2> QED BY <1>1, <1>2, <2>3 DEF SpiralInv, WalkInv, Tile
<1>5. CASE direction = "SOUTH"
  <2>1. PICK t \in Int, l \in Int, r \in Int : FreeWest(t, l, r)
    BY <1>1, <1>3, <1>5, SouthOrWest DEF NextStep
  <2>2. direction' = "WEST" /\ FreeWest(t, l, r)'
    BY <1>2, <1>5, <2>1 DEF NextDirection, FreeWest
  <2>3. Frontier' /\ TypeInv'
    BY <1>1, <1>2, <2>2 DEF Frontier, TypeInv, Tile
  <2> QED BY <1>1, <1>2, <2>3 DEF SpiralInv, WalkInv, Tile
<1>6. CASE direction = "WEST"
  <2>1. PICK t \in Int, b \in Int, r \in Int : FreeNorth(t, b, r)
    BY <1>1, <1>3, <1>6, WestOrNorth DEF NextStep
  <2>2. direction' = "NORTH" /\ FreeNorth(t, b, r)'
    BY <1>2, <1>6, <2>1 DEF NextDirection, FreeNorth
  <2>3. Frontier' /\ TypeInv'
    BY <1>1, <1>2, <2>2 DEF Frontier, TypeInv, Tile
  <2> QED BY <1>1, <1>2, <2>3 DEF SpiralInv, WalkInv, Tile
<1>7. CASE direction = "NORTH"
  <2>1. PICK b \in Int, l \in Int, r \in Int : FreeEast(b, l, r)
    BY <1>1, <1>3, <1>7, NorthOrEast DEF NextStep
  <2>2. direction' = "EAST" /\ FreeEast(b, l, r)'
    BY <1>2, <1>7, <2>1 DEF NextDirection, FreeEast
  <2>3. Frontier' /\ TypeInv'
    BY <1>1, <1>2, <2>2 DEF Frontier, TypeInv, Tile
  <2> QED BY <1>1, <1>2, <2>3 DEF SpiralInv, WalkInv, Tile
<1> QED BY <1>1, <1>4, <1>5, <1>6, <1>7 DEF TypeInv

LEMMA SpiralInvStays ==
  ASSUME SpiralInv, UNCHANGED image, UNCHANGED walk, UNCHANGED traversal,
         traversalType = "SPIRAL" => built' \in BOOLEAN /\ (built' => ~Spiralling)
  PROVE  SpiralInv'
<1> SUFFICES ASSUME traversalType = "SPIRAL" PROVE SpiralInv'
  BY DEF SpiralInv, image
<1>1. /\ UNCHANGED <<traversalType, numTileRow, numTileCol, traversal>>
      /\ UNCHANGED <<row, col, step, direction, hasNotBeenVisited>>
  BY DEF image, walk
<1>2. TypeInv /\ WalkInv /\ Frontier
  BY DEF SpiralInv
<1>3. Tile' = Tile /\ (Spiralling' <=> Spiralling)
  BY <1>1 DEF Tile, Spiralling
<1>4. TypeInv'
  BY <1>1, <1>2, <1>3 DEF TypeInv
<1>5. WalkInv'
  BY <1>1, <1>2, <1>3 DEF WalkInv
<1>6. Frontier'
  BY <1>1, <1>2 DEF Frontier, FreeEast, FreeSouth, FreeWest, FreeNorth
<1>7. /\ IsFiniteSet(hasNotBeenVisited')
      /\ Cardinality(hasNotBeenVisited') = numTileRow' * numTileCol' - 1 - step'
  BY <1>1 DEF SpiralInv
<1> QED BY <1>3, <1>4, <1>5, <1>6, <1>7 DEF SpiralInv

LEMMA SpiralInvNext == SpiralInv /\ [Next]_vars => SpiralInv'
<1> SUFFICES ASSUME SpiralInv, [Next]_vars PROVE SpiralInv'
  OBVIOUS
<1>1. CASE Algorithm
  BY <1>1 DEF Algorithm, SpiralInv, image
<1>2. CASE SpiralEnd
  <2>1. ~Spiralling /\ UNCHANGED image /\ UNCHANGED walk /\ UNCHANGED traversal /\ built' = TRUE
    BY <1>2 DEF SpiralEnd
  <2> QED BY <2>1, SpiralInvStays
<1>3. CASE UNCHANGED vars
  <2>1. UNCHANGED image /\ UNCHANGED walk /\ UNCHANGED traversal /\ UNCHANGED built
    BY <1>3 DEF vars
  <2>2. traversalType = "SPIRAL" => built' \in BOOLEAN /\ (built' => ~Spiralling)
    BY <2>1 DEF SpiralInv, TypeInv
  <2> QED BY <2>1, <2>2, SpiralInvStays
<1> QED BY <1>1, <1>2, <1>3, SpiralInvStep, SpiralInvTurn DEF Next, Done

THEOREM SpiralInvariance == Spec => []SpiralInv
BY SpiralInvInit, SpiralInvNext, PTL DEF Spec

-----------------------------------------------------------------------------
(* The spiral's variables agree, for an image of any size.                 *)
THEOREM WalkInvariance == Spec => []WalkInv
<1>1. SpiralInv => WalkInv
  BY DEF SpiralInv, WalkInv
<1> QED BY <1>1, SpiralInvariance, PTL

(* The spiral is never shut in: its loop ends.                             *)
THEOREM SpiralGoesOn == Spec => []NeverShutIn
<1>1. SpiralInv => NeverShutIn
  <2> SUFFICES ASSUME SpiralInv, Spiralling
               PROVE  \/ IsFree(NextStep(direction))
                      \/ IsFree(NextStep(NextDirection(direction)))
    BY DEF NeverShutIn
  <2>1. TypeInv /\ hasNotBeenVisited \subseteq Tile
    BY DEF SpiralInv, Spiralling, WalkInv
  <2>2. \A t : IsFree(t) <=> t \in hasNotBeenVisited
    BY <2>1, FreeTiles
  <2>3. CASE direction = "EAST"
    BY <2>2, <2>3, EastOrSouth DEF NextStep, NextDirection
  <2>4. CASE direction = "SOUTH"
    BY <2>2, <2>4, SouthOrWest DEF NextStep, NextDirection
  <2>5. CASE direction = "WEST"
    BY <2>2, <2>5, WestOrNorth DEF NextStep, NextDirection
  <2>6. CASE direction = "NORTH"
    BY <2>2, <2>6, NorthOrEast DEF NextStep, NextDirection
  <2> QED BY <2>1, <2>3, <2>4, <2>5, <2>6 DEF TypeInv
<1> QED BY <1>1, SpiralInvariance, PTL

(* The spiral visits every tile once.                                      *)
THEOREM SpiralVisitsEachTileOnce == Spec => [](traversalType = "SPIRAL" => EachTileOnce)
<1>1. SpiralInv => (traversalType = "SPIRAL" => EachTileOnce)
  <2> SUFFICES ASSUME SpiralInv, traversalType = "SPIRAL", built
               PROVE  Len(traversal) = numTileRow * numTileCol /\ ToSet(traversal) = Tile
    BY DEF EachTileOnce
  <2>1. TypeInv /\ WalkInv /\ ~Spiralling
    BY DEF SpiralInv
  <2>2. /\ numTileRow * numTileCol \in Nat /\ step \in Nat
        /\ step >= numTileRow * numTileCol - 1
    BY <2>1 DEF TypeInv, Spiralling
  <2>3. /\ IsFiniteSet(hasNotBeenVisited)
        /\ Cardinality(hasNotBeenVisited) \in Nat
        /\ Cardinality(hasNotBeenVisited) = numTileRow * numTileCol - 1 - step
    BY FS_CardinalityType DEF SpiralInv
  <2>4. step = numTileRow * numTileCol - 1 /\ hasNotBeenVisited = {}
    <3>1. step = numTileRow * numTileCol - 1 /\ Cardinality(hasNotBeenVisited) = 0
      BY <2>2, <2>3
    <3> QED BY <2>3, <3>1, FS_EmptySet
  <2>5. ToSet(traversal) \subseteq Tile /\ Len(traversal) \in Nat
    BY <2>1 DEF TypeInv, ToSet
  <2> QED BY <2>1, <2>2, <2>4, <2>5 DEF WalkInv
<1> QED BY <1>1, SpiralInvariance, PTL

-----------------------------------------------------------------------------
(* The tile after the last one is a neighbour of it, ...                   *)
LEMMA SpiralStepNeighbours ==
  ASSUME SpiralInv, SpiralStep, GoesToNeighbours
  PROVE  GoesToNeighbours'
<1>1. /\ traversalType = "SPIRAL" /\ TypeInv /\ WalkInv
      /\ traversalType' = traversalType
      /\ traversal' = Append(traversal, NextStep(direction))
  BY DEF SpiralInv, SpiralStep, Spiralling, image
<1>2. Neighbours(<<row, col>>, NextStep(direction))
  BY <1>1 DEF Neighbours, NextStep, TypeInv
<1>3. /\ Len(traversal) \in Nat \ {0}
      /\ traversal[Len(traversal)] = <<row, col>>
      /\ Len(traversal') = Len(traversal) + 1
      /\ \A i \in 1..Len(traversal) : traversal'[i] = traversal[i]
      /\ traversal'[Len(traversal) + 1] = NextStep(direction)
  BY <1>1 DEF TypeInv, WalkInv, Last
<1>4. ASSUME NEW i \in 1..Len(traversal') - 1
      PROVE  Neighbours(traversal'[i], traversal'[i + 1])
  <2>1. CASE i = Len(traversal)
    BY <1>2, <1>3, <2>1
  <2>2. CASE i # Len(traversal)
    <3>1. i \in 1..Len(traversal) - 1 /\ i \in 1..Len(traversal) /\ i + 1 \in 1..Len(traversal)
      BY <1>3, <2>2
    <3>2. Neighbours(traversal[i], traversal[i + 1])
      BY <1>1, <3>1 DEF GoesToNeighbours
    <3> QED BY <1>3, <3>1, <3>2
  <2> QED BY <2>1, <2>2
<1> QED BY <1>4 DEF GoesToNeighbours, Neighbours

(* ... and the other steps leave the traversal alone: the spiral goes from *)
(* each tile to a neighbour, in an image of any size.                      *)
THEOREM SpiralGoesToNeighbours == Spec => [](traversalType = "SPIRAL" => GoesToNeighbours)
<1>1. Init => (traversalType = "SPIRAL" => GoesToNeighbours)
  <2> SUFFICES ASSUME Init, traversalType = "SPIRAL" PROVE GoesToNeighbours
    OBVIOUS
  <2>1. 1..Len(traversal) - 1 = {}
    BY DEF Init
  <2> QED BY <2>1 DEF GoesToNeighbours
<1>2. /\ SpiralInv /\ (traversalType = "SPIRAL" => GoesToNeighbours)
      /\ [Next]_vars
      => (traversalType = "SPIRAL" => GoesToNeighbours)'
  <2> SUFFICES ASSUME SpiralInv, traversalType = "SPIRAL" => GoesToNeighbours,
                      [Next]_vars, traversalType' = "SPIRAL"
               PROVE  GoesToNeighbours'
    OBVIOUS
  <2>1. traversalType' = traversalType
    BY DEF Next, Algorithm, SpiralStep, SpiralTurn, SpiralEnd, Done, vars, image
  <2>2. CASE SpiralStep
    BY <2>1, <2>2, SpiralStepNeighbours
  <2>3. CASE Algorithm
    BY <2>1, <2>3 DEF Algorithm
  <2>4. CASE SpiralTurn \/ SpiralEnd \/ UNCHANGED vars
    <3>1. traversal' = traversal
      BY <2>4 DEF SpiralTurn, SpiralEnd, vars
    <3> QED BY <2>1, <3>1 DEF GoesToNeighbours, Neighbours
  <2> QED BY <2>2, <2>3, <2>4 DEF Next, Done
<1> QED BY <1>1, <1>2, SpiralInvariance, PTL DEF Spec

-----------------------------------------------------------------------------
(* The orders without a walk.                                               *)

(* A sequence that has every tile, and none twice, is as long as there are  *)
(* tiles.                                                                   *)
LEMMA OnceEachTile ==
  ASSUME numTileRow \in Nat \ {0}, numTileCol \in Nat \ {0},
         NEW s \in Seq(Tile), NoRepeat(s), \A t \in Tile : t \in Elems(s)
  PROVE  Len(s) = numTileRow * numTileCol /\ ToSet(s) = Tile
<1> DEFINE R == 0..numTileRow - 1
           C == 0..numTileCol - 1
<1>1. /\ IsFiniteSet(R) /\ Cardinality(R) = numTileRow
      /\ IsFiniteSet(C) /\ Cardinality(C) = numTileCol
  BY IntervalCount
<1>2. IsFiniteSet(Tile) /\ Cardinality(Tile) = numTileRow * numTileCol
  <2> HIDE DEF R, C
  <2>1. IsFiniteSet(R \X C) /\ Cardinality(R \X C) = Cardinality(R) * Cardinality(C)
    BY <1>1, FS_Product
  <2> QED
    BY <1>1, <2>1 DEF Tile, R, C
<1> DEFINE n == Len(s)
<1>3. n \in Nat /\ s \in [1..n -> Tile] /\ DOMAIN s = 1..n
  OBVIOUS
<1>4. IsFiniteSet(1..n) /\ Cardinality(1..n) = n
  BY <1>3, FS_Interval
<1>5. s \in Surjection(1..n, Tile) /\ s \in Injection(1..n, Tile)
  BY <1>3 DEF Surjection, Injection, IsInjective, NoRepeat, Elems
<1>6. Cardinality(Tile) = Cardinality(1..n)
  BY <1>4, <1>5, FS_Surjection
<1>7. ToSet(s) = Tile
  BY <1>3 DEF ToSet, Elems
<1> QED
  BY <1>2, <1>4, <1>6, <1>7

-----------------------------------------------------------------------------
(* The lines and the diagonals that the loops append.                       *)

Sized == numTileRow \in Nat \ {0} /\ numTileCol \in Nat \ {0}

(* A line has the tiles of its row, in either direction.                    *)
LEMMA LineTiles ==
  ASSUME Sized, NEW r \in 0..numTileRow - 1, NEW forward \in BOOLEAN,
         NEW s, s = [k \in 1..numTileCol |-> <<r, IF forward THEN k - 1 ELSE numTileCol - k>>]
  PROVE  /\ s \in Seq(Tile) /\ Len(s) = numTileCol /\ NoRepeat(s)
         /\ Elems(s) = {t \in Tile : t[1] = r}
<1>1. \A k \in 1..numTileCol :
        /\ (IF forward THEN k - 1 ELSE numTileCol - k) \in 0..numTileCol - 1
        /\ s[k] = <<r, IF forward THEN k - 1 ELSE numTileCol - k>>
  BY DEF Sized
<1>2. \A k \in 1..numTileCol : s[k] \in Tile /\ s[k][1] = r
  BY <1>1 DEF Tile
<1>3. s \in [1..numTileCol -> Tile] /\ numTileCol \in Nat
  BY <1>2 DEF Sized
<1>4. s \in Seq(Tile) /\ Len(s) = numTileCol
  BY <1>3
<1>5. ASSUME NEW i \in 1..numTileCol, NEW j \in 1..numTileCol, s[i] = s[j]
      PROVE  i = j
  <2>1. (IF forward THEN i - 1 ELSE numTileCol - i) = (IF forward THEN j - 1 ELSE numTileCol - j)
    BY <1>1, <1>5
  <2> QED
    BY <1>3, <2>1
<1>6. ASSUME NEW t \in Tile, t[1] = r
      PROVE  \E k \in 1..numTileCol : s[k] = t
  <2> DEFINE c == t[2]
             k == IF forward THEN c + 1 ELSE numTileCol - c
  <2>1. t = <<r, c>> /\ c \in 0..numTileCol - 1
    BY <1>6 DEF Tile
  <2> HIDE DEF c
  <2>2. k \in 1..numTileCol /\ (IF forward THEN k - 1 ELSE numTileCol - k) = c
    BY <1>3, <2>1
  <2> HIDE DEF k
  <2> QED
    BY <1>1, <2>1, <2>2
<1>7. Elems(s) = {t \in Tile : t[1] = r}
  <2>1. ASSUME NEW t \in Elems(s)  PROVE t \in Tile /\ t[1] = r
    BY <1>2, <1>4 DEF Elems
  <2>2. ASSUME NEW t \in Tile, t[1] = r  PROVE t \in Elems(s)
    BY <1>4, <1>6, <2>2 DEF Elems
  <2> QED
    BY <2>1, <2>2
<1> QED
  BY <1>4, <1>5, <1>7 DEF NoRepeat

LEMMA LineIs ==
  ASSUME Sized, NEW r \in 0..numTileRow - 1
  PROVE  /\ Line(r, 0, numTileCol - 1) = [k \in 1..numTileCol |-> <<r, k - 1>>]
         /\ SnakeLine(r, 0, numTileCol - 1)
              = [k \in 1..numTileCol |-> <<r, IF r % 2 = 0 THEN k - 1 ELSE numTileCol - k>>]
<1> DEFINE l == Line(r, 0, numTileCol - 1)
<1>1. l = [k \in 1..numTileCol |-> <<r, k - 1>>]
  <2>1. (numTileCol - 1) - 0 + 1 = numTileCol
    BY DEF Sized
  <2>2. \A k \in 1..numTileCol : 0 + k - 1 = k - 1
    OBVIOUS
  <2> QED
    BY <2>1, <2>2 DEF Line
<1>2. Len(l) = numTileCol /\ \A k \in 1..numTileCol : l[k] = <<r, k - 1>>
  BY <1>1 DEF Sized
<1> HIDE DEF l
<1>3. Reverse(l) = [k \in 1..numTileCol |-> <<r, numTileCol - k>>]
  <2>1. \A k \in 1..numTileCol :
          numTileCol - k + 1 \in 1..numTileCol /\ numTileCol - k + 1 - 1 = numTileCol - k
    BY DEF Sized
  <2>2. \A k \in 1..numTileCol : l[Len(l) - k + 1] = <<r, numTileCol - k>>
    BY <1>2, <2>1
  <2> QED
    BY <1>2, <2>2 DEF Reverse
<1>4. SnakeLine(r, 0, numTileCol - 1) = IF r % 2 = 0 THEN l ELSE Reverse(l)
  BY DEF SnakeLine, l
<1> QED
  BY <1>1, <1>3, <1>4 DEF l

(* A diagonal from the first column or from the last row has all the tiles  *)
(* whose row and column have the same sum.                                  *)
LEMMA DiagonalTiles ==
  ASSUME Sized, NEW r \in 0..numTileRow - 1, NEW c \in 0..numTileCol - 1,
         c = 0 \/ r = numTileRow - 1
  PROVE  LET s == Diagonal(r, c)
         IN  /\ s \in Seq(Tile) /\ NoRepeat(s)
             /\ Elems(s) = {t \in Tile : t[1] + t[2] = r + c}
<1> DEFINE n == Min({r + 1, numTileCol - c})
           s == Diagonal(r, c)
<1>1. /\ numTileRow \in Nat \ {0} /\ numTileCol \in Nat \ {0}
      /\ r \in Nat /\ r < numTileRow /\ c \in Nat /\ c < numTileCol
  BY DEF Sized
<1>2. n \in Nat /\ n <= r + 1 /\ n <= numTileCol - c /\ (n = r + 1 \/ n = numTileCol - c)
  <2>1. {r + 1, numTileCol - c} \in SUBSET Nat /\ {r + 1, numTileCol - c} # {}
    BY <1>1
  <2>2. \E m \in {r + 1, numTileCol - c} : \A k \in {r + 1, numTileCol - c} : m <= k
    BY <2>1, LeastNumber
  <2>3. n \in {r + 1, numTileCol - c} /\ \A k \in {r + 1, numTileCol - c} : n <= k
    BY <2>2 DEF Min
  <2> HIDE DEF n
  <2> QED
    BY <2>1, <2>3
<1>3. s = [k \in 1..n |-> <<r - k + 1, c + k - 1>>]
  BY DEF Diagonal
<1> HIDE DEF n, s
<1>4. \A k \in 1..n : /\ s[k] = <<r - k + 1, c + k - 1>>
                      /\ r - k + 1 \in 0..numTileRow - 1 /\ c + k - 1 \in 0..numTileCol - 1
                      /\ (r - k + 1) + (c + k - 1) = r + c
  BY <1>1, <1>2, <1>3
<1>5. ASSUME NEW k \in 1..n  PROVE s[k] \in Tile /\ s[k][1] + s[k][2] = r + c
  <2>1. s[k][1] = r - k + 1 /\ s[k][2] = c + k - 1
    BY <1>4
  <2>2. s[k][1] + s[k][2] = r + c
    BY <1>4, <2>1
  <2> QED
    BY <1>4, <2>2 DEF Tile
<1>6. s \in [1..n -> Tile]
  BY <1>3, <1>5
<1>7. s \in Seq(Tile) /\ Len(s) = n
  BY <1>2, <1>6
<1>8. ASSUME NEW i \in 1..n, NEW j \in 1..n, s[i] = s[j]  PROVE i = j
  <2>1. c + i - 1 = c + j - 1
    BY <1>4, <1>8
  <2> QED
    BY <1>1, <1>2, <2>1
<1>9. ASSUME NEW t \in Tile, t[1] + t[2] = r + c  PROVE \E k \in 1..n : s[k] = t
  <2> DEFINE a == t[1]
             b == t[2]
             k == b - c + 1
  <2>1. t = <<a, b>> /\ a \in 0..numTileRow - 1 /\ b \in 0..numTileCol - 1 /\ a + b = r + c
    BY <1>9 DEF Tile
  <2> HIDE DEF a, b
  <2>2. k \in 1..n /\ r - k + 1 = a /\ c + k - 1 = b
    BY <1>1, <1>2, <2>1
  <2> HIDE DEF k
  <2> QED
    BY <1>4, <2>1, <2>2
<1>10. Elems(s) = {t \in Tile : t[1] + t[2] = r + c}
  <2>1. ASSUME NEW t \in Elems(s)  PROVE t \in Tile /\ t[1] + t[2] = r + c
    BY <1>5, <1>7 DEF Elems
  <2>2. ASSUME NEW t \in Tile, t[1] + t[2] = r + c  PROVE t \in Elems(s)
    BY <1>7, <1>9, <2>2 DEF Elems
  <2> QED
    BY <2>1, <2>2
<1> QED
  BY <1>7, <1>8, <1>10 DEF NoRepeat, s

-----------------------------------------------------------------------------
(* The orders that are loops over lines: naive, snake and diagonal.         *)

(* Lines that have the tiles of a row each make up the image.               *)
LEMMA RowsMakeImage ==
  ASSUME Sized, NEW seqs, DOMAIN seqs = 1..numTileRow, seqs = [k \in 1..numTileRow |-> seqs[k]],
         \A k \in 1..numTileRow : /\ seqs[k] \in Seq(Tile) /\ NoRepeat(seqs[k])
                                  /\ Elems(seqs[k]) = {t \in Tile : t[1] = k - 1}
  PROVE  /\ seqs \in Seq(Seq(Tile)) /\ Len(seqs) = numTileRow
         /\ FlattenSeq(seqs) \in Seq(Tile)
         /\ Len(FlattenSeq(seqs)) = numTileRow * numTileCol /\ ToSet(FlattenSeq(seqs)) = Tile
<1>1. seqs \in [1..numTileRow -> Seq(Tile)] /\ numTileRow \in Nat
  BY DEF Sized
<1>2. seqs \in Seq(Seq(Tile)) /\ Len(seqs) = numTileRow
  BY <1>1
<1>3. \A k, l \in 1..numTileRow : k # l => Elems(seqs[k]) \intersect Elems(seqs[l]) = {}
  BY <1>1
<1>4. /\ FlattenSeq(seqs) \in Seq(Tile) /\ NoRepeat(FlattenSeq(seqs))
      /\ \A x : x \in Elems(FlattenSeq(seqs)) <=> \E k \in 1..Len(seqs) : x \in Elems(seqs[k])
  BY <1>2, <1>3, FlattenOnce
<1>5. ASSUME NEW t \in Tile  PROVE t \in Elems(FlattenSeq(seqs))
  <2>1. t[1] + 1 \in 1..numTileRow /\ (t[1] + 1) - 1 = t[1]
    BY DEF Tile, Sized
  <2>2. t \in Elems(seqs[t[1] + 1])
    BY <2>1
  <2> QED
    BY <1>2, <1>4, <2>1, <2>2
<1> QED
  BY <1>2, <1>4, <1>5, OnceEachTile DEF Sized

LEMMA NaiveIsGood ==
  ASSUME Sized
  PROVE  Len(Naive) = numTileRow * numTileCol /\ ToSet(Naive) = Tile
<1> DEFINE seqs == [k \in 1..numTileRow |-> Line(k - 1, 0, numTileCol - 1)]
<1>1. ASSUME NEW k \in 1..numTileRow
      PROVE  /\ seqs[k] \in Seq(Tile) /\ NoRepeat(seqs[k])
             /\ Elems(seqs[k]) = {t \in Tile : t[1] = k - 1}
  <2>1. k - 1 \in 0..numTileRow - 1
    BY DEF Sized
  <2>2. seqs[k] = [j \in 1..numTileCol |-> <<k - 1, IF TRUE THEN j - 1 ELSE numTileCol - j>>]
    BY <2>1, LineIs
  <2> HIDE DEF seqs
  <2> QED
    BY <2>1, <2>2, LineTiles
<1>2. DOMAIN seqs = 1..numTileRow /\ seqs = [k \in 1..numTileRow |-> seqs[k]]
  OBVIOUS
<1>3. Naive = FlattenSeq(seqs)
  BY DEF Naive
<1> HIDE DEF seqs
<1> QED
  BY <1>1, <1>2, <1>3, RowsMakeImage

(* The snake's lines.                                                       *)
SnakeLines == [k \in 1..numTileRow |-> SnakeLine(k - 1, 0, numTileCol - 1)]

LEMMA SnakeLinesAre ==
  ASSUME Sized, NEW k \in 1..numTileRow
  PROVE  /\ SnakeLines[k] \in Seq(Tile) /\ NoRepeat(SnakeLines[k])
         /\ Len(SnakeLines[k]) = numTileCol
         /\ Elems(SnakeLines[k]) = {t \in Tile : t[1] = k - 1}
         /\ \A j \in 1..numTileCol :
              SnakeLines[k][j] = <<k - 1, IF (k - 1) % 2 = 0 THEN j - 1 ELSE numTileCol - j>>
<1>1. k - 1 \in 0..numTileRow - 1
  BY DEF Sized
<1>2. SnakeLines[k]
        = [j \in 1..numTileCol |-> <<k - 1, IF (k - 1) % 2 = 0 THEN j - 1 ELSE numTileCol - j>>]
  BY <1>1, LineIs DEF SnakeLines
<1>3. PICK forward \in BOOLEAN : forward <=> (k - 1) % 2 = 0
  OBVIOUS
<1>4. SnakeLines[k] = [j \in 1..numTileCol |-> <<k - 1, IF forward THEN j - 1 ELSE numTileCol - j>>]
  BY <1>2, <1>3
<1> QED
  BY <1>1, <1>2, <1>4, LineTiles

LEMMA SnakeIsGood ==
  ASSUME Sized
  PROVE  /\ Len(Snake) = numTileRow * numTileCol /\ ToSet(Snake) = Tile
         /\ \A i \in 1..Len(Snake) - 1 : Neighbours(Snake[i], Snake[i + 1])
<1>1. DOMAIN SnakeLines = 1..numTileRow /\ SnakeLines = [k \in 1..numTileRow |-> SnakeLines[k]]
  BY DEF SnakeLines
<1>2. Snake = FlattenSeq(SnakeLines)
  BY DEF Snake, SnakeLines
<1>3. /\ SnakeLines \in Seq(Seq(Tile)) /\ Len(SnakeLines) = numTileRow
      /\ FlattenSeq(SnakeLines) \in Seq(Tile)
      /\ Len(FlattenSeq(SnakeLines)) = numTileRow * numTileCol
      /\ ToSet(FlattenSeq(SnakeLines)) = Tile
  BY <1>1, SnakeLinesAre, RowsMakeImage
<1>4. PICK off : Parts(SnakeLines, numTileRow, Snake, off)
  BY <1>2, <1>3, FlattenSeqParts
<1> DEFINE R == numTileRow
           C == numTileCol
           n == Len(Snake)
           At(k, j) == <<k - 1, IF (k - 1) % 2 = 0 THEN j - 1 ELSE C - j>>
<1>5. R \in Nat \ {0} /\ C \in Nat \ {0} /\ n \in Nat
  BY <1>2, <1>3 DEF Sized
<1>6. /\ off[0] = 0 /\ off[R] = n
      /\ \A k \in 1..R : /\ off[k] = off[k - 1] + C /\ off[k - 1] \in Nat
                         /\ \A j \in 1..C : Snake[off[k - 1] + j] = At(k, j)
  <2>1. /\ off \in [0..R -> Nat] /\ off[0] = 0 /\ off[R] = n
        /\ \A k \in 1..R : /\ off[k] = off[k - 1] + Len(SnakeLines[k])
                           /\ \A j \in 1..Len(SnakeLines[k]) :
                                Snake[off[k - 1] + j] = SnakeLines[k][j]
    BY <1>4 DEF Parts
  <2>2. \A k \in 1..R : k - 1 \in 0..R
    BY <1>5
  <2>3. ASSUME NEW k \in 1..R
        PROVE  Len(SnakeLines[k]) = C /\ \A j \in 1..C : SnakeLines[k][j] = At(k, j)
    BY SnakeLinesAre
  <2> QED
    BY <2>1, <2>2, <2>3
<1>7. ASSUME NEW i \in 1..n - 1
      PROVE  Neighbours(Snake[i], Snake[i + 1])
  <2>1. i \in 1..n /\ i + 1 \in 1..n /\ i < n
    BY <1>5
  <2>2. PICK k \in 1..R, j \in 1..C : i = off[k - 1] + j
    <3>1. \E k \in 1..Len(SnakeLines) : \E j \in 1..Len(SnakeLines[k]) :
            i = off[k - 1] + j /\ Snake[i] = SnakeLines[k][j]
      <4>1. /\ Parts(SnakeLines, Len(SnakeLines), Snake, off) /\ Len(Snake) \in Nat
            /\ i \in 1..Len(Snake) /\ SnakeLines \in Seq(Seq(Tile))
        BY <1>3, <1>4, <1>5, <2>1
      <4>2. PICK seqs, s, S : seqs = SnakeLines /\ s = Snake /\ S = Tile
        OBVIOUS
      <4>3. /\ seqs \in Seq(Seq(S)) /\ Parts(seqs, Len(seqs), s, off)
            /\ Len(s) \in Nat /\ i \in 1..Len(s)
        BY <4>1, <4>2
      <4>4. \E k \in 1..Len(seqs) : \E j \in 1..Len(seqs[k]) : i = off[k - 1] + j /\ s[i] = seqs[k][j]
        BY <4>3, PartOf
      <4> QED
        BY <4>2, <4>4
    <3>2. PICK k \in 1..R : \E j \in 1..Len(SnakeLines[k]) : i = off[k - 1] + j
      BY <1>3, <3>1
    <3>3. Len(SnakeLines[k]) = C
      BY SnakeLinesAre
    <3> QED
      BY <3>2, <3>3
  <2>3. Snake[i] = At(k, j) /\ off[k] = off[k - 1] + C /\ off[k - 1] \in Nat
    BY <1>6, <2>2
  <2>4. CASE j < C
    <3>1. j + 1 \in 1..C /\ i + 1 = off[k - 1] + (j + 1)
      <4>1. PICK a \in Nat : a = off[k - 1]
        BY <2>3
      <4>2. i = a + j
        BY <2>2, <4>1
      <4>3. i + 1 = a + (j + 1) /\ j + 1 \in 1..C
        BY <1>5, <2>4, <4>2
      <4> QED
        BY <4>1, <4>3
    <3>2. Snake[i + 1] = At(k, j + 1)
      BY <1>6, <3>1
    <3>3. (C - j) - (C - (j + 1)) = 1 /\ (j - 1) - ((j + 1) - 1) = -1
      BY <1>5
    <3> QED
      BY <2>3, <3>2, <3>3 DEF Neighbours
  <2>5. CASE j = C
    <3>1. i = off[k]
      BY <2>2, <2>3, <2>5
    <3>2. k # R
      BY <1>6, <2>1, <3>1
    <3>3. k + 1 \in 1..R /\ (k + 1) - 1 = k /\ 1 \in 1..C
      BY <1>5, <3>2
    <3>4. Snake[i + 1] = At(k + 1, 1)
      BY <1>6, <3>1, <3>3
    <3>5. ((k + 1) - 1) % 2 = 0 <=> (k - 1) % 2 # 0
      <4>1. k \in Nat /\ k - 1 \in Nat
        OBVIOUS
      <4>2. k % 2 = 0 <=> (k - 1) % 2 # 0
        BY <4>1
      <4> QED
        BY <3>3, <4>2
    <3>6. At(k, j)[2] = At(k + 1, 1)[2]
      BY <1>5, <2>5, <3>5
    <3>7. At(k, j)[1] - At(k + 1, 1)[1] = -1
      BY <3>3
    <3> QED
      BY <2>3, <3>4, <3>6, <3>7 DEF Neighbours
  <2> QED
    BY <1>5, <2>4, <2>5
<1> QED
  BY <1>2, <1>3, <1>7

LEMMA DiagonalsAreGood ==
  ASSUME Sized
  PROVE  Len(Diagonals) = numTileRow * numTileCol /\ ToSet(Diagonals) = Tile
<1> DEFINE R == numTileRow
           C == numTileCol
           left == [k \in 1..R |-> Diagonal(k - 1, 0)]
           below == [k \in 1..C - 1 |-> Diagonal(R - 1, k)]
<1>1. R \in Nat \ {0} /\ C \in Nat \ {0} /\ C - 1 \in Nat
  BY DEF Sized
<1>2. ASSUME NEW k \in 1..R
      PROVE  /\ left[k] \in Seq(Tile) /\ NoRepeat(left[k])
             /\ Elems(left[k]) = {t \in Tile : t[1] + t[2] = k - 1}
  <2>1. k - 1 \in 0..R - 1 /\ 0 \in 0..C - 1 /\ (k - 1) + 0 = k - 1
    BY <1>1
  <2>2. left[k] = Diagonal(k - 1, 0)
    OBVIOUS
  <2> HIDE DEF left
  <2> QED
    BY <2>1, <2>2, DiagonalTiles
<1>3. ASSUME NEW k \in 1..C - 1
      PROVE  /\ below[k] \in Seq(Tile) /\ NoRepeat(below[k])
             /\ Elems(below[k]) = {t \in Tile : t[1] + t[2] = (R - 1) + k}
  <2>1. R - 1 \in 0..R - 1 /\ k \in 0..C - 1
    BY <1>1
  <2>2. below[k] = Diagonal(R - 1, k)
    OBVIOUS
  <2> HIDE DEF below
  <2> QED
    BY <2>1, <2>2, DiagonalTiles
<1>4. /\ left \in Seq(Seq(Tile)) /\ Len(left) = R
      /\ below \in Seq(Seq(Tile)) /\ Len(below) = C - 1
  <2>1. left \in [1..R -> Seq(Tile)] /\ below \in [1..C - 1 -> Seq(Tile)]
    BY <1>2, <1>3
  <2> HIDE DEF left, below
  <2> QED
    BY <1>1, <2>1
<1>5. Diagonals = FlattenSeq(left) \o FlattenSeq(below)
  BY DEF Diagonals
<1> HIDE DEF left, below
<1>6. ASSUME NEW k \in 1..R, NEW l \in 1..R, k # l
      PROVE  Elems(left[k]) \intersect Elems(left[l]) = {}
  BY <1>2, <1>6
<1>7. ASSUME NEW k \in 1..C - 1, NEW l \in 1..C - 1, k # l
      PROVE  Elems(below[k]) \intersect Elems(below[l]) = {}
  <2>1. ASSUME NEW t, t \in Elems(below[k]), t \in Elems(below[l])  PROVE FALSE
    <3>1. (R - 1) + k = (R - 1) + l
      BY <1>3, <2>1
    <3> QED
      BY <1>1, <1>7, <3>1
  <2> QED
    BY <2>1
<1> DEFINE s == FlattenSeq(left)
           u == FlattenSeq(below)
<1>8. /\ s \in Seq(Tile) /\ NoRepeat(s)
      /\ \A x : x \in Elems(s) <=> \E k \in 1..R : x \in Elems(left[k])
  BY <1>2, <1>4, <1>6, FlattenOnce
<1>9. /\ u \in Seq(Tile) /\ NoRepeat(u)
      /\ \A x : x \in Elems(u) <=> \E k \in 1..C - 1 : x \in Elems(below[k])
  BY <1>3, <1>4, <1>7, FlattenOnce
<1> HIDE DEF s, u
<1>10. ASSUME NEW t \in Tile
       PROVE  /\ t[1] \in 0..R - 1 /\ t[2] \in 0..C - 1
              /\ t \in Elems(s) <=> t[1] + t[2] <= R - 1
              /\ t \in Elems(u) <=> t[1] + t[2] > R - 1
  <2>1. t[1] \in 0..R - 1 /\ t[2] \in 0..C - 1
    BY DEF Tile
  <2> DEFINE d == t[1] + t[2]
  <2>2. d \in 0..(R - 1) + (C - 1)
    BY <1>1, <2>1
  <2>3. \A k \in 1..R : t \in Elems(left[k]) <=> d = k - 1
    BY <1>2
  <2>4. \A k \in 1..C - 1 : t \in Elems(below[k]) <=> d = (R - 1) + k
    BY <1>3
  <2> HIDE DEF d
  <2>5. t \in Elems(s) <=> d <= R - 1
    <3>1. ASSUME d <= R - 1  PROVE d + 1 \in 1..R /\ d = (d + 1) - 1
      BY <1>1, <2>2, <3>1
    <3> QED
      BY <1>1, <1>8, <2>2, <2>3, <3>1
  <2>6. t \in Elems(u) <=> d > R - 1
    <3>1. ASSUME d > R - 1  PROVE d - (R - 1) \in 1..C - 1 /\ d = (R - 1) + (d - (R - 1))
      BY <1>1, <2>2, <3>1
    <3>2. ASSUME NEW k \in 1..C - 1, d = (R - 1) + k  PROVE d > R - 1
      BY <1>1, <3>2
    <3> QED
      BY <1>9, <2>4, <3>1, <3>2
  <2> QED
    BY <2>1, <2>5, <2>6 DEF d
<1>11. Elems(s) \intersect Elems(u) = {}
  <2>1. ASSUME NEW x \in Elems(s), x \in Elems(u)  PROVE FALSE
    <3>1. x \in Tile
      BY <1>8 DEF Elems
    <3>2. x[1] + x[2] \in Int /\ R - 1 \in Int
      BY <1>1, <1>10, <3>1
    <3>3. x[1] + x[2] <= R - 1 /\ x[1] + x[2] > R - 1
      BY <1>10, <2>1, <3>1
    <3> QED
      BY <3>2, <3>3
  <2> QED
    BY <2>1
<1>12. /\ s \o u \in Seq(Tile) /\ NoRepeat(s \o u)
       /\ Elems(s \o u) = Elems(s) \union Elems(u)
  BY <1>8, <1>9, <1>11, ConcatOnce
<1>13. \A t \in Tile : t \in Elems(s \o u)
  <2>1. ASSUME NEW t \in Tile  PROVE t \in Elems(s) \/ t \in Elems(u)
    <3>1. t[1] + t[2] \in Int /\ R - 1 \in Int
      BY <1>1, <1>10
    <3>2. t[1] + t[2] <= R - 1 \/ t[1] + t[2] > R - 1
      BY <3>1
    <3> QED
      BY <1>10, <3>2
  <2> QED
    BY <1>12, <2>1
<1> QED
  BY <1>5, <1>12, <1>13, OnceEachTile DEF Sized, s, u

-----------------------------------------------------------------------------
(* The Hilbert curve.                                                       *)

(* The sides up to the n-th.                                                *)
Sides(n, f) == f = [i \in 0..n |-> IF i = 0 THEN 1 ELSE 2 * f[i - 1]]

LEMMA SidesExist ==
  ASSUME NEW n \in Nat
  PROVE  \E f : Sides(n, f)
<1> DEFINE T == {m \in Nat : ~\E f : Sides(m, f)}
<1>1. SUFFICES ASSUME T # {}  PROVE FALSE
  BY <1>1
<1>2. PICK m \in T : \A k \in T : m <= k
  <2> T \in SUBSET Nat
    OBVIOUS
  <2> QED
    BY <1>1, LeastNumber
<1>3. m \in Nat /\ ~\E f : Sides(m, f)
  OBVIOUS
<1>4. m # 0
  <2> DEFINE g == [i \in 0..0 |-> 1]
  <2>1. Sides(0, g)
    <3>1. \A i \in 0..0 : i = 0
      OBVIOUS
    <3> QED
      BY <3>1 DEF Sides
  <2> QED
    BY <1>3, <2>1
<1>5. m - 1 \in Nat /\ m - 1 \notin T
  BY <1>2, <1>3, <1>4
<1>6. PICK f : Sides(m - 1, f)
  BY <1>5
<1> HIDE DEF T
<1> DEFINE g == [i \in 0..m |-> IF i = m THEN 2 * f[m - 1] ELSE f[i]]
<1>7. ASSUME NEW i \in 0..m  PROVE g[i] = IF i = 0 THEN 1 ELSE 2 * g[i - 1]
  <2>1. i # 0 => i - 1 \in 0..m /\ i - 1 # m
    BY <1>3
  <2>2. i # 0 => g[i - 1] = f[i - 1]
    BY <2>1
  <2>3. CASE i = m
    BY <1>4, <2>2, <2>3
  <2>4. CASE i # m
    <3>1. i \in 0..m - 1
      BY <1>3, <2>4
    <3>2. f[i] = IF i = 0 THEN 1 ELSE 2 * f[i - 1]
      BY <1>6, <3>1 DEF Sides
    <3>3. g[i] = f[i]
      BY <2>4
    <3> HIDE DEF g
    <3> QED
      BY <2>2, <3>2, <3>3
  <2> QED
    BY <2>3, <2>4
<1>8. g = [i \in 0..m |-> g[i]]
  OBVIOUS
<1> HIDE DEF g
<1> QED
  BY <1>3, <1>7, <1>8 DEF Sides

(* They are the same for any n.                                             *)
LEMMA SidesAgree ==
  ASSUME NEW m \in Nat, NEW n \in Nat, NEW f, NEW g, Sides(m, f), Sides(n, g),
         NEW i \in 0..m, i \in 0..n
  PROVE  f[i] = g[i]
<1> DEFINE T == {k \in Nat : k \in 0..m /\ k \in 0..n /\ f[k] # g[k]}
<1>1. SUFFICES ASSUME T # {}  PROVE FALSE
  OBVIOUS
<1>2. PICK k \in T : \A l \in T : k <= l
  <2> T \in SUBSET Nat
    OBVIOUS
  <2> QED
    BY <1>1, LeastNumber
<1>3. /\ f[k] = IF k = 0 THEN 1 ELSE 2 * f[k - 1]
      /\ g[k] = IF k = 0 THEN 1 ELSE 2 * g[k - 1]
  BY DEF Sides
<1>4. k # 0 => k - 1 \in Nat /\ k - 1 \in 0..m /\ k - 1 \in 0..n /\ ~(k <= k - 1)
  OBVIOUS
<1>5. k # 0 => f[k - 1] = g[k - 1]
  BY <1>2, <1>4
<1> QED
  BY <1>3, <1>5

LEMMA DoubledIs ==
  /\ Doubled[0] = 1
  /\ \A n \in Nat : Doubled[n + 1] = 2 * Doubled[n]
<1> DEFINE F(n) == CHOOSE f : Sides(n, f)
           D == [n \in Nat |-> F(n)[n]]
<1>1. \A n \in Nat : Sides(n, F(n))
  BY SidesExist
<1>2. ASSUME NEW n \in Nat, NEW i \in 0..n  PROVE F(n)[i] = D[i]
  <2>1. i \in Nat /\ i \in 0..i
    OBVIOUS
  <2> HIDE DEF F
  <2> QED
    BY <1>1, <2>1, SidesAgree
<1>3. ASSUME NEW n \in Nat  PROVE D[n] = IF n = 0 THEN 1 ELSE 2 * D[n - 1]
  <2>1. n \in 0..n /\ (n # 0 => n - 1 \in 0..n)
    OBVIOUS
  <2>2. F(n)[n] = IF n = 0 THEN 1 ELSE 2 * F(n)[n - 1]
    <3>1. F(n) = [i \in 0..n |-> IF i = 0 THEN 1 ELSE 2 * F(n)[i - 1]]
      BY <1>1 DEF Sides
    <3> HIDE DEF F, D
    <3> QED
      BY <2>1, <3>1
  <2> HIDE DEF F, D
  <2> QED
    BY <1>2, <2>1, <2>2
<1>4. D = [n \in Nat |-> D[n]]
  OBVIOUS
<1> HIDE DEF F, D
<1>5. D = [n \in Nat |-> IF n = 0 THEN 1 ELSE 2 * D[n - 1]]
  BY <1>3, <1>4
<1>6. Doubled = [n \in Nat |-> IF n = 0 THEN 1 ELSE 2 * Doubled[n - 1]]
  BY <1>5, Zenon DEF Doubled
<1>7. \A n \in Nat : n + 1 \in Nat /\ n + 1 # 0 /\ (n + 1) - 1 = n
  OBVIOUS
<1> QED
  BY <1>6, <1>7

(* A side is a number, and no smaller than the ones before it.              *)
LEMMA DoubledGrows ==
  ASSUME NEW n \in Nat
  PROVE  /\ Doubled[n] \in Nat \ {0}
         /\ \A m \in 0..n : Doubled[m] <= Doubled[n]
<1> DEFINE P(k) == /\ Doubled[k] \in Nat \ {0}
                   /\ \A m \in 0..k : Doubled[m] \in Nat /\ Doubled[m] <= Doubled[k]
           T == {k \in Nat : ~P(k)}
<1>1. SUFFICES ASSUME T # {}  PROVE FALSE
  OBVIOUS
<1>2. PICK k \in T : \A l \in T : k <= l
  <2> T \in SUBSET Nat
    OBVIOUS
  <2> QED
    BY <1>1, LeastNumber
<1>3. k # 0
  <2>1. P(0)
    BY DoubledIs
  <2> QED
    BY <2>1
<1>4. k - 1 \in Nat /\ k = (k - 1) + 1 /\ k - 1 \notin T
  BY <1>2, <1>3
<1>5. P(k - 1)
  BY <1>4
<1>6. Doubled[k] = 2 * Doubled[k - 1]
  BY <1>4, DoubledIs
<1>7. ASSUME NEW m \in 0..k  PROVE Doubled[m] \in Nat /\ Doubled[m] <= Doubled[k]
  <2>1. CASE m = k
    BY <1>5, <1>6, <2>1
  <2>2. CASE m # k
    <3>1. m \in 0..k - 1
      BY <1>4, <2>2
    <3>2. Doubled[m] \in Nat /\ Doubled[m] <= Doubled[k - 1]
      BY <1>5, <3>1
    <3> QED
      BY <1>5, <1>6, <3>2
  <2> QED
    BY <2>1, <2>2
<1> QED
  BY <1>5, <1>6, <1>7

-----------------------------------------------------------------------------
(* The tiles after each of d2xy's turns, up to k of them.                   *)
Turns(k, d, xy) ==
  xy = [i \in 0..k |-> IF i = 0 THEN <<0, 0>> ELSE Turn(xy[i - 1], Doubled[i - 1], d)]

LEMMA TurnsExist ==
  ASSUME NEW n \in Nat, NEW d
  PROVE  \E f : Turns(n, d, f)
<1> DEFINE T == {m \in Nat : ~\E f : Turns(m, d, f)}
<1>1. SUFFICES ASSUME T # {}  PROVE FALSE
  BY <1>1
<1>2. PICK m \in T : \A k \in T : m <= k
  <2> T \in SUBSET Nat
    OBVIOUS
  <2> QED
    BY <1>1, LeastNumber
<1>3. m \in Nat /\ ~\E f : Turns(m, d, f)
  OBVIOUS
<1>4. m # 0
  <2> DEFINE g == [i \in 0..0 |-> <<0, 0>>]
  <2>1. Turns(0, d, g)
    <3>1. \A i \in 0..0 : i = 0
      OBVIOUS
    <3> QED
      BY <3>1 DEF Turns
  <2> QED
    BY <1>3, <2>1
<1>5. m - 1 \in Nat /\ m - 1 \notin T
  BY <1>2, <1>3, <1>4
<1>6. PICK f : Turns(m - 1, d, f)
  BY <1>5
<1> HIDE DEF T
<1> DEFINE g == [i \in 0..m |-> IF i = m THEN Turn(f[m - 1], Doubled[m - 1], d) ELSE f[i]]
<1>7. ASSUME NEW i \in 0..m
      PROVE  g[i] = IF i = 0 THEN <<0, 0>> ELSE Turn(g[i - 1], Doubled[i - 1], d)
  <2>1. i # 0 => i - 1 \in 0..m /\ i - 1 # m
    BY <1>3
  <2>2. i # 0 => g[i - 1] = f[i - 1]
    BY <2>1
  <2>3. CASE i = m
    BY <1>4, <2>2, <2>3
  <2>4. CASE i # m
    <3>1. i \in 0..m - 1
      BY <1>3, <2>4
    <3>2. f[i] = IF i = 0 THEN <<0, 0>> ELSE Turn(f[i - 1], Doubled[i - 1], d)
      BY <1>6, <3>1 DEF Turns
    <3>3. g[i] = f[i]
      BY <2>4
    <3> HIDE DEF g
    <3> QED
      BY <2>2, <3>2, <3>3
  <2> QED
    BY <2>3, <2>4
<1>8. g = [i \in 0..m |-> g[i]]
  OBVIOUS
<1> HIDE DEF g
<1> QED
  BY <1>3, <1>7, <1>8 DEF Turns

LEMMA TurnsAgree ==
  ASSUME NEW m \in Nat, NEW n \in Nat, NEW d, NEW f, NEW g, Turns(m, d, f), Turns(n, d, g),
         NEW i \in 0..m, i \in 0..n
  PROVE  f[i] = g[i]
<1> DEFINE T == {k \in Nat : k \in 0..m /\ k \in 0..n /\ f[k] # g[k]}
<1>1. SUFFICES ASSUME T # {}  PROVE FALSE
  OBVIOUS
<1>2. PICK k \in T : \A l \in T : k <= l
  <2> T \in SUBSET Nat
    OBVIOUS
  <2> QED
    BY <1>1, LeastNumber
<1>3. /\ f[k] = IF k = 0 THEN <<0, 0>> ELSE Turn(f[k - 1], Doubled[k - 1], d)
      /\ g[k] = IF k = 0 THEN <<0, 0>> ELSE Turn(g[k - 1], Doubled[k - 1], d)
  BY DEF Turns
<1>4. k # 0 => k - 1 \in Nat /\ k - 1 \in 0..m /\ k - 1 \in 0..n /\ ~(k <= k - 1)
  OBVIOUS
<1>5. k # 0 => f[k - 1] = g[k - 1]
  BY <1>2, <1>4
<1> QED
  BY <1>3, <1>5

(* One more turn of the loop.                                               *)
LEMMA OneMoreTurn ==
  ASSUME NEW k \in Nat, NEW d
  PROVE  /\ D2XY(0, d) = <<0, 0>>
         /\ D2XY(k + 1, d) = Turn(D2XY(k, d), Doubled[k], d)
<1> DEFINE F(n) == CHOOSE f : Turns(n, d, f)
<1>1. ASSUME NEW n \in Nat  PROVE Turns(n, d, F(n)) /\ D2XY(n, d) = F(n)[n]
  <2>1. Turns(n, d, F(n))
    BY TurnsExist
  <2>2. D2XY(n, d) = F(n)[n]
    BY Zenon DEF D2XY, Turns
  <2> QED
    BY <2>1, <2>2
<1>2. 0 \in Nat /\ k + 1 \in Nat /\ 0 \in 0..0 /\ k + 1 \in 0..k + 1 /\ k \in 0..k /\ k \in 0..k + 1
  OBVIOUS
<1>3. PICK f, g, h : f = F(0) /\ g = F(k) /\ h = F(k + 1)
  OBVIOUS
<1>4. /\ Turns(0, d, f) /\ Turns(k, d, g) /\ Turns(k + 1, d, h)
      /\ D2XY(0, d) = f[0] /\ D2XY(k, d) = g[k] /\ D2XY(k + 1, d) = h[k + 1]
  BY <1>1, <1>2, <1>3
<1> HIDE DEF F
<1>5. h[k] = g[k]
  BY <1>2, <1>4, TurnsAgree
<1>6. f[0] = <<0, 0>>
  BY <1>2, <1>4 DEF Turns
<1>7. h[k + 1] = Turn(h[k], Doubled[k], d)
  <2>1. k + 1 # 0 /\ (k + 1) - 1 = k
    OBVIOUS
  <2>2. h[k + 1] = IF k + 1 = 0 THEN <<0, 0>> ELSE Turn(h[(k + 1) - 1], Doubled[(k + 1) - 1], d)
    BY <1>2, <1>4 DEF Turns
  <2> QED
    BY <2>1, <2>2
<1> QED
  BY <1>4, <1>5, <1>6, <1>7

-----------------------------------------------------------------------------
(* The curve c fills a square of n by n tiles in q steps, from the corner   *)
(* where it begins to the one below, from neighbour to neighbour.           *)
Square(n) == (0..n - 1) \X (0..n - 1)

Fills(c, q, n) ==
  /\ \A d \in 0..q - 1 : c[d] \in Square(n)
  /\ \A d, e \in 0..q - 1 : c[d] = c[e] => d = e
  /\ \A p \in Square(n) : \E d \in 0..q - 1 : c[d] = p
  /\ c[0] = <<0, 0>> /\ c[q - 1] = <<n - 1, 0>>
  /\ \A d \in 0..q - 2 : Neighbours(c[d], c[d + 1])

(* Where a quarter of the next square puts tile p.                          *)
Quarter(t, n, p) ==
  IF t = 0 THEN <<p[2], p[1]>>
  ELSE IF t = 1 THEN <<p[1], p[2] + n>>
  ELSE IF t = 2 THEN <<p[1] + n, p[2] + n>>
  ELSE <<(n - 1 - p[2]) + n, n - 1 - p[1]>>

(* The quarters of the next square have nothing in common, and fill it.     *)
LEMMA QuartersApart ==
  ASSUME NEW n \in Nat \ {0}
  PROVE  /\ \A t \in 0..3 : \A p \in Square(n) : Quarter(t, n, p) \in Square(2 * n)
         /\ \A t, u \in 0..3 : \A p, o \in Square(n) :
              Quarter(t, n, p) = Quarter(u, n, o) => t = u /\ p = o
         /\ \A s \in Square(2 * n) : \E t \in 0..3 : \E p \in Square(n) : s = Quarter(t, n, p)
         /\ \A t \in 0..3 : \A p, o \in Square(n) :
              Neighbours(p, o) => Neighbours(Quarter(t, n, p), Quarter(t, n, o))
<1>1. ASSUME NEW p \in Square(n)
      PROVE  \E x, y \in 0..n - 1 : p = <<x, y>>
  BY DEF Square
<1>2. ASSUME NEW t \in 0..3, NEW x \in 0..n - 1, NEW y \in 0..n - 1
      PROVE  Quarter(t, n, <<x, y>>) = IF t = 0 THEN <<y, x>> ELSE IF t = 1 THEN <<x, y + n>>
               ELSE IF t = 2 THEN <<x + n, y + n>> ELSE <<(n - 1 - y) + n, n - 1 - x>>
  BY DEF Quarter
<1>3. ASSUME NEW t \in 0..3, NEW p \in Square(n)
      PROVE  Quarter(t, n, p) \in Square(2 * n)
  <2>1. PICK x \in 0..n - 1, y \in 0..n - 1 : p = <<x, y>>
    BY <1>1
  <2>2. /\ x \in 0..2 * n - 1 /\ y \in 0..2 * n - 1 /\ x + n \in 0..2 * n - 1 /\ y + n \in 0..2 * n - 1
        /\ (n - 1 - y) + n \in 0..2 * n - 1 /\ n - 1 - x \in 0..2 * n - 1
    OBVIOUS
  <2> QED
    BY <1>2, <2>1, <2>2 DEF Square
<1>4. ASSUME NEW t \in 0..3, NEW u \in 0..3, NEW p \in Square(n), NEW o \in Square(n),
             Quarter(t, n, p) = Quarter(u, n, o)
      PROVE  t = u /\ p = o
  <2>1. PICK x \in 0..n - 1, y \in 0..n - 1 : p = <<x, y>>
    BY <1>1
  <2>2. PICK v \in 0..n - 1, w \in 0..n - 1 : o = <<v, w>>
    BY <1>1
  <2>3. PICK a, b : Quarter(t, n, p) = <<a, b>>
    BY <1>2, <2>1
  <2>4. /\ a = IF t = 0 THEN y ELSE IF t = 1 THEN x ELSE IF t = 2 THEN x + n ELSE (n - 1 - y) + n
        /\ b = IF t = 0 THEN x ELSE IF t = 1 THEN y + n ELSE IF t = 2 THEN y + n ELSE n - 1 - x
    BY <1>2, <2>1, <2>3
  <2>5. /\ a = IF u = 0 THEN w ELSE IF u = 1 THEN v ELSE IF u = 2 THEN v + n ELSE (n - 1 - w) + n
        /\ b = IF u = 0 THEN v ELSE IF u = 1 THEN w + n ELSE IF u = 2 THEN w + n ELSE n - 1 - v
    BY <1>2, <1>4, <2>2, <2>3
  <2>6. t = u /\ x = v /\ y = w
    BY <2>4, <2>5
  <2> QED
    BY <2>1, <2>2, <2>6
<1>5. ASSUME NEW s \in Square(2 * n)
      PROVE  \E t \in 0..3 : \E p \in Square(n) : s = Quarter(t, n, p)
  <2>1. PICK a \in 0..2 * n - 1, b \in 0..2 * n - 1 : s = <<a, b>>
    BY DEF Square
  <2>2. ASSUME NEW t \in 0..3, NEW x \in 0..n - 1, NEW y \in 0..n - 1, s = Quarter(t, n, <<x, y>>)
        PROVE  \E p \in Square(n) : s = Quarter(t, n, p)
    BY <2>2 DEF Square
  <2>3. CASE a < n /\ b < n
    <3>1. b \in 0..n - 1 /\ a \in 0..n - 1
      BY <2>3
    <3>2. s = Quarter(0, n, <<b, a>>)
      BY <1>2, <2>1, <3>1
    <3> QED
      BY <2>2, <3>1, <3>2
  <2>4. CASE a < n /\ ~(b < n)
    <3>1. a \in 0..n - 1 /\ b - n \in 0..n - 1 /\ (b - n) + n = b
      BY <2>4
    <3>2. s = Quarter(1, n, <<a, b - n>>)
      BY <1>2, <2>1, <3>1
    <3> QED
      BY <2>2, <3>1, <3>2
  <2>5. CASE ~(a < n) /\ ~(b < n)
    <3>1. a - n \in 0..n - 1 /\ b - n \in 0..n - 1 /\ (a - n) + n = a /\ (b - n) + n = b
      BY <2>5
    <3>2. s = Quarter(2, n, <<a - n, b - n>>)
      BY <1>2, <2>1, <3>1
    <3> QED
      BY <2>2, <3>1, <3>2
  <2>6. CASE ~(a < n) /\ b < n
    <3> DEFINE x == n - 1 - b
               y == (n - 1 - a) + n
    <3>1. x \in 0..n - 1 /\ y \in 0..n - 1 /\ (n - 1 - y) + n = a /\ n - 1 - x = b
      BY <2>6
    <3> HIDE DEF x, y
    <3>2. s = Quarter(3, n, <<x, y>>)
      BY <1>2, <2>1, <3>1
    <3> QED
      BY <2>2, <3>1, <3>2
  <2> QED
    BY <2>3, <2>4, <2>5, <2>6
<1>6. ASSUME NEW t \in 0..3, NEW p \in Square(n), NEW o \in Square(n), Neighbours(p, o)
      PROVE  Neighbours(Quarter(t, n, p), Quarter(t, n, o))
  <2>1. PICK x \in 0..n - 1, y \in 0..n - 1 : p = <<x, y>>
    BY <1>1
  <2>2. PICK v \in 0..n - 1, w \in 0..n - 1 : o = <<v, w>>
    BY <1>1
  <2>3. (x = v /\ y - w \in {-1, 1}) \/ (y = w /\ x - v \in {-1, 1})
    <3>1. /\ <<x, y>>[1] = x /\ <<x, y>>[2] = y
          /\ <<v, w>>[1] = v /\ <<v, w>>[2] = w
      OBVIOUS
    <3>2. Neighbours(<<x, y>>, <<v, w>>)
      BY <1>6, <2>1, <2>2
    <3> QED
      BY <3>1, <3>2 DEF Neighbours
  <2>4. CASE t = 0
    BY <1>2, <2>1, <2>2, <2>3, <2>4 DEF Neighbours
  <2>5. CASE t = 1
    BY <1>2, <2>1, <2>2, <2>3, <2>5 DEF Neighbours
  <2>6. CASE t = 2
    BY <1>2, <2>1, <2>2, <2>3, <2>6 DEF Neighbours
  <2>7. CASE t = 3
    BY <1>2, <2>1, <2>2, <2>3, <2>7 DEF Neighbours
  <2> QED
    BY <2>4, <2>5, <2>6, <2>7
<1> QED
  BY <1>3, <1>4, <1>5, <1>6

(* Four copies of the curve, each in its quarter, are the next curve.       *)
LEMMA QuartersFill ==
  ASSUME NEW n \in Nat \ {0}, NEW q \in Nat \ {0}, NEW c, Fills(c, q, n), NEW h,
         \A t \in 0..3 : \A r \in 0..q - 1 : h[t * q + r] = Quarter(t, n, c[r])
  PROVE  Fills(h, 4 * q, 2 * n)
<1>1. ASSUME NEW d \in 0..4 * q - 1
      PROVE  \E t \in 0..3 : \E r \in 0..q - 1 : d = t * q + r
  <2>1. ASSUME NEW t \in 0..3, NEW r \in 0..q - 1, d = t * q + r
        PROVE  \E u \in 0..3 : \E s \in 0..q - 1 : d = u * q + s
    BY <2>1
  <2>2. \/ d = 0 * q + d /\ d \in 0..q - 1
        \/ d = 1 * q + (d - q) /\ d - q \in 0..q - 1
        \/ d = 2 * q + (d - 2 * q) /\ d - 2 * q \in 0..q - 1
        \/ d = 3 * q + (d - 3 * q) /\ d - 3 * q \in 0..q - 1
    OBVIOUS
  <2> QED
    BY <2>1, <2>2
<1>2. ASSUME NEW t \in 0..3, NEW r \in 0..q - 1
      PROVE  t * q + r \in 0..4 * q - 1
  <2>1. t = 0 \/ t = 1 \/ t = 2 \/ t = 3
    OBVIOUS
  <2> QED
    BY <2>1
<1>3. ASSUME NEW t \in 0..3, NEW r \in 0..q - 1
      PROVE  h[t * q + r] = Quarter(t, n, c[r]) /\ c[r] \in Square(n)
  BY DEF Fills
<1>4. /\ \A t \in 0..3 : \A p \in Square(n) : Quarter(t, n, p) \in Square(2 * n)
      /\ \A t, u \in 0..3 : \A p, o \in Square(n) :
           Quarter(t, n, p) = Quarter(u, n, o) => t = u /\ p = o
      /\ \A s \in Square(2 * n) : \E t \in 0..3 : \E p \in Square(n) : s = Quarter(t, n, p)
      /\ \A t \in 0..3 : \A p, o \in Square(n) :
           Neighbours(p, o) => Neighbours(Quarter(t, n, p), Quarter(t, n, o))
  BY QuartersApart
<1>5. ASSUME NEW d \in 0..4 * q - 1  PROVE h[d] \in Square(2 * n)
  BY <1>1, <1>3, <1>4
<1>6. ASSUME NEW d \in 0..4 * q - 1, NEW e \in 0..4 * q - 1, h[d] = h[e]
      PROVE  d = e
  <2>1. PICK t \in 0..3, r \in 0..q - 1 : d = t * q + r
    BY <1>1
  <2>2. PICK u \in 0..3, s \in 0..q - 1 : e = u * q + s
    BY <1>1
  <2>3. Quarter(t, n, c[r]) = Quarter(u, n, c[s]) /\ c[r] \in Square(n) /\ c[s] \in Square(n)
    BY <1>3, <1>6, <2>1, <2>2
  <2>4. t = u /\ c[r] = c[s]
    BY <1>4, <2>3
  <2>5. r = s
    BY <2>4 DEF Fills
  <2> QED
    BY <2>1, <2>2, <2>4, <2>5
<1>7. ASSUME NEW s \in Square(2 * n)
      PROVE  \E d \in 0..4 * q - 1 : h[d] = s
  <2>1. PICK t \in 0..3, p \in Square(n) : s = Quarter(t, n, p)
    BY <1>4
  <2>2. PICK r \in 0..q - 1 : c[r] = p
    BY DEF Fills
  <2>3. h[t * q + r] = s
    BY <1>3, <2>1, <2>2
  <2> QED
    BY <1>2, <2>3
<1>8. 0 \in 0..q - 1 /\ q - 1 \in 0..q - 1 /\ c[0] = <<0, 0>> /\ c[q - 1] = <<n - 1, 0>>
  BY DEF Fills
<1>9. /\ h[0 * q + 0] = <<0, 0>> /\ h[0 * q + (q - 1)] = <<0, n - 1>>
      /\ h[1 * q + 0] = <<0, n>> /\ h[1 * q + (q - 1)] = <<n - 1, n>>
      /\ h[2 * q + 0] = <<n, n>> /\ h[2 * q + (q - 1)] = <<(n - 1) + n, n>>
      /\ h[3 * q + 0] = <<(n - 1) + n, n - 1>> /\ h[3 * q + (q - 1)] = <<(n - 1) + n, 0>>
  <2>1. 0 \in 0..3 /\ 1 \in 0..3 /\ 2 \in 0..3 /\ 3 \in 0..3
    OBVIOUS
  <2>2. \A t \in 0..3 : /\ h[t * q + 0] = Quarter(t, n, <<0, 0>>)
                        /\ h[t * q + (q - 1)] = Quarter(t, n, <<n - 1, 0>>)
    BY <1>3, <1>8
  <2>3. /\ Quarter(0, n, <<0, 0>>) = <<0, 0>> /\ Quarter(0, n, <<n - 1, 0>>) = <<0, n - 1>>
        /\ Quarter(1, n, <<0, 0>>) = <<0, n>> /\ Quarter(1, n, <<n - 1, 0>>) = <<n - 1, n>>
        /\ Quarter(2, n, <<0, 0>>) = <<n, n>> /\ Quarter(2, n, <<n - 1, 0>>) = <<(n - 1) + n, n>>
        /\ Quarter(3, n, <<0, 0>>) = <<(n - 1) + n, n - 1>>
        /\ Quarter(3, n, <<n - 1, 0>>) = <<(n - 1) + n, 0>>
    BY DEF Quarter
  <2> QED
    BY <2>1, <2>2, <2>3
<1>10. h[0] = <<0, 0>> /\ h[4 * q - 1] = <<2 * n - 1, 0>>
  <2>1. 0 * q + 0 = 0 /\ 3 * q + (q - 1) = 4 * q - 1 /\ (n - 1) + n = 2 * n - 1
    OBVIOUS
  <2> QED
    BY <1>9, <2>1
<1>11. ASSUME NEW d \in 0..4 * q - 2
       PROVE  Neighbours(h[d], h[d + 1])
  <2>1. PICK t \in 0..3, r \in 0..q - 1 : d = t * q + r
    <3>1. d \in 0..4 * q - 1
      OBVIOUS
    <3> QED
      BY <1>1, <3>1
  <2>2. CASE r \in 0..q - 2
    <3>1. PICK s \in 0..q - 1 : s = r + 1
      BY <2>2
    <3>2. d + 1 = t * q + s
      <4>1. PICK m \in Int : m = t * q
        OBVIOUS
      <4> QED
        BY <2>1, <3>1, <4>1
    <3>3. Neighbours(c[r], c[s]) /\ c[r] \in Square(n) /\ c[s] \in Square(n)
      BY <2>2, <3>1 DEF Fills
    <3>4. Neighbours(Quarter(t, n, c[r]), Quarter(t, n, c[s]))
      BY <1>4, <3>3
    <3> QED
      BY <1>3, <2>1, <3>2, <3>4
  <2>3. CASE r = q - 1
    <3>1. t = 0 \/ t = 1 \/ t = 2
      <4>1. t # 3
        BY <2>1, <2>3
      <4> QED
        BY <4>1
    <3>2. CASE t = 0
      <4>1. d = 0 * q + (q - 1) /\ d + 1 = 1 * q + 0
        BY <2>1, <2>3, <3>2
      <4> QED
        BY <1>9, <4>1 DEF Neighbours
    <3>3. CASE t = 1
      <4>1. d = 1 * q + (q - 1) /\ d + 1 = 2 * q + 0
        BY <2>1, <2>3, <3>3
      <4>2. (n - 1) - n = -1
        OBVIOUS
      <4> QED
        BY <1>9, <4>1, <4>2 DEF Neighbours
    <3>4. CASE t = 2
      <4>1. d = 2 * q + (q - 1) /\ d + 1 = 3 * q + 0
        BY <2>1, <2>3, <3>4
      <4>2. n - (n - 1) = 1
        OBVIOUS
      <4> QED
        BY <1>9, <4>1, <4>2 DEF Neighbours
    <3> QED
      BY <3>1, <3>2, <3>3, <3>4
  <2> QED
    BY <2>2, <2>3
<1> QED
  BY <1>5, <1>6, <1>7, <1>10, <1>11 DEF Fills

(* A turn of the loop puts a tile into the quarter that digit t of d says:  *)
(* digits further on make no difference.                                    *)
LEMMA TurnIsQuarter ==
  ASSUME NEW s \in Nat \ {0}, NEW x \in Int, NEW y \in Int, NEW u \in Nat, NEW t \in 0..3,
         NEW v, v = 4 * u + t, NEW d, d \div (s * s) = v
  PROVE  Turn(<<x, y>>, s, d) = Quarter(t, s, <<x, y>>)
<1>1. v \in Nat
  OBVIOUS
<1>2. d \div (s * s) = v
  OBVIOUS
<1>3. (v \div 2) % 2 = (IF t \in {0, 1} THEN 0 ELSE 1)
  <2>1. v \div 2 = 2 * u + (IF t \in {0, 1} THEN 0 ELSE 1)
    OBVIOUS
  <2> QED
    BY <2>1
<1>4. /\ t \in {0, 1} => (v + 0) % 2 = t
      /\ t = 2 => (v + 1) % 2 = 1
      /\ t = 3 => (v + 1) % 2 = 0
  OBVIOUS
<1> DEFINE T(a, b) == LET p == Rot(s, <<x, y>>, a, b) IN <<p[1] + s * a, p[2] + s * b>>
<1>5. PICK rx, ry : rx = (v \div 2) % 2 /\ ry = (v + rx) % 2
  OBVIOUS
<1>6. Turn(<<x, y>>, s, d) = T(rx, ry)
  BY <1>2, <1>5 DEF Turn
<1>7. /\ T(0, 0) = <<y, x>> /\ T(0, 1) = <<x, y + s>> /\ T(1, 1) = <<x + s, y + s>>
      /\ T(1, 0) = <<(s - 1 - y) + s, s - 1 - x>>
  <2>1. s * 0 = 0 /\ s * 1 = s
    OBVIOUS
  <2> QED
    BY <2>1 DEF Rot
<1> HIDE DEF T
<1>8. t = 0 \/ t = 1 \/ t = 2 \/ t = 3
  OBVIOUS
<1>9. Turn(<<x, y>>, s, d) = IF t = 0 THEN T(0, 0) ELSE IF t = 1 THEN T(0, 1)
                             ELSE IF t = 2 THEN T(1, 1) ELSE T(1, 0)
  <2>1. /\ t = 0 => rx = 0 /\ ry = 0
        /\ t = 1 => rx = 0 /\ ry = 1
        /\ t = 2 => rx = 1 /\ ry = 1
        /\ t = 3 => rx = 1 /\ ry = 0
    BY <1>3, <1>4, <1>5
  <2> QED
    BY <1>8, <1>6, <2>1
<1>10. <<x, y>>[1] = x /\ <<x, y>>[2] = y
  OBVIOUS
<1> QED
  BY <1>7, <1>8, <1>9, <1>10 DEF Quarter

(* The curve of side Doubled[k].                                            *)
Side(k) == Doubled[k]
Curve(k) == [d \in 0..Side(k) * Side(k) - 1 |-> D2XY(k, d)]

(* For any side, d2xy (Traversal.h:246) takes the distances up to its       *)
(* square to the tiles of a square with that side, one to one and neighbour *)
(* to neighbour; the digits of greater distances make no difference.        *)
THEOREM CurveFills ==
  ASSUME NEW k \in Nat
  PROVE  /\ Fills(Curve(k), Side(k) * Side(k), Side(k))
         /\ \A u \in Nat : \A r \in 0..Side(k) * Side(k) - 1 :
              D2XY(k, (Side(k) * Side(k)) * u + r) = D2XY(k, r)
<1> DEFINE P(i) == /\ Fills(Curve(i), Side(i) * Side(i), Side(i))
                   /\ \A u \in Nat : \A r \in 0..Side(i) * Side(i) - 1 :
                        D2XY(i, (Side(i) * Side(i)) * u + r) = D2XY(i, r)
           T == {i \in Nat : ~P(i)}
<1>1. SUFFICES ASSUME T # {}  PROVE FALSE
  OBVIOUS
<1>2. PICK i \in T : \A l \in T : i <= l
  <2> T \in SUBSET Nat
    OBVIOUS
  <2> QED
    BY <1>1, LeastNumber
<1>3. i \in Nat /\ ~P(i)
  OBVIOUS
<1>4. i # 0 => i - 1 \in Nat /\ i = (i - 1) + 1 /\ i - 1 \notin T
  BY <1>2
<1>5. i # 0 => P(i - 1)
  BY <1>4
<1> HIDE DEF T
<1>6. P(0)
  <2>1. Side(0) = 1 /\ 1 * 1 = 1 /\ 0..1 - 1 = {0} /\ 0..1 - 2 = {}
    BY DoubledIs DEF Side
  <2>2. \A d : D2XY(0, d) = <<0, 0>>
    BY OneMoreTurn
  <2>3. Square(1) = {<<0, 0>>}
    BY DEF Square
  <2>4. PICK c : c = Curve(0)
    OBVIOUS
  <2>5. c[0] = <<0, 0>>
    BY <2>1, <2>2, <2>4 DEF Curve
  <2>6. Fills(c, 1, 1)
    BY <2>1, <2>3, <2>5 DEF Fills
  <2> QED
    BY <2>1, <2>2, <2>4, <2>6
<1>7. ASSUME i # 0  PROVE P(i)
  <2> DEFINE j == i - 1
             n == Side(j)
             q == n * n
  <2>1. j \in Nat /\ i = j + 1 /\ P(j)
    BY <1>4, <1>5, <1>7
  <2> HIDE DEF j, P
  <2>2. n \in Nat \ {0} /\ Side(i) = 2 * n
    BY <2>1, DoubledIs, DoubledGrows DEF Side
  <2> HIDE DEF n
  <2>3. q \in Nat \ {0} /\ q = n * n /\ Side(i) * Side(i) = 4 * q
    BY <2>2
  <2>4. /\ Fills(Curve(j), q, n)
        /\ \A u \in Nat : \A r \in 0..q - 1 : D2XY(j, q * u + r) = D2XY(j, r)
        /\ \A r \in 0..q - 1 : Curve(j)[r] = D2XY(j, r)
    BY <2>1 DEF P, Curve, n
  <2> HIDE DEF q
  <2>5. ASSUME NEW u \in Nat, NEW t \in 0..3, NEW r \in 0..q - 1
        PROVE  D2XY(i, q * (4 * u + t) + r) = Quarter(t, n, D2XY(j, r))
    <3>1. PICK d : d = q * (4 * u + t) + r
      OBVIOUS
    <3>2. D2XY(i, d) = Turn(D2XY(j, d), n, d)
      BY <2>1, OneMoreTurn DEF n, Side
    <3>3. D2XY(j, d) = D2XY(j, r)
      <4>1. 4 * u + t \in Nat
        OBVIOUS
      <4> QED
        BY <2>4, <3>1, <4>1
    <3>4. D2XY(j, r) \in Square(n)
      BY <2>4 DEF Fills
    <3>5. PICK x \in Int, y \in Int : D2XY(j, r) = <<x, y>>
      BY <2>2, <3>4 DEF Square
    <3>6. Turn(<<x, y>>, n, d) = Quarter(t, n, <<x, y>>)
      <4>1. PICK v \in Nat : v = 4 * u + t
        OBVIOUS
      <4>2. d = q * v + r
        BY <3>1, <4>1
      <4>3. d \div q = v
        BY <2>3, <4>2, Digits
      <4>4. d \div (n * n) = v
        BY <2>3, <4>3
      <4> QED
        BY <2>2, <4>1, <4>4, TurnIsQuarter
    <3> QED
      BY <3>1, <3>2, <3>3, <3>5, <3>6
  <2>6. ASSUME NEW t \in 0..3, NEW r \in 0..q - 1
        PROVE  /\ t * q + r \in 0..4 * q - 1
               /\ D2XY(i, t * q + r) = Quarter(t, n, D2XY(j, r))
    <3>1. t = 0 \/ t = 1 \/ t = 2 \/ t = 3
      OBVIOUS
    <3>2. t * q + r \in 0..4 * q - 1
      BY <2>3, <3>1
    <3>3. 0 \in Nat /\ q * (4 * 0 + t) + r = t * q + r
      BY <2>3, <3>1
    <3>4. D2XY(i, q * (4 * 0 + t) + r) = Quarter(t, n, D2XY(j, r))
      BY <2>5, <3>3
    <3> QED
      BY <3>2, <3>3, <3>4
  <2>7. Fills(Curve(i), 4 * q, 2 * n)
    <3>1. PICK c, h : c = Curve(j) /\ h = Curve(i)
      OBVIOUS
    <3>2. \A t \in 0..3 : \A r \in 0..q - 1 : h[t * q + r] = Quarter(t, n, c[r])
      <4>1. \A d \in 0..4 * q - 1 : h[d] = D2XY(i, d)
        BY <2>3, <3>1 DEF Curve
      <4> QED
        BY <2>4, <2>6, <3>1, <4>1
    <3> QED
      BY <2>2, <2>3, <2>4, <3>1, <3>2, QuartersFill
  <2>8. ASSUME NEW u \in Nat, NEW e \in 0..4 * q - 1
        PROVE  D2XY(i, (4 * q) * u + e) = D2XY(i, e)
    <3>1. PICK t \in 0..3, r \in 0..q - 1 : e = t * q + r
      <4>1. \/ e = 0 * q + e /\ e \in 0..q - 1
            \/ e = 1 * q + (e - q) /\ e - q \in 0..q - 1
            \/ e = 2 * q + (e - 2 * q) /\ e - 2 * q \in 0..q - 1
            \/ e = 3 * q + (e - 3 * q) /\ e - 3 * q \in 0..q - 1
        BY <2>3
      <4> QED
        BY <4>1
    <3>2. (4 * q) * u + e = q * (4 * u + t) + r
      BY <2>3, <3>1
    <3> QED
      BY <2>5, <2>6, <3>1, <3>2
  <2> QED
    BY <2>2, <2>3, <2>7, <2>8 DEF P
<1> QED
  BY <1>3, <1>6, <1>7

-----------------------------------------------------------------------------
(* The curve and the snakes beside it and below it fill the image.          *)

(* Part of a line, in either direction.                                     *)
LEMMA PartOfLine ==
  ASSUME Sized, NEW r \in 0..numTileRow - 1, NEW first \in Nat, NEW last \in Int,
         first <= last + 1, last < numTileCol
  PROVE  LET s == SnakeLine(r, first, last)
         IN  /\ s \in Seq(Tile) /\ NoRepeat(s)
             /\ Elems(s) = {t \in Tile : t[1] = r /\ t[2] \in first..last}
<1> DEFINE s == SnakeLine(r, first, last)
           n == last - first + 1
           l == Line(r, first, last)
<1>1. n \in Nat /\ r \in Int /\ numTileCol \in Nat /\ numTileRow \in Nat
  BY DEF Sized
<1>2. l = [k \in 1..n |-> <<r, first + k - 1>>] /\ Len(l) = n
  BY <1>1 DEF Line
<1> HIDE DEF n, l
<1>3. PICK c : /\ s = [k \in 1..n |-> <<r, c[k]>>]
               /\ \A k \in 1..n : c[k] \in first..last
               /\ \A i, j \in 1..n : c[i] = c[j] => i = j
               /\ \A x \in first..last : \E k \in 1..n : c[k] = x
  <2>1. CASE r % 2 = 0
    <3> DEFINE c == [k \in 1..n |-> first + k - 1]
    <3>1. s = [k \in 1..n |-> <<r, c[k]>>]
      BY <1>2, <2>1 DEF SnakeLine, l
    <3>2. /\ \A k \in 1..n : first + k - 1 \in first..last
          /\ \A i, j \in 1..n : first + i - 1 = first + j - 1 => i = j
          /\ \A x \in first..last : x - first + 1 \in 1..n /\ first + (x - first + 1) - 1 = x
      BY DEF n
    <3>3. \A k \in 1..n : c[k] = first + k - 1
      OBVIOUS
    <3> HIDE DEF c, s
    <3>4. \A k \in 1..n : c[k] \in first..last
      BY <3>2, <3>3
    <3>5. \A i, j \in 1..n : c[i] = c[j] => i = j
      BY <3>2, <3>3
    <3>6. \A x \in first..last : \E k \in 1..n : c[k] = x
      BY <3>2, <3>3
    <3> QED
      BY <3>1, <3>4, <3>5, <3>6
  <2>2. CASE r % 2 # 0
    <3> DEFINE c == [k \in 1..n |-> last - k + 1]
    <3>1. s = [k \in 1..n |-> <<r, c[k]>>]
      <4>1. \A k \in 1..n : n - k + 1 \in 1..n /\ first + (n - k + 1) - 1 = last - k + 1
        BY DEF n
      <4>2. \A k \in 1..n : l[n - k + 1] = <<r, last - k + 1>>
        BY <1>2, <4>1
      <4>3. s = [k \in 1..n |-> l[n - k + 1]]
        BY <1>2, <2>2 DEF SnakeLine, Reverse, l
      <4> HIDE DEF s
      <4> QED
        BY <4>2, <4>3
    <3>2. /\ \A k \in 1..n : last - k + 1 \in first..last
          /\ \A i, j \in 1..n : last - i + 1 = last - j + 1 => i = j
          /\ \A x \in first..last : last - x + 1 \in 1..n /\ last - (last - x + 1) + 1 = x
      BY DEF n
    <3>3. \A k \in 1..n : c[k] = last - k + 1
      OBVIOUS
    <3> HIDE DEF c, s
    <3>4. \A k \in 1..n : c[k] \in first..last
      BY <3>2, <3>3
    <3>5. \A i, j \in 1..n : c[i] = c[j] => i = j
      BY <3>2, <3>3
    <3>6. \A x \in first..last : \E k \in 1..n : c[k] = x
      BY <3>2, <3>3
    <3> QED
      BY <3>1, <3>4, <3>5, <3>6
  <2> QED
    BY <2>1, <2>2
<1> HIDE DEF s
<1>4. ASSUME NEW x \in first..last
      PROVE  <<r, x>> \in Tile
  <2>1. x \in 0..numTileCol - 1
    BY <1>1
  <2> QED
    BY <2>1 DEF Tile
<1>5. s \in [1..n -> Tile]
  BY <1>3, <1>4
<1>6. s \in Seq(Tile) /\ Len(s) = n
  BY <1>1, <1>5
<1>7. NoRepeat(s)
  <2>1. ASSUME NEW i \in 1..n, NEW j \in 1..n, s[i] = s[j]  PROVE i = j
    <3>1. c[i] = c[j]
      BY <1>3, <2>1
    <3> QED
      BY <1>3, <3>1
  <2> QED
    BY <1>6, <2>1 DEF NoRepeat
<1>8. ASSUME NEW t, t \in Elems(s)
      PROVE  t \in Tile /\ t[1] = r /\ t[2] \in first..last
  <2>1. PICK k \in 1..n : t = <<r, c[k]>>
    BY <1>3, <1>6, <1>8 DEF Elems
  <2> QED
    BY <1>3, <1>4, <2>1
<1>9. ASSUME NEW t \in Tile, t[1] = r, t[2] \in first..last
      PROVE  t \in Elems(s)
  <2>1. PICK k \in 1..n : c[k] = t[2]
    BY <1>3, <1>9
  <2>2. t = <<t[1], t[2]>>
    BY DEF Tile
  <2>3. s[k] = t
    BY <1>3, <1>9, <2>1, <2>2
  <2> QED
    BY <1>6, <2>3 DEF Elems
<1>10. Elems(s) = {t \in Tile : t[1] = r /\ t[2] \in first..last}
  BY <1>8, <1>9
<1> QED
  BY <1>6, <1>7, <1>10 DEF s

(* The curve's square is the largest one in the image.                      *)
LargestSide(k) ==
  /\ k \in Nat /\ Side(k) \in Nat \ {0} /\ Side(k) <= numTileRow /\ Side(k) <= numTileCol
  /\ \A m \in Nat : m <= numTileRow /\ m <= numTileCol /\ Side(m) <= numTileRow
                      /\ Side(m) <= numTileCol => m <= k
  /\ HilbertCurve = [i \in 1..Side(k) * Side(k) |-> D2XY(k, i - 1)]

LEMMA CurveInImage ==
  ASSUME Sized
  PROVE  \E k : LargestSide(k)
<1> DEFINE smallest == Min({numTileRow, numTileCol})
           K == {i \in 0..smallest : Doubled[i] <= smallest}
           k == Max(K)
<1>1. /\ smallest \in Nat \ {0} /\ smallest <= numTileRow /\ smallest <= numTileCol
      /\ smallest = numTileRow \/ smallest = numTileCol
  <2>1. {numTileRow, numTileCol} \in SUBSET Nat /\ {numTileRow, numTileCol} # {}
    BY DEF Sized
  <2>2. \E m \in {numTileRow, numTileCol} : \A j \in {numTileRow, numTileCol} : m <= j
    BY <2>1, LeastNumber
  <2>3. smallest \in {numTileRow, numTileCol} /\ \A j \in {numTileRow, numTileCol} : smallest <= j
    BY <2>2 DEF Min
  <2> HIDE DEF smallest
  <2> QED
    BY <2>3 DEF Sized
<1>2. HilbertCurve = [i \in 1..Doubled[k] * Doubled[k] |-> D2XY(k, i - 1)]
  BY DEF HilbertCurve
<1> HIDE DEF smallest
<1>3. k \in K /\ \A i \in K : i <= k
  <2>1. 0 \in 0..smallest /\ Doubled[0] <= smallest
    BY <1>1, DoubledIs
  <2>2. K \subseteq 0..smallest /\ K \in SUBSET Nat /\ K # {} /\ 0 \in Int /\ smallest \in Int
    BY <1>1, <2>1
  <2> HIDE DEF K
  <2>3. IsFiniteSet(0..smallest)
    BY <2>2, FS_Interval
  <2>4. IsFiniteSet(K)
    BY <2>2, <2>3, FS_Subset
  <2> QED
    BY <2>2, <2>4, GreatestNumber
<1>4. k \in Nat /\ Doubled[k] <= smallest /\ Doubled[k] \in Nat \ {0}
  <2>1. k \in 0..smallest /\ Doubled[k] <= smallest
    BY <1>3 DEF K
  <2> HIDE DEF k
  <2> QED
    BY <2>1, DoubledGrows
<1>5. ASSUME NEW m \in Nat, m <= numTileRow, m <= numTileCol, Doubled[m] <= numTileRow,
             Doubled[m] <= numTileCol
      PROVE  m <= k
  <2>1. m \in 0..smallest /\ Doubled[m] <= smallest
    BY <1>1, <1>5
  <2>2. m \in K
    BY <2>1 DEF K
  <2> HIDE DEF K, k
  <2> QED
    BY <1>3, <2>2
<1> HIDE DEF k
<1>6. Doubled[k] <= numTileRow /\ Doubled[k] <= numTileCol
  <2>1. numTileRow \in Nat /\ numTileCol \in Nat
    BY DEF Sized
  <2> QED
    BY <1>1, <1>4, <2>1
<1>7. LargestSide(k)
  BY <1>2, <1>4, <1>5, <1>6 DEF LargestSide, Side
<1> QED
  BY <1>7

(* The curve as a sequence has the tiles of the square once.                *)
LEMMA CurveTiles ==
  ASSUME Sized, NEW k, LargestSide(k), NEW n, n = Side(k), NEW s, s = HilbertCurve
  PROVE  /\ s \in Seq(Tile) /\ NoRepeat(s) /\ Len(s) = n * n
         /\ Elems(s) = {t \in Tile : t[1] < n /\ t[2] < n}
         /\ Max({p[1] : p \in ToSet(s)}) = n - 1 /\ Max({p[2] : p \in ToSet(s)}) = n - 1
         /\ \A i \in 1..Len(s) - 1 : Neighbours(s[i], s[i + 1])
<1> DEFINE q == n * n
           c == Curve(k)
<1>1. /\ n \in Nat \ {0} /\ n <= numTileRow /\ n <= numTileCol /\ k \in Nat
      /\ numTileRow \in Nat /\ numTileCol \in Nat
      /\ s = [i \in 1..q |-> D2XY(k, i - 1)]
  BY DEF LargestSide, Sized
<1>2. q \in Nat \ {0} /\ q = n * n
  BY <1>1
<1>3. Fills(c, q, n) /\ \A d \in 0..q - 1 : c[d] = D2XY(k, d)
  BY <1>1, CurveFills DEF Curve
<1> HIDE DEF q, c
<1>4. ASSUME NEW i \in 1..q  PROVE i - 1 \in 0..q - 1 /\ s[i] = c[i - 1] /\ s[i] \in Square(n)
  <2>1. i - 1 \in 0..q - 1
    BY <1>2
  <2> QED
    BY <1>1, <1>3, <2>1 DEF Fills
<1>5. ASSUME NEW p \in Square(n)
      PROVE  p \in Tile /\ p[1] \in 0..n - 1 /\ p[2] \in 0..n - 1
  <2>1. PICK x \in 0..n - 1, y \in 0..n - 1 : p = <<x, y>>
    BY DEF Square
  <2>2. x \in 0..numTileRow - 1 /\ y \in 0..numTileCol - 1
    BY <1>1
  <2> QED
    BY <2>1, <2>2 DEF Tile
<1>6. s \in [1..q -> Tile]
  BY <1>1, <1>4, <1>5
<1>7. s \in Seq(Tile) /\ Len(s) = q /\ DOMAIN s = 1..q
  BY <1>2, <1>6
<1>8. NoRepeat(s)
  <2>1. ASSUME NEW i \in 1..q, NEW j \in 1..q, s[i] = s[j]  PROVE i = j
    <3>1. i - 1 = j - 1
      BY <1>3, <1>4, <2>1 DEF Fills
    <3> QED
      BY <3>1
  <2> QED
    BY <1>7, <2>1 DEF NoRepeat
<1>9. ASSUME NEW p \in Square(n)  PROVE \E i \in 1..q : s[i] = p
  <2>1. PICK d \in 0..q - 1 : c[d] = p
    BY <1>3 DEF Fills
  <2>2. d + 1 \in 1..q /\ (d + 1) - 1 = d
    BY <1>2
  <2> QED
    BY <1>4, <2>1, <2>2
<1>10. Elems(s) = Square(n) /\ ToSet(s) = Square(n)
  <2>1. Elems(s) = {s[i] : i \in 1..q} /\ ToSet(s) = {s[i] : i \in 1..q}
    BY <1>7 DEF Elems, ToSet
  <2>2. {s[i] : i \in 1..q} = Square(n)
    BY <1>4, <1>9
  <2> QED
    BY <2>1, <2>2
<1>11. Square(n) = {t \in Tile : t[1] < n /\ t[2] < n}
  <2>1. ASSUME NEW t \in Square(n)  PROVE t \in Tile /\ t[1] < n /\ t[2] < n
    BY <1>1, <1>5
  <2>2. ASSUME NEW t \in Tile, t[1] < n, t[2] < n  PROVE t \in Square(n)
    <3>1. PICK x \in 0..numTileRow - 1, y \in 0..numTileCol - 1 : t = <<x, y>>
      BY DEF Tile
    <3>2. x \in 0..n - 1 /\ y \in 0..n - 1
      BY <1>1, <2>2, <3>1
    <3> QED
      BY <3>1, <3>2 DEF Square
  <2> QED
    BY <2>1, <2>2
<1>12. {p[1] : p \in Square(n)} = 0..n - 1 /\ {p[2] : p \in Square(n)} = 0..n - 1
  <2>1. ASSUME NEW x \in 0..n - 1  PROVE <<x, x>> \in Square(n) /\ <<x, x>>[1] = x /\ <<x, x>>[2] = x
    BY DEF Square
  <2> QED
    BY <1>5, <2>1
<1>13. Max(0..n - 1) = n - 1
  <2>1. n - 1 \in 0..n - 1 /\ \A x \in 0..n - 1 : x <= n - 1
    BY <1>1
  <2>2. Max(0..n - 1) \in 0..n - 1 /\ \A x \in 0..n - 1 : x <= Max(0..n - 1)
    BY <2>1 DEF Max
  <2> QED
    BY <1>1, <2>1, <2>2
<1>14. ASSUME NEW i \in 1..q - 1  PROVE Neighbours(s[i], s[i + 1])
  <2>1. i \in 1..q /\ i + 1 \in 1..q /\ (i + 1) - 1 = (i - 1) + 1 /\ i - 1 \in 0..q - 2
    BY <1>2
  <2>2. s[i] = c[i - 1] /\ s[i + 1] = c[(i - 1) + 1]
    BY <1>4, <2>1
  <2>3. Neighbours(c[i - 1], c[(i - 1) + 1])
    BY <1>3, <2>1 DEF Fills
  <2> QED
    BY <2>2, <2>3
<1> QED
  BY <1>2, <1>7, <1>8, <1>10, <1>11, <1>12, <1>13, <1>14

(* Hilbert's order as the constructor leaves it.                            *)
HilbertOrder == Hilbert(HilbertCurve, Max({p[1] : p \in ToSet(HilbertCurve)}),
                                      Max({p[2] : p \in ToSet(HilbertCurve)}))

LEMMA HilbertIsGood ==
  ASSUME Sized
  PROVE  /\ Len(HilbertOrder) = numTileRow * numTileCol /\ ToSet(HilbertOrder) = Tile
         /\ numTileRow = numTileCol /\ numTileRow \in {Doubled[k] : k \in 0..numTileRow} =>
              \A i \in 1..Len(HilbertOrder) - 1 : Neighbours(HilbertOrder[i], HilbertOrder[i + 1])
<1>1. PICK k : LargestSide(k)
  BY CurveInImage
<1>2. PICK n, s : n = Side(k) /\ s = HilbertCurve
  OBVIOUS
<1>3. /\ s \in Seq(Tile) /\ NoRepeat(s) /\ Len(s) = n * n
      /\ Elems(s) = {t \in Tile : t[1] < n /\ t[2] < n}
      /\ Max({p[1] : p \in ToSet(s)}) = n - 1 /\ Max({p[2] : p \in ToSet(s)}) = n - 1
      /\ \A i \in 1..Len(s) - 1 : Neighbours(s[i], s[i + 1])
  BY <1>1, <1>2, CurveTiles
<1> DEFINE R == numTileRow
           C == numTileCol
           right == [j \in 1..R |-> SnakeLine(j - 1, n, C - 1)]
           below == [j \in 1..R - n |-> SnakeLine(j + n - 1, 0, n - 1)]
<1>4. R \in Nat \ {0} /\ C \in Nat \ {0} /\ n \in Nat \ {0} /\ n <= R /\ n <= C
  BY <1>1, <1>2 DEF LargestSide, Sized
<1>5. HilbertOrder = (s \o FlattenSeq(right)) \o FlattenSeq(below)
  <2>1. HilbertOrder = Hilbert(s, n - 1, n - 1)
    BY <1>2, <1>3 DEF HilbertOrder
  <2>2. /\ R - (n - 1) - 1 = R - n /\ (n - 1) + 1 = n
        /\ \A j \in 1..R - n : j + (n - 1) = j + n - 1
    BY <1>4
  <2>3. /\ [j \in 1..R |-> SnakeLine(j - 1, (n - 1) + 1, C - 1)] = right
        /\ [j \in 1..R - (n - 1) - 1 |-> SnakeLine(j + (n - 1), 0, n - 1)] = below
    BY <2>2
  <2> HIDE DEF right, below
  <2> QED
    BY <2>1, <2>3 DEF Hilbert
<1>6. ASSUME NEW j \in 1..R
      PROVE  /\ right[j] \in Seq(Tile) /\ NoRepeat(right[j])
             /\ Elems(right[j]) = {t \in Tile : t[1] = j - 1 /\ t[2] \in n..C - 1}
  <2>1. /\ j - 1 \in 0..numTileRow - 1 /\ n \in Nat /\ C - 1 \in Int /\ n <= (C - 1) + 1
        /\ C - 1 < numTileCol
    BY <1>4
  <2>2. right[j] = SnakeLine(j - 1, n, C - 1)
    OBVIOUS
  <2> HIDE DEF right
  <2> QED
    BY <2>1, <2>2, PartOfLine
<1>7. ASSUME NEW j \in 1..R - n
      PROVE  /\ below[j] \in Seq(Tile) /\ NoRepeat(below[j])
             /\ Elems(below[j]) = {t \in Tile : t[1] = j + n - 1 /\ t[2] \in 0..n - 1}
  <2>1. /\ j + n - 1 \in 0..numTileRow - 1 /\ 0 \in Nat /\ n - 1 \in Int /\ 0 <= (n - 1) + 1
        /\ n - 1 < numTileCol
    BY <1>4
  <2>2. below[j] = SnakeLine(j + n - 1, 0, n - 1)
    OBVIOUS
  <2> HIDE DEF below
  <2> QED
    BY <2>1, <2>2, PartOfLine
<1>8. /\ right \in Seq(Seq(Tile)) /\ Len(right) = R
      /\ below \in Seq(Seq(Tile)) /\ Len(below) = R - n
  <2>1. PICK m \in Nat, b \in Nat : m = R /\ b = R - n
    BY <1>4
  <2>2. right \in [1..m -> Seq(Tile)] /\ below \in [1..b -> Seq(Tile)]
    BY <1>6, <1>7, <2>1
  <2> HIDE DEF right, below
  <2>3. /\ right \in Seq(Seq(Tile)) /\ Len(right) = m
        /\ below \in Seq(Seq(Tile)) /\ Len(below) = b
    BY <2>2
  <2> QED
    BY <2>1, <2>3
<1> HIDE DEF right, below
<1>9. ASSUME NEW j \in 1..R, NEW l \in 1..R, j # l
      PROVE  Elems(right[j]) \intersect Elems(right[l]) = {}
  <2>1. ASSUME NEW t, t \in Elems(right[j]), t \in Elems(right[l])  PROVE FALSE
    <3>1. t[1] = j - 1 /\ t[1] = l - 1
      BY <1>6, <2>1
    <3> QED
      BY <1>9, <3>1
  <2> QED
    BY <2>1
<1>10. ASSUME NEW j \in 1..R - n, NEW l \in 1..R - n, j # l
       PROVE  Elems(below[j]) \intersect Elems(below[l]) = {}
  <2>1. ASSUME NEW t, t \in Elems(below[j]), t \in Elems(below[l])  PROVE FALSE
    <3>1. t[1] = j + n - 1
      BY <1>7, <2>1
    <3>2. t[1] = l + n - 1
      BY <1>7, <2>1
    <3> QED
      BY <1>4, <1>10, <3>1, <3>2
  <2> QED
    BY <2>1
<1> DEFINE u == FlattenSeq(right)
           v == FlattenSeq(below)
<1>11. /\ u \in Seq(Tile) /\ NoRepeat(u)
       /\ \A x : x \in Elems(u) <=> \E j \in 1..R : x \in Elems(right[j])
  BY <1>6, <1>8, <1>9, FlattenOnce
<1>12. /\ v \in Seq(Tile) /\ NoRepeat(v)
       /\ \A x : x \in Elems(v) <=> \E j \in 1..R - n : x \in Elems(below[j])
  BY <1>7, <1>8, <1>10, FlattenOnce
<1> HIDE DEF u, v
<1>13. ASSUME NEW t \in Tile
       PROVE  /\ t \in Elems(u) <=> t[2] >= n
              /\ t \in Elems(v) <=> t[1] >= n /\ t[2] < n
              /\ t[1] \in Nat /\ t[2] \in Nat
  <2>1. PICK x \in 0..R - 1, y \in 0..C - 1 : t = <<x, y>>
    BY DEF Tile
  <2>2. t[1] = x /\ t[2] = y
    BY <2>1
  <2>3. \A j \in 1..R : t \in Elems(right[j]) <=> x = j - 1 /\ y \in n..C - 1
    BY <1>6, <2>2
  <2>4. \A j \in 1..R - n : t \in Elems(below[j]) <=> x = j + n - 1 /\ y \in 0..n - 1
    BY <1>7, <2>2
  <2>5. t \in Elems(u) <=> y >= n
    <3>1. x + 1 \in 1..R /\ (x + 1) - 1 = x
      BY <1>4
    <3>2. y \in n..C - 1 <=> y >= n
      BY <1>4
    <3> QED
      BY <1>11, <2>3, <3>1, <3>2
  <2>6. t \in Elems(v) <=> x >= n /\ y < n
    <3>1. ASSUME x >= n  PROVE (x - n) + 1 \in 1..R - n /\ x = ((x - n) + 1) + n - 1
      BY <1>4, <3>1
    <3>2. ASSUME NEW j \in 1..R - n, x = j + n - 1  PROVE x >= n
      BY <1>4, <3>2
    <3>3. y \in 0..n - 1 <=> y < n
      BY <1>4
    <3>4. ASSUME t \in Elems(v)  PROVE x >= n /\ y < n
      BY <1>12, <2>4, <3>2, <3>3, <3>4
    <3>5. ASSUME x >= n, y < n  PROVE t \in Elems(v)
      BY <1>12, <2>4, <3>1, <3>3, <3>5
    <3> QED
      BY <3>4, <3>5
  <2> QED
    BY <2>2, <2>5, <2>6
<1>14. ASSUME NEW x, x \in Elems(s) \/ x \in Elems(u) \/ x \in Elems(v)  PROVE x \in Tile
  BY <1>3, <1>11, <1>12, <1>14 DEF Elems
<1>15. ASSUME NEW t \in Tile
       PROVE  /\ t \in Elems(s) \/ t \in Elems(u) \/ t \in Elems(v)
              /\ ~(t \in Elems(s) /\ t \in Elems(u))
              /\ ~(t \in Elems(v) /\ (t \in Elems(s) \/ t \in Elems(u)))
  <2>1. t \in Elems(s) <=> t[1] < n /\ t[2] < n
    BY <1>3
  <2>2. PICK x \in Nat, y \in Nat : x = t[1] /\ y = t[2]
    BY <1>13
  <2>3. /\ t \in Elems(s) <=> x < n /\ y < n
        /\ t \in Elems(u) <=> y >= n
        /\ t \in Elems(v) <=> x >= n /\ y < n
    BY <1>13, <2>1, <2>2
  <2>4. (x < n \/ x >= n) /\ ~(x < n /\ x >= n) /\ (y < n \/ y >= n) /\ ~(y < n /\ y >= n)
    BY <1>4
  <2> QED
    BY <2>3, <2>4
<1>16. /\ s \o u \in Seq(Tile) /\ NoRepeat(s \o u)
       /\ Elems(s \o u) = Elems(s) \union Elems(u)
  <2>1. Elems(s) \intersect Elems(u) = {}
    BY <1>14, <1>15
  <2> QED
    BY <1>3, <1>11, <2>1, ConcatOnce
<1>17. /\ (s \o u) \o v \in Seq(Tile) /\ NoRepeat((s \o u) \o v)
       /\ Elems((s \o u) \o v) = Elems(s \o u) \union Elems(v)
  <2>1. Elems(s \o u) \intersect Elems(v) = {}
    BY <1>14, <1>15, <1>16
  <2>2. PICK w : w = s \o u
    OBVIOUS
  <2>3. w \in Seq(Tile) /\ NoRepeat(w) /\ Elems(w) \intersect Elems(v) = {}
    BY <1>16, <2>1, <2>2
  <2>4. /\ w \o v \in Seq(Tile) /\ NoRepeat(w \o v)
        /\ Elems(w \o v) = Elems(w) \union Elems(v)
    BY <1>12, <2>3, ConcatOnce
  <2> QED
    BY <2>2, <2>4
<1>18. HilbertOrder = (s \o u) \o v
  BY <1>5 DEF u, v
<1>19. Len(HilbertOrder) = R * C /\ ToSet(HilbertOrder) = Tile
  <2>1. \A t \in Tile : t \in Elems((s \o u) \o v)
    BY <1>15, <1>16, <1>17
  <2> QED
    BY <1>4, <1>17, <1>18, <2>1, OnceEachTile
<1>20. ASSUME R = C, R \in {Doubled[m] : m \in 0..R}, NEW i \in 1..Len(HilbertOrder) - 1
       PROVE  Neighbours(HilbertOrder[i], HilbertOrder[i + 1])
  <2>1. PICK m \in 0..R : R = Doubled[m]
    BY <1>20
  <2>2. m \in Nat /\ m <= R /\ m <= C
    BY <1>4, <1>20
  <2>3. m <= k /\ k \in Nat
    BY <1>1, <1>4, <1>20, <2>1, <2>2 DEF LargestSide, Side
  <2>4. R <= n
    <3>1. m \in 0..k
      BY <2>2, <2>3
    <3> QED
      BY <1>2, <2>1, <2>3, <3>1, DoubledGrows DEF Side
  <2>5. Len(s) = R * C
    <3>1. n = R
      BY <1>4, <2>4
    <3> QED
      BY <1>3, <1>20, <3>1
  <2>6. Len(s) = Len(HilbertOrder) /\ Len(s) \in Nat
    BY <1>3, <1>19, <2>5
  <2>7. i \in 1..Len(s) /\ i + 1 \in 1..Len(s) /\ i \in 1..Len(s) - 1
    BY <1>20, <2>6
  <2>8. \A j \in 1..Len(s) : HilbertOrder[j] = s[j]
    <3>1. \A j \in 1..Len(s) : (s \o u)[j] = s[j] /\ j \in 1..Len(s \o u)
      BY <1>3, <1>11
    <3>2. \A j \in 1..Len(s \o u) : ((s \o u) \o v)[j] = (s \o u)[j]
      BY <1>12, <1>16
    <3> QED
      BY <1>18, <3>1, <3>2
  <2> QED
    BY <1>3, <2>7, <2>8
<1> QED
  BY <1>19, <1>20

-----------------------------------------------------------------------------
(* The four orders without a walk as the constructor leaves them.           *)
LoopsInv ==
  /\ traversalType \in TraversalType
  /\ traversalType # "SPIRAL" =>
       /\ Sized
       /\ built \in BOOLEAN
       /\ traversal = IF ~built THEN <<>>
                      ELSE IF traversalType = "NAIVE" THEN Naive
                      ELSE IF traversalType = "SNAKE" THEN Snake
                      ELSE IF traversalType = "DIAGONAL" THEN Diagonals
                      ELSE HilbertOrder

LEMMA LoopsInvariant == Spec => []LoopsInv
<1>1. Init => LoopsInv
  BY TilesAssumption DEF Init, LoopsInv, Sized
<1>2. LoopsInv /\ [Next]_vars => LoopsInv'
  <2> SUFFICES ASSUME LoopsInv, [Next]_vars  PROVE  LoopsInv'
    OBVIOUS
  <2>1. UNCHANGED image
    BY DEF Next, Algorithm, SpiralStep, SpiralTurn, SpiralEnd, Done, vars
  <2>2. /\ traversalType \in TraversalType /\ traversalType' = traversalType
        /\ numTileRow' = numTileRow /\ numTileCol' = numTileCol
    BY <2>1 DEF image, LoopsInv
  <2>3. CASE traversalType = "SPIRAL"
    BY <2>2, <2>3 DEF LoopsInv
  <2>4. CASE traversalType # "SPIRAL"
    <3>1. Sized' /\ Naive' = Naive /\ Snake' = Snake /\ Diagonals' = Diagonals
      BY <2>2, <2>4 DEF LoopsInv, Sized, Naive, Snake, Diagonals, Line, SnakeLine, Diagonal
    <3>2. HilbertOrder' = HilbertOrder
      BY <2>2 DEF HilbertOrder, Hilbert, HilbertCurve, SnakeLine, Line
    <3>3. CASE Algorithm
      BY <2>2, <2>4, <3>1, <3>2, <3>3 DEF Algorithm, LoopsInv, HilbertOrder, TraversalType
    <3>4. CASE UNCHANGED <<traversal, built>>
      BY <2>2, <2>4, <3>1, <3>2, <3>4 DEF LoopsInv
    <3> QED
      BY <2>2, <2>4, <3>3, <3>4
         DEF Next, SpiralStep, SpiralTurn, SpiralEnd, Spiralling, Done, vars
  <2> QED
    BY <2>3, <2>4
<1> QED
  BY <1>1, <1>2, PTL DEF Spec

(* Every order asks for each tile of an image of any size once              *)
(* (Traversal.h:270-390, :393).                                             *)
THEOREM EveryOrderVisitsEachTileOnce == Spec => []EachTileOnce
<1>1. LoopsInv => (traversalType # "SPIRAL" => EachTileOnce)
  BY NaiveIsGood, SnakeIsGood, DiagonalsAreGood, HilbertIsGood
     DEF LoopsInv, EachTileOnce, TraversalType
<1>2. (traversalType # "SPIRAL" => EachTileOnce) /\ (traversalType = "SPIRAL" => EachTileOnce)
        => EachTileOnce
  OBVIOUS
<1> QED
  BY <1>1, <1>2, LoopsInvariant, SpiralVisitsEachTileOnce, PTL

(* The snake and the curve in its square go from neighbour to neighbour as  *)
(* the spiral does (Traversal.h:279, :336).                                 *)
THEOREM OrdersGoToNeighbours == Spec => []GoesToNeighbours
<1>1. LoopsInv => (traversalType # "SPIRAL" => GoesToNeighbours)
  <2> SUFFICES ASSUME LoopsInv, traversalType # "SPIRAL" PROVE GoesToNeighbours
    OBVIOUS
  <2>1. CASE traversal = <<>>
    BY <2>1 DEF GoesToNeighbours
  <2>2. CASE traversalType = "SNAKE" /\ traversal = Snake
    BY <2>2, SnakeIsGood DEF GoesToNeighbours, LoopsInv
  <2>3. CASE traversalType = "HILBERT" /\ traversal = HilbertOrder
    BY <2>3, HilbertIsGood DEF GoesToNeighbours, LoopsInv
  <2>4. CASE traversalType \in {"NAIVE", "DIAGONAL"}
    BY <2>4 DEF GoesToNeighbours
  <2> QED
    BY <2>1, <2>2, <2>3, <2>4 DEF LoopsInv, TraversalType
<1>2. (traversalType # "SPIRAL" => GoesToNeighbours) /\ (traversalType = "SPIRAL" => GoesToNeighbours)
        => GoesToNeighbours
  OBVIOUS
<1> QED
  BY <1>1, <1>2, LoopsInvariant, SpiralGoesToNeighbours, PTL
=============================================================================
