-------------------------- MODULE SegmentationProofs --------------------------
(***************************************************************************)
(* The features found are the connected components of the mask, for any    *)
(* image, any mask and any size of tiles: what the flood of a view leaves,  *)
(* what the blobs have noted, the union-find forest that joins them, and    *)
(* the families that are merged.                                            *)
(***************************************************************************)
EXTENDS Segmentation, FeatureCollectionProofs

-----------------------------------------------------------------------------
(* Pixels and tiles.                                                        *)

(* The row and the column of a pixel are those of the image.                *)
LEMMA PixelIsPair ==
  ASSUME NEW p \in Pixel
  PROVE  /\ p = <<p[1], p[2]>>
         /\ p[1] \in Nat /\ p[1] <= ImageHeight - 1
         /\ p[2] \in Nat /\ p[2] <= ImageWidth - 1
BY MaskAssumption DEF Pixel

(* There is an image, and there are tiles.                                  *)
LEMMA Sizes ==
  /\ ImageHeight \in Nat \ {0} /\ ImageWidth \in Nat \ {0}
  /\ TileHeight \in Nat \ {0} /\ TileWidth \in Nat \ {0}
BY MaskAssumption

(* An image has finitely many pixels.                                       *)
LEMMA PixelsAreFinite == IsFiniteSet(Pixel)
<1>1. IsFiniteSet(0..ImageHeight - 1) /\ IsFiniteSet(0..ImageWidth - 1)
  <2>1. ImageHeight - 1 \in Int /\ ImageWidth - 1 \in Int
    BY Sizes
  <2> QED
    BY <2>1, FS_Interval
<1> QED
  BY <1>1, FS_Product DEF Pixel

(* Every pixel is in a tile.                                                *)
LEMMA TileOfPixel ==
  ASSUME NEW p \in Pixel
  PROVE  TileOf(p) \in Tile /\ p \in PixelsOf(TileOf(p))
<1>1. /\ p[1] \in Nat /\ ImageHeight - 1 \in Nat /\ p[1] <= ImageHeight - 1
      /\ p[2] \in Nat /\ ImageWidth - 1 \in Nat /\ p[2] <= ImageWidth - 1
  BY PixelIsPair, Sizes
<1>2. /\ 0 <= p[1] \div TileHeight
      /\ p[1] \div TileHeight <= (ImageHeight - 1) \div TileHeight
  BY <1>1, Sizes, DivMonotone
<1>3. /\ 0 <= p[2] \div TileWidth
      /\ p[2] \div TileWidth <= (ImageWidth - 1) \div TileWidth
  BY <1>1, Sizes, DivMonotone
<1>4. /\ p[1] \div TileHeight \in Int /\ (ImageHeight - 1) \div TileHeight \in Int
      /\ p[2] \div TileWidth \in Int /\ (ImageWidth - 1) \div TileWidth \in Int
  BY <1>1, Sizes
<1> QED
  BY <1>2, <1>3, <1>4 DEF TileOf, Tile, PixelsOf

(* A row above a tile's first one is another tile's.                        *)
LEMMA RowAbove ==
  ASSUME NEW x \in Nat \ {0}, NEW t \in Nat \ {0}, (x - 1) \div t # x \div t
  PROVE  x % t = 0
<1> DEFINE a == (x - 1) \div t
           b == x \div t
           c == x % t
           d == (x - 1) % t
<1>1. /\ a \in Int /\ b \in Int /\ c \in 0..t - 1 /\ d \in 0..t - 1
      /\ x - 1 = t * a + d /\ x = t * b + c
  <2>1. x - 1 \in Nat
    OBVIOUS
  <2> QED
    BY <2>1, Division
<1>2. a # b
  OBVIOUS
<1> HIDE DEF a, b, c, d
<1>3. CASE a < b
  <2>1. t * (a + 1) <= t * b /\ t * (a + 1) = t * a + t
    BY <1>1, <1>3
  <2>2. c = 0
    BY <1>1, <2>1
  <2> QED
    BY <2>2 DEF c
<1>4. CASE b < a
  <2>1. t * (b + 1) <= t * a /\ t * (b + 1) = t * b + t
    BY <1>1, <1>4
  <2> QED
    BY <1>1, <2>1
<1> QED
  BY <1>1, <1>2, <1>3, <1>4

(* The row above the first one of a tile is another tile's.                 *)
LEMMA FirstRowBelow ==
  ASSUME NEW x \in Nat \ {0}, NEW t \in Nat \ {0}, x % t = 0
  PROVE  (x - 1) \div t # x \div t
<1> DEFINE a == (x - 1) \div t
           d == (x - 1) % t
<1>1. /\ a \in Int /\ d \in 0..t - 1 /\ x - 1 = t * a + d
      /\ x \div t \in Int /\ x = t * (x \div t) + (x % t)
  <2>1. x - 1 \in Nat
    OBVIOUS
  <2> QED
    BY <2>1, Division
<1> HIDE DEF a, d
<1>2. a # x \div t
  <2>1. SUFFICES ASSUME a = x \div t PROVE FALSE
    OBVIOUS
  <2>2. x = t * a
    BY <1>1, <2>1
  <2> QED
    BY <1>1, <2>2
<1> QED
  BY <1>2 DEF a

(* The first of some pixels is one of them.                                 *)
LEMMA FirstIsIn ==
  ASSUME NEW S \in SUBSET Pixel, S # {}
  PROVE  First(S) \in S
<1> DEFINE Rows == {p[1] : p \in S}
<1>1. Rows \in SUBSET Nat /\ Rows # {}
  BY PixelIsPair
<1>2. PICK r \in Rows : \A n \in Rows : r <= n
  <2> HIDE DEF Rows
  <2> QED
    BY <1>1, LeastNumber
<1> DEFINE Cols == {p[2] : p \in {q \in S : q[1] = r}}
<1>3. Cols \in SUBSET Nat /\ Cols # {}
  BY PixelIsPair
<1>4. PICK c \in Cols : \A n \in Cols : c <= n
  <2> HIDE DEF Cols
  <2> QED
    BY <1>3, LeastNumber
<1>5. PICK p \in S : p[1] = r /\ p[2] = c
  OBVIOUS
<1>6. ASSUME NEW q \in S  PROVE p[1] < q[1] \/ (p[1] = q[1] /\ p[2] <= q[2])
  <2>1. p[1] <= q[1] /\ p[1] \in Nat /\ q[1] \in Nat
    BY <1>2, <1>5, PixelIsPair
  <2>2. p[1] = q[1] => p[2] <= q[2]
    BY <1>4, <1>5
  <2> QED
    BY <2>1, <2>2
<1> QED
  BY <1>6 DEF First

-----------------------------------------------------------------------------
(* Neighbours.                                                              *)

(* Adjacent, with the connectivity as a parameter; so are the definitions   *)
(* below.                                                                   *)
NextTo(c, p, q) ==
  p # q /\ q \in (IF c = 4 THEN Neighbours4(p) ELSE Neighbours8(p))

(* Neighbours are neighbours of each other.                                 *)
LEMMA NextToIsSymmetric ==
  ASSUME NEW c, NEW p \in Pixel, NEW q \in Pixel, NextTo(c, p, q)
  PROVE  NextTo(c, q, p)
<1>1. /\ p = <<p[1], p[2]>> /\ q = <<q[1], q[2]>>
      /\ p[1] \in Nat /\ p[2] \in Nat /\ q[1] \in Nat /\ q[2] \in Nat
  BY PixelIsPair
<1>2. CASE c = 4
  <2>1. \/ q[1] = p[1] + 1 /\ q[2] = p[2]
        \/ q[1] = p[1] /\ q[2] = p[2] + 1
        \/ q[1] = p[1] - 1 /\ q[2] = p[2]
        \/ q[1] = p[1] /\ q[2] = p[2] - 1
    BY <1>1, <1>2 DEF NextTo, Neighbours4, Below, OnRight
  <2>2. \/ p[1] = q[1] + 1 /\ p[2] = q[2]
        \/ p[1] = q[1] /\ p[2] = q[2] + 1
        \/ p[1] = q[1] - 1 /\ p[2] = q[2]
        \/ p[1] = q[1] /\ p[2] = q[2] - 1
    BY <1>1, <2>1
  <2> QED
    BY <1>1, <1>2, <2>2 DEF NextTo, Neighbours4, Below, OnRight
<1>3. CASE c # 4
  <2>1. q[1] \in p[1] - 1..p[1] + 1 /\ q[2] \in p[2] - 1..p[2] + 1
    BY <1>1, <1>3 DEF NextTo, Neighbours8
  <2>2. p[1] \in q[1] - 1..q[1] + 1 /\ p[2] \in q[2] - 1..q[2] + 1
    BY <1>1, <2>1
  <2> QED
    BY <1>1, <1>3, <2>2 DEF NextTo, Neighbours8
<1> QED
  BY <1>2, <1>3

(* What a pixel looks at in other tiles, with connectivity c.               *)
LooksAt(c, p, q) == Touches4(p, q) \/ (c = 8 /\ TouchesDiagonally(p, q))

(* A pixel looks at pixels of the image that are next to it, in other tiles. *)
LEMMA LookedAtIsNext ==
  ASSUME NEW c \in {4, 8}, NEW p \in Pixel, NEW q, LooksAt(c, p, q)
  PROVE  q \in Pixel /\ NextTo(c, p, q) /\ TileOf(q) # TileOf(p)
<1>1. /\ p = <<p[1], p[2]>> /\ p[1] \in Nat /\ p[2] \in Nat
      /\ p[1] <= ImageHeight - 1 /\ p[2] <= ImageWidth - 1
  BY PixelIsPair
<1>2. CASE q = Below(p) /\ LastRow(p) /\ p[1] + 1 # ImageHeight
  <2>1. q = <<p[1] + 1, p[2]>> /\ TileOf(q) # TileOf(p)
    BY <1>2 DEF Below, LastRow
  <2>2. p[1] + 1 \in 0..ImageHeight - 1
    BY <1>1, <1>2, Sizes
  <2>3. q \in Pixel
    BY <1>1, <2>1, <2>2, Sizes DEF Pixel
  <2> QED
    BY <1>1, <2>1, <2>3 DEF NextTo, Neighbours4, Neighbours8, Below
<1>3. CASE q = OnRight(p) /\ LastCol(p) /\ p[2] + 1 # ImageWidth
  <2>1. q = <<p[1], p[2] + 1>> /\ TileOf(q) # TileOf(p)
    BY <1>3 DEF OnRight, LastCol
  <2>2. p[2] + 1 \in 0..ImageWidth - 1
    BY <1>1, <1>3, Sizes
  <2>3. q \in Pixel
    BY <1>1, <2>1, <2>2, Sizes DEF Pixel
  <2> QED
    BY <1>1, <2>1, <2>3 DEF NextTo, Neighbours4, Neighbours8, OnRight
<1>4. CASE /\ c = 8 /\ q = BelowRight(p) /\ (LastCol(p) \/ LastRow(p))
           /\ p[1] + 1 # ImageHeight /\ p[2] + 1 # ImageWidth
  <2>1. q = <<p[1] + 1, p[2] + 1>>
    BY <1>4 DEF BelowRight
  <2>2. TileOf(q) # TileOf(p)
    BY <1>4, <2>1 DEF LastCol, LastRow, TileOf, Below, OnRight
  <2>3. p[1] + 1 \in 0..ImageHeight - 1 /\ p[2] + 1 \in 0..ImageWidth - 1
    BY <1>1, <1>4, Sizes
  <2>4. q \in Pixel
    BY <2>1, <2>3 DEF Pixel
  <2> QED
    BY <1>1, <1>4, <2>1, <2>2, <2>4 DEF NextTo, Neighbours8
<1>5. CASE /\ c = 8 /\ q = AboveRight(p) /\ (LastCol(p) \/ FirstRow(p))
           /\ p[1] > 0 /\ p[2] + 1 # ImageWidth
  <2>1. q = <<p[1] - 1, p[2] + 1>>
    BY <1>5 DEF AboveRight
  <2>2. TileOf(q) # TileOf(p)
    <3>1. CASE LastCol(p)
      BY <1>5, <2>1, <3>1 DEF LastCol, TileOf, OnRight
    <3>2. CASE FirstRow(p)
      <4>1. p[1] \in Nat \ {0} /\ p[1] % TileHeight = 0
        BY <1>1, <1>5, <3>2 DEF FirstRow
      <4>2. (p[1] - 1) \div TileHeight # p[1] \div TileHeight
        BY <4>1, FirstRowBelow, Sizes
      <4> QED
        BY <2>1, <4>2 DEF TileOf
    <3> QED
      BY <1>5, <3>1, <3>2
  <2>3. p[1] - 1 \in 0..ImageHeight - 1 /\ p[2] + 1 \in 0..ImageWidth - 1
    BY <1>1, <1>5, Sizes
  <2>4. q \in Pixel
    BY <2>1, <2>3 DEF Pixel
  <2> QED
    BY <1>1, <1>5, <2>1, <2>2, <2>4 DEF NextTo, Neighbours8
<1> QED
  BY <1>2, <1>3, <1>4, <1>5 DEF LooksAt, Touches4, TouchesDiagonally

(* Of two neighbours in different tiles, one looks at the other.            *)
LEMMA NextInOtherTile ==
  ASSUME NEW c \in {4, 8}, NEW p \in Pixel, NEW q \in Pixel,
         NextTo(c, p, q), TileOf(p) # TileOf(q)
  PROVE  LooksAt(c, p, q) \/ LooksAt(c, q, p)
<1>1. /\ p = <<p[1], p[2]>> /\ p[1] \in Nat /\ p[2] \in Nat
      /\ p[1] <= ImageHeight - 1 /\ p[2] <= ImageWidth - 1
      /\ q = <<q[1], q[2]>> /\ q[1] \in Nat /\ q[2] \in Nat
      /\ q[1] <= ImageHeight - 1 /\ q[2] <= ImageWidth - 1
  BY PixelIsPair
<1>2. ASSUME NEW u \in Pixel, NEW v \in Pixel, v = Below(u), TileOf(u) # TileOf(v)
      PROVE  LooksAt(c, u, v)
  <2>1. u[1] + 1 # ImageHeight /\ LastRow(u)
    BY <1>2, PixelIsPair, Sizes DEF Below, LastRow
  <2> QED
    BY <1>2, <2>1 DEF LooksAt, Touches4
<1>3. ASSUME NEW u \in Pixel, NEW v \in Pixel, v = OnRight(u), TileOf(u) # TileOf(v)
      PROVE  LooksAt(c, u, v)
  <2>1. u[2] + 1 # ImageWidth /\ LastCol(u)
    BY <1>3, PixelIsPair, Sizes DEF OnRight, LastCol
  <2> QED
    BY <1>3, <2>1 DEF LooksAt, Touches4
<1>4. ASSUME NEW u \in Pixel, NEW v \in Pixel, v = BelowRight(u), TileOf(u) # TileOf(v), c = 8
      PROVE  LooksAt(c, u, v)
  <2>1. u[1] + 1 # ImageHeight /\ u[2] + 1 # ImageWidth
    BY <1>4, PixelIsPair, Sizes DEF BelowRight
  <2>2. LastCol(u) \/ LastRow(u)
    BY <1>4 DEF LastCol, LastRow, BelowRight, Below, OnRight, TileOf
  <2> QED
    BY <1>4, <2>1, <2>2 DEF LooksAt, TouchesDiagonally
<1>5. ASSUME NEW u \in Pixel, NEW v \in Pixel, v = AboveRight(u), TileOf(u) # TileOf(v), c = 8
      PROVE  LooksAt(c, u, v)
  <2>1. u[1] \in Nat \ {0} /\ u[2] + 1 # ImageWidth
    BY <1>5, PixelIsPair, Sizes DEF AboveRight
  <2>2. (u[1] - 1) \div TileHeight # u[1] \div TileHeight \/ LastCol(u)
    BY <1>5 DEF LastCol, AboveRight, OnRight, TileOf
  <2>3. LastCol(u) \/ FirstRow(u)
    BY <2>1, <2>2, RowAbove, Sizes DEF FirstRow
  <2> QED
    BY <1>5, <2>1, <2>3 DEF LooksAt, TouchesDiagonally
<1>6. CASE c = 4
  <2>1. q = Below(p) \/ q = OnRight(p) \/ p = Below(q) \/ p = OnRight(q)
    BY <1>1, <1>6 DEF NextTo, Neighbours4, Below, OnRight
  <2> QED
    BY <1>2, <1>3, <2>1
<1>7. CASE c = 8
  <2>1. q[1] \in p[1] - 1..p[1] + 1 /\ q[2] \in p[2] - 1..p[2] + 1 /\ p # q
    BY <1>1, <1>7 DEF NextTo, Neighbours8
  <2>2. \/ q = Below(p) \/ q = OnRight(p) \/ q = BelowRight(p) \/ q = AboveRight(p)
        \/ p = Below(q) \/ p = OnRight(q) \/ p = BelowRight(q) \/ p = AboveRight(q)
    BY <1>1, <2>1 DEF Below, OnRight, BelowRight, AboveRight
  <2> QED
    BY <1>2, <1>3, <1>4, <1>5, <1>7, <2>2
<1> QED
  BY <1>6, <1>7

-----------------------------------------------------------------------------
(* Blobs.                                                                   *)

(* A blob's count and box are those of its pixels.                          *)
Described(B) ==
  /\ B.pixels \in SUBSET Pixel /\ B.pixels # {}
  /\ B.count = Cardinality(B.pixels)
  /\ \A p \in B.pixels : /\ B.rowMin <= p[1] /\ p[1] + 1 <= B.rowMax
                         /\ B.colMin <= p[2] /\ p[2] + 1 <= B.colMax
  /\ \E p, q \in B.pixels : p[1] = B.rowMin /\ q[1] + 1 = B.rowMax
  /\ \E p, q \in B.pixels : p[2] = B.colMin /\ q[2] + 1 = B.colMax

(* The bounds of a described blob are numbers.                              *)
LEMMA BoxIsInt ==
  ASSUME NEW B, Described(B)
  PROVE  B.rowMin \in Int /\ B.rowMax \in Int /\ B.colMin \in Int /\ B.colMax \in Int
<1>1. \A p \in B.pixels : p[1] \in Int /\ p[2] \in Int /\ p[1] + 1 \in Int /\ p[2] + 1 \in Int
  BY PixelIsPair DEF Described
<1> QED
  BY <1>1 DEF Described

(* A new blob is described.                                                 *)
LEMMA NewBlobDescribed ==
  ASSUME NEW p \in Pixel
  PROVE  Described(NewBlob(p)) /\ NewBlob(p).pixels = {p}
<1>1. Cardinality({p}) = 1
  BY FS_Singleton
<1>2. p[1] \in Int /\ p[2] \in Int
  BY PixelIsPair
<1> QED
  BY <1>1, <1>2 DEF Described, NewBlob

(* The least and the greatest of two sets' bounds.                          *)
LEMMA BoundsOfBoth ==
  ASSUME NEW x \in Int, NEW y \in Int
  PROVE  /\ Smaller(x, y) \in {x, y} /\ Smaller(x, y) <= x /\ Smaller(x, y) <= y
         /\ Larger(x, y) \in {x, y} /\ x <= Larger(x, y) /\ y <= Larger(x, y)
BY DEF Smaller, Larger

(* Merging blobs without a common pixel keeps count and box right.          *)
LEMMA MergedDescribed ==
  ASSUME NEW B, NEW C, Described(B), Described(C), B.pixels \intersect C.pixels = {}
  PROVE  /\ Described(Merged(B, C))
         /\ Merged(B, C).pixels = B.pixels \union C.pixels
<1> DEFINE M == Merged(B, C)
<1>1. /\ M.pixels = B.pixels \union C.pixels /\ M.count = B.count + C.count
      /\ M.rowMin = Smaller(B.rowMin, C.rowMin) /\ M.rowMax = Larger(B.rowMax, C.rowMax)
      /\ M.colMin = Smaller(B.colMin, C.colMin) /\ M.colMax = Larger(B.colMax, C.colMax)
  BY DEF Merged
<1> HIDE DEF M
<1>2. /\ B.rowMin \in Int /\ B.rowMax \in Int /\ B.colMin \in Int /\ B.colMax \in Int
      /\ C.rowMin \in Int /\ C.rowMax \in Int /\ C.colMin \in Int /\ C.colMax \in Int
  BY BoxIsInt
<1>3. M.pixels \in SUBSET Pixel /\ M.pixels # {}
  BY <1>1 DEF Described
<1>4. M.count = Cardinality(M.pixels)
  <2>1. IsFiniteSet(B.pixels) /\ IsFiniteSet(C.pixels)
    BY PixelsAreFinite, FS_Subset DEF Described
  <2>2. /\ Cardinality(B.pixels) \in Nat /\ Cardinality(C.pixels) \in Nat
        /\ Cardinality({}) = 0
    BY <2>1, FS_CardinalityType, FS_EmptySet
  <2>3. Cardinality(B.pixels \union C.pixels)
          = Cardinality(B.pixels) + Cardinality(C.pixels)
              - Cardinality(B.pixels \intersect C.pixels)
    BY <2>1, FS_Union
  <2>4. Cardinality(B.pixels \intersect C.pixels) = 0
    BY <2>2
  <2>5. B.count = Cardinality(B.pixels) /\ C.count = Cardinality(C.pixels)
    BY DEF Described
  <2> QED
    BY <1>1, <2>2, <2>3, <2>4, <2>5
<1>5. \A p \in M.pixels : M.rowMin <= p[1] /\ p[1] + 1 <= M.rowMax
  <2>1. SUFFICES ASSUME NEW p \in M.pixels  PROVE M.rowMin <= p[1] /\ p[1] + 1 <= M.rowMax
    OBVIOUS
  <2>2. p[1] \in Int
    BY <1>3, PixelIsPair
  <2>3. /\ M.rowMin <= B.rowMin /\ M.rowMin <= C.rowMin /\ M.rowMin \in Int
        /\ B.rowMax <= M.rowMax /\ C.rowMax <= M.rowMax /\ M.rowMax \in Int
    BY <1>1, <1>2, BoundsOfBoth
  <2>4. \/ B.rowMin <= p[1] /\ p[1] + 1 <= B.rowMax
        \/ C.rowMin <= p[1] /\ p[1] + 1 <= C.rowMax
    BY <1>1 DEF Described
  <2> QED
    BY <1>2, <2>2, <2>3, <2>4
<1>6. \A p \in M.pixels : M.colMin <= p[2] /\ p[2] + 1 <= M.colMax
  <2>1. SUFFICES ASSUME NEW p \in M.pixels  PROVE M.colMin <= p[2] /\ p[2] + 1 <= M.colMax
    OBVIOUS
  <2>2. p[2] \in Int
    BY <1>3, PixelIsPair
  <2>3. /\ M.colMin <= B.colMin /\ M.colMin <= C.colMin /\ M.colMin \in Int
        /\ B.colMax <= M.colMax /\ C.colMax <= M.colMax /\ M.colMax \in Int
    BY <1>1, <1>2, BoundsOfBoth
  <2>4. \/ B.colMin <= p[2] /\ p[2] + 1 <= B.colMax
        \/ C.colMin <= p[2] /\ p[2] + 1 <= C.colMax
    BY <1>1 DEF Described
  <2> QED
    BY <1>2, <2>2, <2>3, <2>4
<1>7. \E p, q \in M.pixels : p[1] = M.rowMin /\ q[1] + 1 = M.rowMax
  <2>1. \E p \in M.pixels : p[1] = M.rowMin
    BY <1>1, <1>2, BoundsOfBoth DEF Described
  <2>2. \E q \in M.pixels : q[1] + 1 = M.rowMax
    BY <1>1, <1>2, BoundsOfBoth DEF Described
  <2> QED
    BY <2>1, <2>2
<1>8. \E p, q \in M.pixels : p[2] = M.colMin /\ q[2] + 1 = M.colMax
  <2>1. \E p \in M.pixels : p[2] = M.colMin
    BY <1>1, <1>2, BoundsOfBoth DEF Described
  <2>2. \E q \in M.pixels : q[2] + 1 = M.colMax
    BY <1>1, <1>2, BoundsOfBoth DEF Described
  <2> QED
    BY <2>1, <2>2
<1>9. Described(M)
  BY <1>3, <1>4, <1>5, <1>6, <1>7, <1>8 DEF Described
<1> QED
  BY <1>1, <1>9 DEF M

(* Adding a pixel is merging with a blob of this pixel.                     *)
LEMMA AddedDescribed ==
  ASSUME NEW B, Described(B), NEW p \in Pixel, p \notin B.pixels
  PROVE  /\ Described(AddPixel(B, p))
         /\ AddPixel(B, p).pixels = B.pixels \union {p}
<1>1. AddPixel(B, p) = Merged(B, NewBlob(p))
  BY DEF AddPixel, Merged, NewBlob
<1> QED
  BY <1>1, NewBlobDescribed, MergedDescribed

-----------------------------------------------------------------------------
(* Connected sets of pixels.                                                *)

ConnectedBy(c, S) ==
  \A T \in SUBSET S : T # {} /\ T # S => \E p \in T, q \in S \ T : NextTo(c, p, q)

ApartBy(c, S, T) == \A p \in S, q \in T : ~NextTo(c, p, q)

(* A pixel is connected.                                                    *)
LEMMA OnePixelIsConnected ==
  ASSUME NEW c, NEW p
  PROVE  ConnectedBy(c, {p})
BY DEF ConnectedBy

(* Two connected sets with neighbours in them are connected together.       *)
LEMMA ConnectedUnion ==
  ASSUME NEW c, NEW S \in SUBSET Pixel, NEW U \in SUBSET Pixel,
         ConnectedBy(c, S), ConnectedBy(c, U),
         NEW s \in S, NEW u \in U, NextTo(c, s, u)
  PROVE  ConnectedBy(c, S \union U)
<1> SUFFICES ASSUME NEW T \in SUBSET (S \union U), T # {}, T # S \union U
             PROVE  \E p \in T, q \in (S \union U) \ T : NextTo(c, p, q)
  BY DEF ConnectedBy
<1>1. CASE T \intersect S # {} /\ T \intersect S # S
  <2>1. PICK p \in T \intersect S, q \in S \ (T \intersect S) : NextTo(c, p, q)
    BY <1>1 DEF ConnectedBy
  <2> QED
    BY <2>1
<1>2. CASE T \intersect U # {} /\ T \intersect U # U
  <2>1. PICK p \in T \intersect U, q \in U \ (T \intersect U) : NextTo(c, p, q)
    BY <1>2 DEF ConnectedBy
  <2> QED
    BY <2>1
<1>3. CASE T \intersect S = S /\ T \intersect U = {}
  BY <1>3
<1>4. CASE T \intersect S = {} /\ T \intersect U = U
  <2>1. NextTo(c, u, s)
    BY NextToIsSymmetric
  <2> QED
    BY <1>4, <2>1
<1> QED
  BY <1>1, <1>2, <1>3, <1>4

-----------------------------------------------------------------------------
(* What addToMerge is called with.                                          *)

(* The elements of two lists put together.                                  *)
LEMMA ElemsOfBoth ==
  ASSUME NEW S, NEW s \in Seq(S), NEW t \in Seq(S)
  PROVE  s \o t \in Seq(S) /\ Elems(s \o t) = Elems(s) \union Elems(t)
<1> DEFINE u == s \o t
<1>1. /\ u \in Seq(S) /\ Len(u) = Len(s) + Len(t) /\ Len(s) \in Nat /\ Len(t) \in Nat
      /\ \A i \in 1..Len(u) : u[i] = IF i <= Len(s) THEN s[i] ELSE t[i - Len(s)]
  OBVIOUS
<1> HIDE DEF u
<1>2. ASSUME NEW x \in Elems(u)  PROVE x \in Elems(s) \union Elems(t)
  <2>1. PICK i \in 1..Len(u) : x = u[i]
    BY DEF Elems
  <2>2. CASE i <= Len(s)
    BY <1>1, <2>1, <2>2 DEF Elems
  <2>3. CASE ~(i <= Len(s))
    <3>1. i - Len(s) \in 1..Len(t) /\ x = t[i - Len(s)]
      BY <1>1, <2>1, <2>3
    <3> QED
      BY <3>1 DEF Elems
  <2> QED
    BY <2>2, <2>3
<1>3. ASSUME NEW x \in Elems(s)  PROVE x \in Elems(u)
  <2>1. PICK i \in 1..Len(s) : x = s[i]
    BY DEF Elems
  <2>2. i \in 1..Len(u) /\ u[i] = x
    BY <1>1, <2>1
  <2> QED
    BY <2>2 DEF Elems
<1>4. ASSUME NEW x \in Elems(t)  PROVE x \in Elems(u)
  <2>1. PICK i \in 1..Len(t) : x = t[i]
    BY DEF Elems
  <2>2. i + Len(s) \in 1..Len(u) /\ ~(i + Len(s) <= Len(s)) /\ (i + Len(s)) - Len(s) = i
    BY <1>1
  <2>3. u[i + Len(s)] = x
    BY <1>1, <2>1, <2>2
  <2> QED
    BY <2>2, <2>3 DEF Elems
<1>5. Elems(u) = Elems(s) \union Elems(t)
  BY <1>2, <1>3, <1>4
<1> QED
  BY <1>1, <1>5 DEF u

(* In the image, the view has the image's pixels.                           *)
LEMMA ForegroundIsMask ==
  ASSUME NEW q \in Pixel
  PROVE  IsForeground(q) <=> q \in mask
<1>1. /\ q = <<q[1], q[2]>> /\ q[1] \in Nat /\ q[2] \in Nat
      /\ q[1] <= ImageHeight - 1 /\ q[2] <= ImageWidth - 1
  BY PixelIsPair
<1>2. /\ Smaller(Larger(q[1], 0), ImageHeight - 1) = q[1]
      /\ Smaller(Larger(q[2], 0), ImageWidth - 1) = q[2]
  BY <1>1, Sizes DEF Smaller, Larger
<1> QED
  BY <1>1, <1>2 DEF IsForeground

(* addToMerge is called for a pixel of the mask that is looked at.          *)
LEMMA AddedToMerge ==
  ASSUME connectivity \in {4, 8}, NEW p \in Pixel, NEW q
  PROVE  /\ AddToMerge(p, q) \in Seq(mask)
         /\ Elems(AddToMerge(p, q)) = {x \in mask : x = q /\ LooksAt(connectivity, p, q)}
<1>1. CASE q \in mask /\ LooksAt(connectivity, p, q)
  <2>1. q \in Pixel
    BY <1>1, LookedAtIsNext
  <2>2. AddToMerge(p, q) = <<q>>
    BY <1>1, <2>1, ForegroundIsMask DEF AddToMerge, LooksAt
  <2>3. Elems(<<q>>) = {q}
    BY DEF Elems
  <2> QED
    BY <1>1, <2>2, <2>3
<1>2. CASE ~(q \in mask /\ LooksAt(connectivity, p, q))
  <2>1. LooksAt(connectivity, p, q) => ~IsForeground(q)
    BY <1>2, LookedAtIsNext, ForegroundIsMask
  <2>2. AddToMerge(p, q) = <<>>
    BY <2>1 DEF AddToMerge, LooksAt
  <2>3. Elems(<<>>) = {}
    BY DEF Elems
  <2> QED
    BY <1>2, <2>2, <2>3
<1> QED
  BY <1>1, <1>2

(* All that a pixel looks at is noted, and nothing else.                    *)
LEMMA TouchedPixels ==
  ASSUME connectivity \in {4, 8}, NEW p \in Pixel
  PROVE  /\ Touched(p) \in Seq(mask)
         /\ Elems(Touched(p)) = {x \in mask : LooksAt(connectivity, p, x)}
<1> DEFINE a == AddToMerge(p, Below(p))
           b == AddToMerge(p, OnRight(p))
           c == AddToMerge(p, BelowRight(p))
           d == AddToMerge(p, AboveRight(p))
<1>1. /\ a \in Seq(mask) /\ b \in Seq(mask) /\ c \in Seq(mask) /\ d \in Seq(mask)
      /\ Elems(a) = {x \in mask : x = Below(p) /\ LooksAt(connectivity, p, Below(p))}
      /\ Elems(b) = {x \in mask : x = OnRight(p) /\ LooksAt(connectivity, p, OnRight(p))}
      /\ Elems(c) = {x \in mask : x = BelowRight(p) /\ LooksAt(connectivity, p, BelowRight(p))}
      /\ Elems(d) = {x \in mask : x = AboveRight(p) /\ LooksAt(connectivity, p, AboveRight(p))}
  BY AddedToMerge
<1>2. Touched(p) = a \o b \o c \o d
  BY DEF Touched
<1> HIDE DEF a, b, c, d
<1> DEFINE ab == a \o b
           abc == ab \o c
<1>3. ab \in Seq(mask) /\ Elems(ab) = Elems(a) \union Elems(b)
  BY <1>1, ElemsOfBoth
<1> HIDE DEF ab
<1>4. abc \in Seq(mask) /\ Elems(abc) = Elems(ab) \union Elems(c)
  BY <1>1, <1>3, ElemsOfBoth
<1> HIDE DEF abc
<1>5. abc \o d \in Seq(mask) /\ Elems(abc \o d) = Elems(abc) \union Elems(d)
  BY <1>1, <1>4, ElemsOfBoth
<1>6. Touched(p) = abc \o d
  BY <1>2 DEF ab, abc
<1>7. ASSUME NEW x, LooksAt(connectivity, p, x)
      PROVE  x = Below(p) \/ x = OnRight(p) \/ x = BelowRight(p) \/ x = AboveRight(p)
  BY <1>7 DEF LooksAt, Touches4, TouchesDiagonally
<1>8. Elems(Touched(p)) = Elems(a) \union Elems(b) \union Elems(c) \union Elems(d)
  BY <1>3, <1>4, <1>5, <1>6
<1>9. Elems(Touched(p)) = {x \in mask : LooksAt(connectivity, p, x)}
  BY <1>1, <1>7, <1>8
<1> QED
  BY <1>5, <1>9, <1>6

-----------------------------------------------------------------------------
(* The state of the loops.                                                  *)

LoopInv ==
  /\ mask \in SUBSET Pixel /\ connectivity \in {4, 8}
  /\ phase \in {"gathering", "uniting", "merging", "done"}
  /\ analysed \in SUBSET Tile
  /\ phase # "gathering" => analysed = Tile
  /\ tile # NoTile => tile \in Tile \ analysed
  /\ tile = NoTile => unscanned = {} /\ SavedBlobs = {}
  /\ unscanned \in SUBSET PixelsOf(tile)
  /\ foreground \in SUBSET (mask \intersect unscanned)
  /\ toVisit \in SUBSET foreground
  /\ toVisit # {} => currentBlob # NoBlob

(* The pixels of a tile.                                                    *)
LEMMA Pixels == \A t : PixelsOf(t) \in SUBSET Pixel /\ \A p \in PixelsOf(t) : TileOf(p) = t
BY DEF PixelsOf

(* What the actions of the analyser do, as the invariants read them.        *)
LEMMA Starting ==
  ASSUME LoopInv, NEW t \in Tile \ analysed, StartView(t), UNCHANGED mergerVars
  PROVE  /\ tile = NoTile /\ SavedBlobs = {} /\ tile' = t /\ SavedBlobs' = {}
         /\ foreground' = mask \intersect PixelsOf(t) /\ unscanned' = PixelsOf(t)
         /\ toVisit' = {} /\ viewToMerge' = <<>>
         /\ UNCHANGED <<mask, connectivity, blob, phase, analysed, blobs, toMerge>>
BY DEF LoopInv, StartView, SavedBlobs, mergerVars, maskVars

(* One turn of the inner loop takes a pixel of the tile to a saved blob.    *)
LEMMA Visiting ==
  ASSUME LoopInv, VisitNeighbour, UNCHANGED mergerVars
  PROVE  /\ phase = "gathering" /\ tile \in Tile \ analysed /\ tile # NoTile
         /\ currentBlob \in SavedBlobs /\ currentBlob # NoBlob
         /\ SavedBlobs' = SavedBlobs /\ currentBlob' = currentBlob
         /\ \E p \in toVisit :
              /\ p \in foreground /\ p \in mask /\ p \in Pixel /\ TileOf(p) = tile
              /\ blob' = [blob EXCEPT ![currentBlob] = AddPixel(@, p)]
              /\ foreground' = foreground \ {p}
              /\ toVisit' = (toVisit \ {p}) \union NeedVisit(p, foreground \ {p})
              /\ viewToMerge' =
                   [b \in DOMAIN viewToMerge \union {currentBlob} |->
                      IF b = currentBlob THEN viewToMerge[currentBlob] \o Touched(p)
                      ELSE viewToMerge[b]]
         /\ UNCHANGED <<mask, connectivity, tile, unscanned, phase, analysed, blobs, toMerge>>
<1> DEFINE p == First(toVisit)
<1>1. toVisit \in SUBSET Pixel /\ toVisit # {} /\ toVisit \in SUBSET foreground
      /\ foreground \in SUBSET mask /\ foreground \in SUBSET PixelsOf(tile)
  BY DEF LoopInv, VisitNeighbour
<1>2. p \in toVisit
  BY <1>1, FirstIsIn
<1>3. tile # NoTile /\ tile \in Tile \ analysed /\ phase = "gathering" /\ currentBlob # NoBlob
  BY <1>1 DEF LoopInv
<1>4. currentBlob \in SavedBlobs /\ SavedBlobs' = SavedBlobs /\ currentBlob' = currentBlob
  BY <1>3 DEF SavedBlobs, VisitNeighbour
<1>5. UNCHANGED <<mask, connectivity, tile, unscanned, phase, analysed, blobs, toMerge>>
  BY DEF VisitNeighbour, mergerVars, maskVars
<1>6. /\ blob' = [blob EXCEPT ![currentBlob] = AddPixel(@, p)]
      /\ foreground' = foreground \ {p}
      /\ toVisit' = (toVisit \ {p}) \union NeedVisit(p, foreground \ {p})
      /\ viewToMerge' =
           [b \in DOMAIN viewToMerge \union {currentBlob} |->
              IF b = currentBlob THEN viewToMerge[currentBlob] \o Touched(p)
              ELSE viewToMerge[b]]
  BY DEF VisitNeighbour, Reach
<1>7. p \in foreground /\ p \in mask /\ p \in Pixel /\ TileOf(p) = tile
  BY <1>1, <1>2, Pixels
<1> HIDE DEF p
<1> QED
  BY <1>2, <1>3, <1>4, <1>5, <1>6, <1>7

(* A pixel that the flood has reached, or of the background.                *)
LEMMA Skipping ==
  ASSUME LoopInv, SkipPixel, UNCHANGED mergerVars
  PROVE  /\ tile # NoTile /\ SavedBlobs' = SavedBlobs /\ toVisit = {}
         /\ unscanned' = unscanned \ {First(unscanned)} /\ First(unscanned) \notin foreground
         /\ UNCHANGED <<mask, connectivity, tile, foreground, toVisit, viewToMerge, blob,
                        phase, analysed, blobs, toMerge>>
BY DEF LoopInv, SkipPixel, SavedBlobs, mergerVars, maskVars

(* A blob starts with a pixel that the flood has not reached.               *)
LEMMA StartingBlob ==
  ASSUME LoopInv, StartBlob, UNCHANGED mergerVars
  PROVE  /\ phase = "gathering" /\ tile \in Tile \ analysed /\ tile # NoTile /\ toVisit = {}
         /\ \E p \in foreground :
              /\ p \in mask /\ p \in Pixel /\ TileOf(p) = tile
              /\ currentBlob' = p /\ p # NoBlob /\ SavedBlobs' = SavedBlobs \union {p}
              /\ unscanned' = unscanned \ {p}
              /\ blob' = [b \in DOMAIN blob \union {p} |-> IF b = p THEN NewBlob(p) ELSE blob[b]]
              /\ foreground' = foreground \ {p}
              /\ toVisit' = NeedVisit(p, foreground \ {p})
              /\ viewToMerge' =
                   [b \in DOMAIN viewToMerge \union {p} |->
                      IF b = p THEN <<>> \o Touched(p) ELSE viewToMerge[b]]
         /\ UNCHANGED <<mask, connectivity, tile, phase, analysed, blobs, toMerge>>
<1> DEFINE p == First(unscanned)
<1>1. /\ p \in foreground /\ toVisit = {}
      /\ unscanned # {} /\ unscanned' = unscanned \ {p} /\ currentBlob' = p
      /\ viewBlobs' = SavedBlobs
      /\ blob' = [b \in DOMAIN blob \union {p} |-> IF b = p THEN NewBlob(p) ELSE blob[b]]
      /\ foreground' = foreground \ {p}
      /\ toVisit' = {} \union NeedVisit(p, foreground \ {p})
      /\ viewToMerge' =
           [b \in DOMAIN viewToMerge \union {p} |->
              IF b = p THEN <<>> \o Touched(p) ELSE viewToMerge[b]]
  BY DEF StartBlob, Reach
<1>2. UNCHANGED <<mask, connectivity, tile, phase, analysed, blobs, toMerge>>
  BY DEF StartBlob, mergerVars, maskVars
<1> HIDE DEF p
<1>3. p \in mask /\ p \in Pixel /\ TileOf(p) = tile
  BY <1>1, Pixels DEF LoopInv
<1>4. p # NoBlob
  BY <1>3, NullAssumption
<1>5. SavedBlobs' = SavedBlobs \union {p}
  BY <1>1, <1>4 DEF SavedBlobs
<1>6. tile # NoTile /\ tile \in Tile \ analysed /\ phase = "gathering"
  BY <1>1 DEF LoopInv
<1> QED
  BY <1>1, <1>2, <1>3, <1>4, <1>5, <1>6

(* The view sent has been flooded: nothing of the foreground is left.       *)
LEMMA Gathering ==
  ASSUME LoopInv, Gather
  PROVE  /\ phase = "gathering" /\ phase' \in {"gathering", "uniting"}
         /\ tile \in Tile \ analysed /\ tile # NoTile
         /\ tile' = NoTile /\ SavedBlobs' = {} /\ toVisit' = {} /\ viewToMerge' = <<>>
         /\ foreground = {} /\ foreground' = {} /\ unscanned' = {}
         /\ analysed' = analysed \union {tile}
         /\ phase' # "gathering" => analysed' = Tile
         /\ blobs' = blobs \union SavedBlobs
         /\ toMerge' = [b \in blobs' |-> IF b \in blobs THEN toMerge[b] ELSE viewToMerge[b]]
         /\ forest' = [parent |-> [b \in blobs' |-> b], rank |-> [b \in blobs' |-> 0]]
         /\ UNCHANGED <<mask, connectivity, blob>>
BY DEF LoopInv, Gather, EndView, SavedBlobs, maskVars

(* The invariant of the loops holds at first ...                            *)
LEMMA LoopInit == Init => LoopInv
<1> SUFFICES ASSUME Init PROVE LoopInv
  OBVIOUS
<1>1. mask \in SUBSET Pixel
  BY MaskAssumption DEF Init, AnalyserInit, Pixel
<1> QED
  BY <1>1 DEF LoopInv, Init, AnalyserInit, SavedBlobs

(* What the steps of the merger after the last view leave alone.            *)
mergingVars == <<mask, connectivity, analyserVars, analysed>>

(* Uniting and merging leave the analysis alone.                            *)
LEMMA Merging ==
  ASSUME LoopInv,
         \/ \E b \in blobs : Unite(b)
         \/ AssociateSons
         \/ \E family \in families : \E kept, deleted \in family :
              kept # deleted /\ MergeAndDelete(family, kept, deleted)
         \/ AddResult
         \/ Done
         \/ UNCHANGED vars
  PROVE  /\ UNCHANGED mergingVars
         /\ phase' = phase \/ (phase # "gathering" /\ phase' \in {"merging", "done"})
<1>1. ASSUME NEW b \in blobs, Unite(b)  PROVE UNCHANGED mergingVars /\ phase' = phase
  BY <1>1 DEF Unite, mergingVars, maskVars
<1>2. ASSUME NEW family, NEW kept, NEW deleted, MergeAndDelete(family, kept, deleted)
      PROVE  UNCHANGED mergingVars /\ phase' = phase
  BY <1>2 DEF MergeAndDelete, mergingVars, maskVars
<1>3. AssociateSons => UNCHANGED mergingVars /\ phase # "gathering" /\ phase' = "merging"
  BY DEF AssociateSons, mergingVars, maskVars
<1>4. AddResult => UNCHANGED mergingVars /\ phase # "gathering" /\ phase' = "done"
  BY DEF AddResult, mergingVars, maskVars
<1>5. Done \/ UNCHANGED vars => UNCHANGED mergingVars /\ phase' = phase
  BY DEF Done, vars, mergingVars, maskVars, mergerVars
<1> QED
  BY <1>1, <1>2, <1>3, <1>4, <1>5

(* ... and every step keeps it.                                             *)
LEMMA LoopStep == LoopInv /\ [Next]_vars => LoopInv'
<1> SUFFICES ASSUME LoopInv, [Next]_vars PROVE LoopInv'
  OBVIOUS
<1>1. ASSUME NEW t \in Tile \ analysed, StartView(t), UNCHANGED mergerVars  PROVE LoopInv'
  <2>1. /\ tile' = t /\ SavedBlobs' = {} /\ foreground' = mask \intersect PixelsOf(t)
        /\ unscanned' = PixelsOf(t) /\ toVisit' = {}
        /\ UNCHANGED <<mask, connectivity, phase, analysed>> /\ tile = NoTile
    BY <1>1, Starting
  <2>2. t # NoTile
    BY NullAssumption
  <2> QED
    BY <2>1, <2>2 DEF LoopInv
<1>2. CASE VisitNeighbour /\ UNCHANGED mergerVars
  <2>1. /\ UNCHANGED <<mask, connectivity, tile, unscanned, phase, analysed>>
        /\ SavedBlobs' = SavedBlobs /\ currentBlob' = currentBlob /\ currentBlob # NoBlob
    BY <1>2, Visiting
  <2>2. PICK p \in toVisit : /\ foreground' = foreground \ {p}
                             /\ toVisit' = (toVisit \ {p}) \union NeedVisit(p, foreground \ {p})
    BY <1>2, Visiting
  <2>3. NeedVisit(p, foreground \ {p}) \in SUBSET (foreground \ {p})
    BY DEF NeedVisit
  <2> QED
    BY <2>1, <2>2, <2>3 DEF LoopInv
<1>3. CASE SkipPixel /\ UNCHANGED mergerVars
  <2>1. /\ tile # NoTile /\ SavedBlobs' = SavedBlobs /\ toVisit = {} /\ toVisit' = toVisit
        /\ unscanned' = unscanned \ {First(unscanned)} /\ First(unscanned) \notin foreground
        /\ UNCHANGED <<mask, connectivity, tile, foreground, phase, analysed>>
    BY <1>3, Skipping
  <2> QED
    BY <2>1 DEF LoopInv
<1>4. CASE StartBlob /\ UNCHANGED mergerVars
  <2>1. /\ UNCHANGED <<mask, connectivity, tile, phase, analysed>> /\ tile # NoTile
    BY <1>4, StartingBlob
  <2>2. PICK p \in foreground : /\ unscanned' = unscanned \ {p} /\ foreground' = foreground \ {p}
                                /\ toVisit' = NeedVisit(p, foreground \ {p})
                                /\ currentBlob' = p /\ p # NoBlob
    BY <1>4, StartingBlob
  <2>3. NeedVisit(p, foreground \ {p}) \in SUBSET (foreground \ {p})
    BY DEF NeedVisit
  <2> QED
    BY <2>1, <2>2, <2>3 DEF LoopInv
<1>5. CASE Gather
  <2>1. /\ phase' \in {"gathering", "uniting"} /\ tile' = NoTile /\ SavedBlobs' = {}
        /\ toVisit' = {} /\ foreground' = {} /\ unscanned' = {}
        /\ analysed' = analysed \union {tile} /\ tile \in Tile
        /\ phase' # "gathering" => analysed' = Tile
        /\ UNCHANGED <<mask, connectivity>>
    BY <1>5, Gathering
  <2> QED
    BY <2>1 DEF LoopInv
<1>6. CASE \/ \E b \in blobs : Unite(b)
           \/ AssociateSons
           \/ \E family \in families : \E kept, deleted \in family :
                kept # deleted /\ MergeAndDelete(family, kept, deleted)
           \/ AddResult
           \/ Done
           \/ UNCHANGED vars
  <2>1. /\ UNCHANGED mergingVars
        /\ phase' = phase \/ (phase # "gathering" /\ phase' \in {"merging", "done"})
    BY <1>6, Merging
  <2>2. SavedBlobs' = SavedBlobs
    BY <2>1 DEF mergingVars, analyserVars, SavedBlobs
  <2> QED
    BY <2>1, <2>2 DEF LoopInv, mergingVars, analyserVars
<1> QED
  BY <1>1, <1>2, <1>3, <1>4, <1>5, <1>6 DEF Next, AnalyserStep, Analyse, MergerStep

-----------------------------------------------------------------------------
(* The families share out the blobs.                                        *)

FamiliesInv ==
  phase \in {"merging", "done"} =>
    /\ \A F \in families : F \in SUBSET blobs /\ F # {}
    /\ \A F, G \in families : F # G => F \intersect G = {}
    /\ \A b \in blobs : \E F \in families : b \in F
    /\ phase = "done" => \A F \in families : Cardinality(F) = 1

(* Every step keeps the families apart.                                     *)
LEMMA FamiliesStep == LoopInv /\ FamiliesInv /\ [Next]_vars => FamiliesInv'
<1> SUFFICES ASSUME LoopInv, FamiliesInv, [Next]_vars PROVE FamiliesInv'
  OBVIOUS
<1>1. CASE UNCHANGED mergerVars
  BY <1>1 DEF FamiliesInv, mergerVars
<1>2. CASE Gather
  BY <1>2, Gathering DEF FamiliesInv
<1>3. ASSUME NEW b \in blobs, Unite(b)  PROVE FamiliesInv'
  BY <1>3 DEF Unite, FamiliesInv
<1>4. CASE AssociateSons
  <2> DEFINE R(b) == Root(forest.parent, b)
             F(b) == {c \in blobs : R(c) = R(b)}
  <2>1. families' = {F(b) : b \in blobs} /\ blobs' = blobs /\ phase' = "merging"
    BY <1>4 DEF AssociateSons
  <2>2. \A b \in blobs : F(b) \in SUBSET blobs /\ b \in F(b)
    OBVIOUS
  <2>3. \A b, c \in blobs : F(b) # F(c) => F(b) \intersect F(c) = {}
    <3>1. SUFFICES ASSUME NEW b \in blobs, NEW c \in blobs, NEW d \in F(b) \intersect F(c)
                   PROVE  F(b) = F(c)
      OBVIOUS
    <3>2. R(d) = R(b) /\ R(d) = R(c)
      OBVIOUS
    <3> QED
      BY <3>2
  <2> HIDE DEF F
  <2> QED
    BY <2>1, <2>2, <2>3 DEF FamiliesInv
<1>5. ASSUME NEW family \in families, NEW kept \in family, NEW deleted \in family,
             kept # deleted, MergeAndDelete(family, kept, deleted)
      PROVE  FamiliesInv'
  <2>1. /\ families' = (families \ {family}) \union {family \ {deleted}}
        /\ blobs' = blobs \ {deleted} /\ phase' = phase /\ phase = "merging"
    BY <1>5 DEF MergeAndDelete
  <2> DEFINE rest == family \ {deleted}
  <2>2. rest \in SUBSET (blobs \ {deleted}) /\ rest # {}
    BY <1>5, <2>1 DEF FamiliesInv
  <2>3. ASSUME NEW F \in families \ {family}
        PROVE  F \in SUBSET (blobs \ {deleted}) /\ F # {} /\ F \intersect rest = {}
    BY <2>1 DEF FamiliesInv
  <2>4. ASSUME NEW b \in blobs \ {deleted}  PROVE \E F \in families' : b \in F
    <3>1. PICK F \in families : b \in F
      BY <2>1 DEF FamiliesInv
    <3>2. CASE F = family
      <4>1. b \in rest /\ rest \in families'
        BY <2>1, <3>1, <3>2
      <4> QED
        BY <4>1
    <3>3. CASE F # family
      BY <2>1, <3>1, <3>3
    <3> QED
      BY <3>2, <3>3
  <2> HIDE DEF rest
  <2>5. families' = (families \ {family}) \union {rest}
    BY <2>1 DEF rest
  <2>6. ASSUME NEW F \in families', NEW G \in families', F # G  PROVE F \intersect G = {}
    <3>1. CASE F = rest
      BY <2>3, <2>5, <2>6, <3>1
    <3>2. CASE G = rest
      BY <2>3, <2>5, <2>6, <3>2
    <3>3. CASE F # rest /\ G # rest
      BY <2>1, <2>5, <2>6, <3>3 DEF FamiliesInv
    <3> QED
      BY <3>1, <3>2, <3>3
  <2> QED
    BY <2>1, <2>2, <2>3, <2>4, <2>5, <2>6 DEF FamiliesInv
<1>6. CASE AddResult
  BY <1>6 DEF AddResult, FamiliesInv
<1>7. AnalyserStep \/ Done \/ UNCHANGED vars => UNCHANGED mergerVars
  BY DEF AnalyserStep, Done, vars
<1> QED
  BY <1>1, <1>2, <1>3, <1>4, <1>5, <1>6, <1>7 DEF Next, MergerStep

-----------------------------------------------------------------------------
(* Every pixel of the foreground that has been reached belongs to one blob, *)
(* which counts it.                                                         *)

AllBlobs == blobs \union SavedBlobs

BlobInv ==
  /\ blobs \in SUBSET Pixel
  /\ AllBlobs \subseteq DOMAIN blob
  /\ \A b \in AllBlobs : Described(blob[b]) /\ blob[b].pixels \subseteq mask
  /\ \A b, c \in AllBlobs : b # c => blob[b].pixels \intersect blob[c].pixels = {}
  /\ \A b \in blobs : \A p \in blob[b].pixels : TileOf(p) \in analysed
  /\ \A p \in mask : TileOf(p) \in analysed => \E b \in blobs : p \in blob[b].pixels
  /\ \A b \in SavedBlobs :
       b \in Pixel /\ \A p \in blob[b].pixels : p \notin foreground /\ TileOf(p) = tile
  /\ \A p \in mask : TileOf(p) = tile /\ p \notin foreground =>
       \E b \in SavedBlobs : p \in blob[b].pixels
  /\ phase \in {"gathering", "uniting"} =>
       \A b \in AllBlobs : b \in blob[b].pixels /\ \A p \in blob[b].pixels : TileOf(p) = TileOf(b)

(* Without a blob, no pixel has been reached.                               *)
LEMMA BlobInit == Init => BlobInv
<1> SUFFICES ASSUME Init PROVE BlobInv
  OBVIOUS
<1>1. /\ blobs = {} /\ SavedBlobs = {} /\ AllBlobs = {} /\ analysed = {} /\ tile = NoTile
      /\ mask \in SUBSET Pixel
  BY MaskAssumption DEF Init, AnalyserInit, SavedBlobs, AllBlobs, Pixel
<1>2. \A p \in mask : TileOf(p) # NoTile
  BY <1>1, TileOfPixel, NullAssumption
<1> QED
  BY <1>1, <1>2 DEF BlobInv

(* A step that changes no blob and no set of blobs.                         *)
LEMMA BlobStutter ==
  ASSUME BlobInv,
         UNCHANGED <<mask, blob, blobs, SavedBlobs, analysed, tile, foreground>>,
         phase \notin {"gathering", "uniting"} => phase' \notin {"gathering", "uniting"}
  PROVE  BlobInv'
BY DEF BlobInv, AllBlobs

(* A pixel of the tile that no blob has: no gathered blob can have it.      *)
LEMMA ForegroundIsFree ==
  ASSUME LoopInv, BlobInv, NEW p \in foreground, tile \in Tile \ analysed, TileOf(p) = tile
  PROVE  \A b \in AllBlobs : p \notin blob[b].pixels
BY DEF BlobInv, AllBlobs

(* The visited pixel was nobody's.                                          *)
LEMMA BlobVisit ==
  ASSUME LoopInv, BlobInv, VisitNeighbour, UNCHANGED mergerVars
  PROVE  BlobInv'
<1>1. /\ phase = "gathering" /\ tile \in Tile \ analysed /\ currentBlob \in SavedBlobs
      /\ SavedBlobs' = SavedBlobs
      /\ UNCHANGED <<mask, tile, phase, analysed, blobs>>
  BY Visiting
<1>2. PICK p \in foreground :
        /\ p \in mask /\ p \in Pixel /\ TileOf(p) = tile
        /\ blob' = [blob EXCEPT ![currentBlob] = AddPixel(@, p)]
        /\ foreground' = foreground \ {p}
  BY Visiting
<1>3. AllBlobs' = AllBlobs /\ currentBlob \in AllBlobs
  BY <1>1 DEF AllBlobs
<1>4. \A b \in AllBlobs : p \notin blob[b].pixels
  BY <1>1, <1>2, ForegroundIsFree
<1>5. /\ Described(blob[currentBlob]) /\ currentBlob \in DOMAIN blob
      /\ AllBlobs \subseteq DOMAIN blob
  BY <1>3 DEF BlobInv
<1>6. /\ blob'[currentBlob] = AddPixel(blob[currentBlob], p)
      /\ \A b \in AllBlobs : b # currentBlob => blob'[b] = blob[b]
      /\ DOMAIN blob' = DOMAIN blob
  BY <1>2, <1>5
<1>7. /\ Described(blob'[currentBlob])
      /\ blob'[currentBlob].pixels = blob[currentBlob].pixels \union {p}
  BY <1>2, <1>3, <1>4, <1>5, <1>6, AddedDescribed
<1>8. currentBlob \notin blobs
  BY <1>1, <1>3, TileOfPixel DEF BlobInv
<1>9. \A b \in blobs : blob'[b] = blob[b]
  BY <1>6, <1>8 DEF AllBlobs
<1>10. \A b \in AllBlobs : Described(blob'[b]) /\ blob'[b].pixels \subseteq mask
  BY <1>2, <1>6, <1>7 DEF BlobInv
<1>11. \A b, c \in AllBlobs : b # c => blob'[b].pixels \intersect blob'[c].pixels = {}
  BY <1>4, <1>6, <1>7 DEF BlobInv
<1>12. \A b \in SavedBlobs :
         b \in Pixel /\ \A q \in blob'[b].pixels : q \notin foreground' /\ TileOf(q) = tile
  BY <1>2, <1>6, <1>7 DEF BlobInv, AllBlobs
<1>13. \A q \in mask : TileOf(q) = tile /\ q \notin foreground' =>
         \E b \in SavedBlobs : q \in blob'[b].pixels
  BY <1>1, <1>2, <1>6, <1>7 DEF BlobInv, AllBlobs
<1>14. \A b \in AllBlobs :
         b \in blob'[b].pixels /\ \A q \in blob'[b].pixels : TileOf(q) = TileOf(b)
  BY <1>1, <1>2, <1>3, <1>6, <1>7 DEF BlobInv
<1> QED
  <2>1. /\ blobs' \in SUBSET Pixel /\ AllBlobs' \subseteq DOMAIN blob'
        /\ \A b \in blobs' : \A q \in blob'[b].pixels : TileOf(q) \in analysed'
        /\ \A q \in mask' : TileOf(q) \in analysed' => \E b \in blobs' : q \in blob'[b].pixels
    BY <1>1, <1>3, <1>5, <1>6, <1>9 DEF BlobInv
  <2> QED
    BY <1>1, <1>3, <1>10, <1>11, <1>12, <1>13, <1>14, <2>1 DEF BlobInv

(* The new blob's pixel was nobody's.                                       *)
LEMMA BlobStart ==
  ASSUME LoopInv, BlobInv, StartBlob, UNCHANGED mergerVars
  PROVE  BlobInv'
<1>1. /\ phase = "gathering" /\ tile \in Tile \ analysed
      /\ UNCHANGED <<mask, tile, phase, analysed, blobs>>
  BY StartingBlob
<1>2. PICK p \in foreground :
        /\ p \in mask /\ p \in Pixel /\ TileOf(p) = tile
        /\ SavedBlobs' = SavedBlobs \union {p}
        /\ blob' = [b \in DOMAIN blob \union {p} |-> IF b = p THEN NewBlob(p) ELSE blob[b]]
        /\ foreground' = foreground \ {p}
  BY StartingBlob
<1>3. AllBlobs' = AllBlobs \union {p}
  BY <1>1, <1>2 DEF AllBlobs
<1>4. \A b \in AllBlobs : p \notin blob[b].pixels
  BY <1>1, <1>2, ForegroundIsFree
<1>5. p \notin AllBlobs
  BY <1>1, <1>4 DEF BlobInv
<1>6. /\ blob'[p] = NewBlob(p) /\ Described(blob'[p]) /\ blob'[p].pixels = {p}
      /\ \A b \in AllBlobs : blob'[b] = blob[b]
      /\ DOMAIN blob' = DOMAIN blob \union {p}
  BY <1>2, <1>5, NewBlobDescribed DEF BlobInv
<1>7. \A b \in blobs : blob'[b] = blob[b]
  BY <1>6 DEF AllBlobs
<1>8. \A b \in SavedBlobs : blob'[b] = blob[b]
  BY <1>6 DEF AllBlobs
<1>10. \A b \in AllBlobs' : Described(blob'[b]) /\ blob'[b].pixels \subseteq mask
  BY <1>2, <1>3, <1>6 DEF BlobInv
<1>11. \A b, c \in AllBlobs' : b # c => blob'[b].pixels \intersect blob'[c].pixels = {}
  BY <1>3, <1>4, <1>6 DEF BlobInv
<1>12. \A b \in SavedBlobs' :
         b \in Pixel /\ \A q \in blob'[b].pixels : q \notin foreground' /\ TileOf(q) = tile
  BY <1>2, <1>6, <1>8 DEF BlobInv
<1>13. \A q \in mask : TileOf(q) = tile /\ q \notin foreground' =>
         \E b \in SavedBlobs' : q \in blob'[b].pixels
  BY <1>2, <1>6, <1>8 DEF BlobInv
<1>14. \A b \in AllBlobs' :
         b \in blob'[b].pixels /\ \A q \in blob'[b].pixels : TileOf(q) = TileOf(b)
  BY <1>1, <1>3, <1>6 DEF BlobInv
<1> QED
  <2>1. /\ blobs' \in SUBSET Pixel /\ AllBlobs' \subseteq DOMAIN blob'
        /\ \A b \in blobs' : \A q \in blob'[b].pixels : TileOf(q) \in analysed'
        /\ \A q \in mask' : TileOf(q) \in analysed' => \E b \in blobs' : q \in blob'[b].pixels
    BY <1>1, <1>3, <1>6, <1>7 DEF BlobInv
  <2> QED
    BY <1>1, <1>10, <1>11, <1>12, <1>13, <1>14, <2>1 DEF BlobInv

(* The tile gathered has all its foreground in blobs.                       *)
LEMMA BlobGather ==
  ASSUME LoopInv, BlobInv, Gather
  PROVE  BlobInv'
<1>1. /\ phase = "gathering" /\ tile \in Tile \ analysed /\ tile' = NoTile /\ SavedBlobs' = {}
      /\ foreground = {} /\ analysed' = analysed \union {tile}
      /\ blobs' = blobs \union SavedBlobs /\ UNCHANGED <<mask, blob>>
  BY Gathering
<1>2. AllBlobs' = AllBlobs /\ blobs' = AllBlobs
  BY <1>1 DEF AllBlobs
<1>3. \A p \in mask : TileOf(p) # NoTile
  BY TileOfPixel, NullAssumption DEF LoopInv
<1>4. \A b \in AllBlobs : b \in Pixel
  BY DEF BlobInv, AllBlobs
<1>5. \A b \in AllBlobs : \A p \in blob[b].pixels : TileOf(p) \in analysed'
  BY <1>1 DEF BlobInv, AllBlobs
<1>6. \A p \in mask : TileOf(p) \in analysed' => \E b \in AllBlobs : p \in blob[b].pixels
  BY <1>1 DEF BlobInv, AllBlobs
<1> QED
  BY <1>1, <1>2, <1>3, <1>4, <1>5, <1>6 DEF BlobInv

(* A merge counts no pixel twice and loses none.                            *)
LEMMA BlobMerge ==
  ASSUME LoopInv, BlobInv, FamiliesInv, NEW family \in families,
         NEW kept \in family, NEW deleted \in family, kept # deleted,
         MergeAndDelete(family, kept, deleted)
  PROVE  /\ BlobInv'
         /\ blob'[kept].pixels = blob[kept].pixels \union blob[deleted].pixels
         /\ \A b \in blobs' : b # kept => blob'[b] = blob[b]
<1>1. /\ phase = "merging" /\ phase' = "merging" /\ blobs' = blobs \ {deleted}
      /\ blob' = [blob EXCEPT ![kept] = Merged(@, blob[deleted])]
      /\ UNCHANGED <<mask, analysed, tile, foreground>> /\ SavedBlobs' = SavedBlobs
  BY DEF MergeAndDelete, maskVars, analyserVars, SavedBlobs
<1>2. kept \in blobs /\ deleted \in blobs
  BY <1>1 DEF FamiliesInv
<1>3. SavedBlobs = {}
  BY <1>1 DEF LoopInv
<1>4. AllBlobs = blobs /\ AllBlobs' = blobs'
  BY <1>1, <1>3 DEF AllBlobs
<1>5. /\ blobs \subseteq DOMAIN blob
      /\ Described(blob[kept]) /\ Described(blob[deleted])
      /\ blob[kept].pixels \intersect blob[deleted].pixels = {}
  BY <1>2, <1>4 DEF BlobInv
<1>6. /\ Described(blob'[kept])
      /\ blob'[kept].pixels = blob[kept].pixels \union blob[deleted].pixels
      /\ \A b \in blobs' : b # kept => blob'[b] = blob[b]
      /\ DOMAIN blob' = DOMAIN blob
  BY <1>1, <1>2, <1>5, MergedDescribed
<1>7. \A b \in blobs' : Described(blob'[b]) /\ blob'[b].pixels \subseteq mask
  BY <1>1, <1>2, <1>4, <1>6 DEF BlobInv
<1>8. \A b, c \in blobs' : b # c => blob'[b].pixels \intersect blob'[c].pixels = {}
  BY <1>1, <1>2, <1>4, <1>6 DEF BlobInv
<1>9. \A b \in blobs' : \A p \in blob'[b].pixels : TileOf(p) \in analysed
  BY <1>1, <1>2, <1>6 DEF BlobInv
<1>10. ASSUME NEW p \in mask, TileOf(p) \in analysed
       PROVE  \E b \in blobs' : p \in blob'[b].pixels
  <2>1. PICK b \in blobs : p \in blob[b].pixels
    BY <1>10 DEF BlobInv
  <2>2. CASE b \in {kept, deleted}
    BY <1>1, <1>2, <1>6, <2>1, <2>2
  <2>3. CASE b \notin {kept, deleted}
    BY <1>1, <1>6, <2>1, <2>3
  <2> QED
    BY <2>2, <2>3
<1>11. \A p \in mask : ~(TileOf(p) = tile /\ p \notin foreground)
  BY <1>3 DEF BlobInv
<1>12. BlobInv'
  <2>1. blobs' \in SUBSET Pixel /\ AllBlobs' \subseteq DOMAIN blob'
    BY <1>1, <1>4, <1>5, <1>6 DEF BlobInv
  <2> QED
    BY <1>1, <1>3, <1>4, <1>7, <1>8, <1>9, <1>10, <1>11, <2>1 DEF BlobInv
<1> QED
  BY <1>6, <1>12

(* Every step keeps the pixels reached in one blob each.                    *)
LEMMA BlobStep == LoopInv /\ FamiliesInv /\ BlobInv /\ [Next]_vars => BlobInv'
<1> SUFFICES ASSUME LoopInv, FamiliesInv, BlobInv, [Next]_vars PROVE BlobInv'
  OBVIOUS
<1>1. ASSUME NEW t \in Tile \ analysed, StartView(t), UNCHANGED mergerVars  PROVE BlobInv'
  <2>1. /\ SavedBlobs = {} /\ SavedBlobs' = {} /\ tile' = t
        /\ foreground' = mask \intersect PixelsOf(t)
        /\ UNCHANGED <<mask, blob, phase, analysed, blobs>>
    BY <1>1, Starting
  <2>2. AllBlobs' = AllBlobs
    BY <2>1 DEF AllBlobs
  <2>3. ASSUME NEW p \in mask, TileOf(p) = t  PROVE p \in foreground'
    BY <2>1, <2>3 DEF LoopInv, PixelsOf
  <2> QED
    BY <2>1, <2>2, <2>3 DEF BlobInv
<1>2. CASE VisitNeighbour /\ UNCHANGED mergerVars
  BY <1>2, BlobVisit
<1>3. CASE SkipPixel /\ UNCHANGED mergerVars
  <2>1. UNCHANGED <<mask, blob, blobs, SavedBlobs, analysed, tile, foreground, phase>>
    BY <1>3, Skipping
  <2> QED
    BY <2>1, BlobStutter
<1>4. CASE StartBlob /\ UNCHANGED mergerVars
  BY <1>4, BlobStart
<1>5. CASE Gather
  BY <1>5, BlobGather
<1>6. ASSUME NEW family \in families, NEW kept \in family, NEW deleted \in family,
             kept # deleted, MergeAndDelete(family, kept, deleted)
      PROVE  BlobInv'
  BY <1>6, BlobMerge
<1>7. CASE \/ \E b \in blobs : Unite(b)
           \/ AssociateSons
           \/ AddResult
           \/ Done
           \/ UNCHANGED vars
  <2>1. /\ UNCHANGED mergingVars
        /\ phase' = phase \/ (phase # "gathering" /\ phase' \in {"merging", "done"})
    BY <1>7, Merging
  <2>2. UNCHANGED <<blob, blobs>>
    BY <1>7 DEF Unite, AssociateSons, AddResult, Done, vars, mergerVars
  <2>3. UNCHANGED <<mask, SavedBlobs, analysed, tile, foreground>>
    BY <2>1 DEF mergingVars, analyserVars, SavedBlobs
  <2> QED
    BY <2>1, <2>2, <2>3, BlobStutter
<1> QED
  BY <1>1, <1>2, <1>3, <1>4, <1>5, <1>6, <1>7 DEF Next, AnalyserStep, Analyse, MergerStep

-----------------------------------------------------------------------------
(* What is noted for a blob: the foreground that its pixels look at.        *)

Noted(c, m, B, s) ==
  s \in Seq(m) /\ Elems(s) = {q \in m : \E p \in B.pixels : LooksAt(c, p, q)}

NotesInv ==
  /\ SavedBlobs \subseteq DOMAIN viewToMerge
  /\ \A b \in SavedBlobs : Noted(connectivity, mask, blob[b], viewToMerge[b])
  /\ phase = "gathering" => \A b \in blobs : Noted(connectivity, mask, blob[b], toMerge[b])
  /\ phase \in {"gathering", "uniting"} => DOMAIN toMerge = blobs
  /\ phase = "uniting" =>
       \A b \in blobs : /\ toMerge[b] \in Seq(mask)
                        /\ \A q \in Elems(toMerge[b]) :
                             \E p \in blob[b].pixels : LooksAt(connectivity, p, q)

(* Nothing is noted at first.                                               *)
LEMMA NotesInit == Init => NotesInv
<1> SUFFICES ASSUME Init PROVE NotesInv
  OBVIOUS
<1>1. blobs = {} /\ SavedBlobs = {} /\ toMerge = <<>> /\ phase = "gathering"
  BY DEF Init, AnalyserInit, SavedBlobs
<1>2. DOMAIN <<>> = {}
  OBVIOUS
<1> QED
  BY <1>1, <1>2 DEF NotesInv

(* A pixel more, and what it looks at.                                      *)
LEMMA NoteMore ==
  ASSUME LoopInv, NEW B, NEW C, NEW s, NEW p \in Pixel,
         Noted(connectivity, mask, B, s), C.pixels = B.pixels \union {p}
  PROVE  Noted(connectivity, mask, C, s \o Touched(p))
<1>1. /\ Touched(p) \in Seq(mask)
      /\ Elems(Touched(p)) = {x \in mask : LooksAt(connectivity, p, x)}
  BY TouchedPixels DEF LoopInv
<1>2. /\ s \o Touched(p) \in Seq(mask)
      /\ Elems(s \o Touched(p)) = Elems(s) \union Elems(Touched(p))
  BY <1>1, ElemsOfBoth DEF Noted
<1>3. Elems(s) = {q \in mask : \E r \in B.pixels : LooksAt(connectivity, r, q)}
  BY DEF Noted
<1> QED
  BY <1>1, <1>2, <1>3 DEF Noted

(* What is left of a list has nothing new.                                  *)
LEMMA TailElems ==
  ASSUME NEW S, NEW s \in Seq(S), s # <<>>
  PROVE  /\ Tail(s) \in Seq(S) /\ Head(s) \in S
         /\ Elems(s) = {Head(s)} \union Elems(Tail(s))
<1> DEFINE t == Tail(s)
<1>1. /\ t \in Seq(S) /\ Len(s) \in Nat /\ Len(s) > 0 /\ Len(t) = Len(s) - 1
      /\ Head(s) = s[1] /\ s[1] \in S
      /\ \A i \in 1..Len(t) : t[i] = s[i + 1]
  OBVIOUS
<1> HIDE DEF t
<1>2. ASSUME NEW x \in Elems(s)  PROVE x \in {s[1]} \union Elems(t)
  <2>1. PICK i \in 1..Len(s) : x = s[i]
    BY DEF Elems
  <2>2. CASE i = 1
    BY <2>1, <2>2
  <2>3. CASE i # 1
    <3>1. i - 1 \in 1..Len(t) /\ (i - 1) + 1 = i
      BY <1>1, <2>3
    <3>2. t[i - 1] = s[(i - 1) + 1]
      BY <1>1, <3>1
    <3>3. t[i - 1] = x
      BY <2>1, <3>1, <3>2
    <3> QED
      BY <3>1, <3>3 DEF Elems
  <2> QED
    BY <2>2, <2>3
<1>3. s[1] \in Elems(s)
  BY <1>1 DEF Elems
<1>4. ASSUME NEW x \in Elems(t)  PROVE x \in Elems(s)
  <2>1. PICK i \in 1..Len(t) : x = t[i]
    BY DEF Elems
  <2>2. i + 1 \in 1..Len(s) /\ x = s[i + 1]
    BY <1>1, <2>1
  <2> QED
    BY <2>2 DEF Elems
<1> QED
  BY <1>1, <1>2, <1>3, <1>4 DEF t

(* What the visited pixel looks at is noted for its blob.                   *)
LEMMA NotesVisit ==
  ASSUME LoopInv, BlobInv, NotesInv, VisitNeighbour, UNCHANGED mergerVars
  PROVE  NotesInv'
<1>1. /\ phase = "gathering" /\ tile \in Tile \ analysed /\ currentBlob \in SavedBlobs
      /\ SavedBlobs' = SavedBlobs
      /\ UNCHANGED <<mask, connectivity, phase, blobs, toMerge>>
  BY Visiting
<1>2. PICK p \in toVisit :
        /\ p \in Pixel /\ p \in foreground /\ TileOf(p) = tile
        /\ blob' = [blob EXCEPT ![currentBlob] = AddPixel(@, p)]
        /\ viewToMerge' =
             [b \in DOMAIN viewToMerge \union {currentBlob} |->
                IF b = currentBlob THEN viewToMerge[currentBlob] \o Touched(p)
                ELSE viewToMerge[b]]
  BY Visiting
<1>3. currentBlob \notin blobs /\ SavedBlobs \subseteq DOMAIN blob
  BY <1>1, TileOfPixel DEF BlobInv, AllBlobs
<1>4. /\ blob'[currentBlob] = AddPixel(blob[currentBlob], p)
      /\ \A b \in SavedBlobs : b # currentBlob => blob'[b] = blob[b]
      /\ \A b \in blobs : blob'[b] = blob[b]
  BY <1>1, <1>2, <1>3 DEF BlobInv, AllBlobs
<1>5. blob'[currentBlob].pixels = blob[currentBlob].pixels \union {p}
  BY <1>4 DEF AddPixel
<1>6. Noted(connectivity, mask, blob'[currentBlob], viewToMerge[currentBlob] \o Touched(p))
  BY <1>1, <1>2, <1>5, NoteMore DEF NotesInv
<1>7. /\ SavedBlobs \subseteq DOMAIN viewToMerge'
      /\ viewToMerge'[currentBlob] = viewToMerge[currentBlob] \o Touched(p)
      /\ \A b \in SavedBlobs : b # currentBlob => viewToMerge'[b] = viewToMerge[b]
  BY <1>2 DEF NotesInv
<1> QED
  BY <1>1, <1>4, <1>6, <1>7 DEF NotesInv

(* What the first pixel of a blob looks at is noted for it.                 *)
LEMMA NotesStart ==
  ASSUME LoopInv, BlobInv, NotesInv, StartBlob, UNCHANGED mergerVars
  PROVE  NotesInv'
<1>1. /\ phase = "gathering" /\ tile \in Tile \ analysed
      /\ UNCHANGED <<mask, connectivity, phase, blobs, toMerge>>
  BY StartingBlob
<1>2. PICK p \in foreground :
        /\ p \in Pixel /\ TileOf(p) = tile /\ SavedBlobs' = SavedBlobs \union {p}
        /\ blob' = [b \in DOMAIN blob \union {p} |-> IF b = p THEN NewBlob(p) ELSE blob[b]]
        /\ viewToMerge' =
             [b \in DOMAIN viewToMerge \union {p} |->
                IF b = p THEN <<>> \o Touched(p) ELSE viewToMerge[b]]
  BY StartingBlob
<1>3. p \notin AllBlobs
  BY <1>1, <1>2, ForegroundIsFree DEF BlobInv
<1>4. /\ blob'[p].pixels = {p}
      /\ \A b \in SavedBlobs : blob'[b] = blob[b] /\ b # p
      /\ \A b \in blobs : blob'[b] = blob[b]
  BY <1>2, <1>3 DEF BlobInv, AllBlobs, NewBlob
<1> DEFINE none == [pixels |-> {}]
<1>5. Noted(connectivity, mask, none, <<>>) /\ none.pixels = {}
  BY DEF Noted, Elems
<1>6. Noted(connectivity, mask, blob'[p], <<>> \o Touched(p))
  <2> HIDE DEF none
  <2> QED
    BY <1>2, <1>4, <1>5, NoteMore
<1>7. /\ SavedBlobs' \subseteq DOMAIN viewToMerge' /\ viewToMerge'[p] = <<>> \o Touched(p)
      /\ \A b \in SavedBlobs : viewToMerge'[b] = viewToMerge[b]
  BY <1>2, <1>4 DEF NotesInv
<1> QED
  BY <1>1, <1>2, <1>4, <1>6, <1>7 DEF NotesInv

(* Every step keeps the notes complete until blobs are united.              *)
LEMMA NotesStep == LoopInv /\ BlobInv /\ NotesInv /\ [Next]_vars => NotesInv'
<1> SUFFICES ASSUME LoopInv, BlobInv, NotesInv, [Next]_vars PROVE NotesInv'
  OBVIOUS
<1>1. ASSUME NEW t \in Tile \ analysed, StartView(t), UNCHANGED mergerVars  PROVE NotesInv'
  <2>1. /\ SavedBlobs' = {}
        /\ UNCHANGED <<mask, connectivity, blob, phase, blobs, toMerge>>
    BY <1>1, Starting
  <2> QED
    BY <2>1 DEF NotesInv
<1>2. CASE VisitNeighbour /\ UNCHANGED mergerVars
  BY <1>2, NotesVisit
<1>3. CASE SkipPixel /\ UNCHANGED mergerVars
  <2>1. UNCHANGED <<mask, connectivity, blob, blobs, SavedBlobs, viewToMerge, phase, toMerge>>
    BY <1>3, Skipping
  <2> QED
    BY <2>1 DEF NotesInv
<1>4. CASE StartBlob /\ UNCHANGED mergerVars
  BY <1>4, NotesStart
<1>5. CASE Gather
  <2>1. /\ phase = "gathering" /\ SavedBlobs' = {} /\ blobs' = blobs \union SavedBlobs
        /\ toMerge' = [b \in blobs' |-> IF b \in blobs THEN toMerge[b] ELSE viewToMerge[b]]
        /\ UNCHANGED <<mask, connectivity, blob>>
    BY <1>5, Gathering
  <2>2. DOMAIN toMerge' = blobs'
    BY <2>1
  <2>3. \A b \in blobs' : Noted(connectivity, mask, blob[b], toMerge'[b])
    BY <2>1 DEF NotesInv
  <2> QED
    BY <2>1, <2>2, <2>3 DEF NotesInv, Noted
<1>6. ASSUME NEW b \in blobs, Unite(b)  PROVE NotesInv'
  <2>1. /\ phase = "uniting" /\ toMerge[b] # <<>>
        /\ toMerge' = [toMerge EXCEPT ![b] = Tail(@)]
        /\ UNCHANGED <<mask, connectivity, blob, blobs, SavedBlobs, viewToMerge, phase>>
    BY <1>6 DEF Unite, maskVars, analyserVars, SavedBlobs
  <2>2. DOMAIN toMerge = blobs /\ toMerge[b] \in Seq(mask)
    BY <2>1 DEF NotesInv
  <2>3. Tail(toMerge[b]) \in Seq(mask) /\ Elems(Tail(toMerge[b])) \subseteq Elems(toMerge[b])
    BY <2>1, <2>2, TailElems
  <2>4. /\ toMerge'[b] = Tail(toMerge[b]) /\ DOMAIN toMerge' = blobs
        /\ \A c \in blobs : c # b => toMerge'[c] = toMerge[c]
    BY <2>1, <2>2
  <2> QED
    BY <2>1, <2>3, <2>4 DEF NotesInv
<1>7. ASSUME NEW family \in families, NEW kept \in family, NEW deleted \in family,
             MergeAndDelete(family, kept, deleted)
      PROVE  NotesInv'
  <2>1. phase = "merging" /\ phase' = phase /\ SavedBlobs' = SavedBlobs
    BY <1>7 DEF MergeAndDelete, analyserVars, SavedBlobs
  <2>2. SavedBlobs = {}
    BY <2>1 DEF LoopInv
  <2> QED
    BY <2>1, <2>2 DEF NotesInv
<1>8. CASE AssociateSons \/ AddResult
  <2>1. phase' \in {"merging", "done"} /\ phase # "gathering" /\ SavedBlobs' = SavedBlobs
    BY <1>8 DEF AssociateSons, AddResult, analyserVars, SavedBlobs
  <2>2. SavedBlobs = {}
    BY <2>1 DEF LoopInv
  <2> QED
    BY <2>1, <2>2 DEF NotesInv
<1>9. CASE Done \/ UNCHANGED vars
  <2>1. UNCHANGED <<mask, connectivity, blob, blobs, SavedBlobs, viewToMerge, phase, toMerge>>
    BY <1>9 DEF Done, vars, mergerVars, maskVars, analyserVars, SavedBlobs
  <2> QED
    BY <2>1 DEF NotesInv
<1> QED
  BY <1>1, <1>2, <1>3, <1>4, <1>5, <1>6, <1>7, <1>8, <1>9
     DEF Next, AnalyserStep, Analyse, MergerStep

-----------------------------------------------------------------------------
(* So far: what a blob is and what has been noted for it.                   *)

FloodInv == LoopInv /\ FamiliesInv /\ BlobInv /\ NotesInv

-----------------------------------------------------------------------------
(* A blob is connected, and nothing else of its tile is next to it but what *)
(* is still to be visited.                                                  *)

ConnectionInv ==
  /\ phase \in {"gathering", "uniting"} =>
       /\ \A b \in AllBlobs : ConnectedBy(connectivity, blob[b].pixels)
       /\ \A b, c \in AllBlobs : b # c /\ TileOf(b) = TileOf(c) =>
            ApartBy(connectivity, blob[b].pixels, blob[c].pixels)
  /\ \A q \in toVisit : \E p \in blob[currentBlob].pixels : NextTo(connectivity, p, q)
  /\ \A b \in SavedBlobs : \A p \in blob[b].pixels : \A q \in foreground :
       NextTo(connectivity, p, q) => b = currentBlob /\ q \in toVisit

(* There is nothing to connect at first.                                    *)
LEMMA ConnectionInit == Init => ConnectionInv
<1> SUFFICES ASSUME Init PROVE ConnectionInv
  OBVIOUS
<1>1. AllBlobs = {} /\ SavedBlobs = {} /\ toVisit = {}
  BY DEF Init, AnalyserInit, SavedBlobs, AllBlobs
<1> QED
  BY <1>1 DEF ConnectionInv

(* What needs a visit after a pixel of the tile is what is next to it.      *)
LEMMA VisitNext ==
  ASSUME NEW p, NEW R, p \notin R
  PROVE  \A q : q \in NeedVisit(p, R) <=> q \in R /\ NextTo(connectivity, p, q)
BY DEF NeedVisit, NextTo

(* The visited pixel is next to its blob, and to no other of the tile.      *)
LEMMA ConnectionVisit ==
  ASSUME LoopInv, BlobInv, ConnectionInv, VisitNeighbour, UNCHANGED mergerVars
  PROVE  ConnectionInv'
<1> DEFINE b == currentBlob
<1>1. /\ phase = "gathering" /\ tile \in Tile \ analysed /\ b \in SavedBlobs
      /\ SavedBlobs' = SavedBlobs /\ currentBlob' = b
      /\ UNCHANGED <<mask, connectivity, tile, phase, blobs>>
  BY Visiting
<1>2. PICK p \in toVisit :
        /\ p \in foreground /\ p \in mask /\ p \in Pixel /\ TileOf(p) = tile
        /\ blob' = [blob EXCEPT ![b] = AddPixel(@, p)]
        /\ foreground' = foreground \ {p}
        /\ toVisit' = (toVisit \ {p}) \union NeedVisit(p, foreground \ {p})
  BY Visiting
<1> HIDE DEF b
<1>3. AllBlobs' = AllBlobs /\ b \in AllBlobs /\ b \in DOMAIN blob
  BY <1>1 DEF AllBlobs, BlobInv
<1>4. /\ blob'[b] = AddPixel(blob[b], p)
      /\ \A c \in AllBlobs : c # b => blob'[c] = blob[c]
  BY <1>2, <1>3 DEF BlobInv
<1>5. blob'[b].pixels = blob[b].pixels \union {p}
  BY <1>4 DEF AddPixel
<1>6. \A c \in AllBlobs : blob[c].pixels \in SUBSET Pixel
  BY DEF BlobInv, Described
<1>7. PICK s \in blob[b].pixels : NextTo(connectivity, s, p)
  BY <1>2 DEF ConnectionInv, b
<1>8. ConnectedBy(connectivity, blob'[b].pixels)
  <2>1. ConnectedBy(connectivity, blob[b].pixels)
    BY <1>1, <1>3 DEF ConnectionInv
  <2>2. ConnectedBy(connectivity, {p})
    BY OnePixelIsConnected
  <2>3. {p} \in SUBSET Pixel /\ p \in {p} /\ blob[b].pixels \in SUBSET Pixel
    BY <1>2, <1>3, <1>6
  <2>4. ConnectedBy(connectivity, blob[b].pixels \union {p})
    BY <1>7, <2>1, <2>2, <2>3, ConnectedUnion
  <2> QED
    BY <1>5, <2>4
<1>9. ASSUME NEW c \in AllBlobs, c # b, TileOf(c) = TileOf(b)
      PROVE  /\ ApartBy(connectivity, blob'[b].pixels, blob[c].pixels)
             /\ ApartBy(connectivity, blob[c].pixels, blob'[b].pixels)
  <2>1. /\ ApartBy(connectivity, blob[b].pixels, blob[c].pixels)
        /\ ApartBy(connectivity, blob[c].pixels, blob[b].pixels)
    BY <1>1, <1>3, <1>9 DEF ConnectionInv
  <2>2. TileOf(b) = tile
    BY <1>1, <1>3 DEF BlobInv
  <2>3. c \in SavedBlobs
    BY <1>1, <1>9, <2>2 DEF BlobInv, AllBlobs
  <2>4. \A r \in blob[c].pixels : ~NextTo(connectivity, r, p)
    BY <1>2, <1>9, <2>3 DEF ConnectionInv, b
  <2>5. \A r \in blob[c].pixels : ~NextTo(connectivity, p, r)
    BY <1>2, <1>6, <2>4, NextToIsSymmetric
  <2> QED
    BY <1>5, <2>1, <2>4, <2>5 DEF ApartBy
<1>10. \A c, d \in AllBlobs : c # d /\ TileOf(c) = TileOf(d) =>
         ApartBy(connectivity, blob'[c].pixels, blob'[d].pixels)
  <2>1. SUFFICES ASSUME NEW c \in AllBlobs, NEW d \in AllBlobs, c # d, TileOf(c) = TileOf(d)
                 PROVE  ApartBy(connectivity, blob'[c].pixels, blob'[d].pixels)
    OBVIOUS
  <2>2. CASE c = b
    BY <1>4, <1>9, <2>1, <2>2
  <2>3. CASE d = b
    BY <1>4, <1>9, <2>1, <2>3
  <2>4. CASE c # b /\ d # b
    BY <1>1, <1>4, <2>1, <2>4 DEF ConnectionInv
  <2> QED
    BY <2>2, <2>3, <2>4
<1>11. \A q : q \in NeedVisit(p, foreground \ {p}) <=>
                q \in foreground \ {p} /\ NextTo(connectivity, p, q)
  BY VisitNext
<1>12. \A q \in toVisit' : \E r \in blob'[b].pixels : NextTo(connectivity, r, q)
  BY <1>2, <1>5, <1>11 DEF ConnectionInv, b
<1>13. ASSUME NEW c \in SavedBlobs, NEW r \in blob'[c].pixels, NEW q \in foreground',
              NextTo(connectivity, r, q)
       PROVE  c = b /\ q \in toVisit'
  <2>1. CASE c = b /\ r = p
    BY <1>2, <1>11, <1>13, <2>1
  <2>2. CASE ~(c = b /\ r = p)
    <3>1. r \in blob[c].pixels
      BY <1>4, <1>5, <2>2 DEF AllBlobs
    <3>2. c = b /\ q \in toVisit
      BY <1>2, <1>13, <3>1 DEF ConnectionInv, b
    <3> QED
      BY <1>2, <3>2
  <2> QED
    BY <2>1, <2>2
<1>14. \A c \in AllBlobs : ConnectedBy(connectivity, blob'[c].pixels)
  BY <1>1, <1>4, <1>8 DEF ConnectionInv
<1> QED
  BY <1>1, <1>3, <1>10, <1>12, <1>13, <1>14 DEF ConnectionInv

(* The first pixel of a blob is next to no other blob of the tile.          *)
LEMMA ConnectionStart ==
  ASSUME LoopInv, BlobInv, ConnectionInv, StartBlob, UNCHANGED mergerVars
  PROVE  ConnectionInv'
<1>1. /\ phase = "gathering" /\ tile \in Tile \ analysed /\ toVisit = {}
      /\ UNCHANGED <<mask, connectivity, tile, phase, blobs>>
  BY StartingBlob
<1>2. PICK p \in foreground :
        /\ p \in mask /\ p \in Pixel /\ TileOf(p) = tile
        /\ currentBlob' = p /\ SavedBlobs' = SavedBlobs \union {p}
        /\ blob' = [b \in DOMAIN blob \union {p} |-> IF b = p THEN NewBlob(p) ELSE blob[b]]
        /\ foreground' = foreground \ {p}
        /\ toVisit' = NeedVisit(p, foreground \ {p})
  BY StartingBlob
<1>3. AllBlobs' = AllBlobs \union {p} /\ p \notin AllBlobs
  BY <1>1, <1>2, ForegroundIsFree DEF AllBlobs, BlobInv
<1>4. blob'[p].pixels = {p} /\ \A c \in AllBlobs : blob'[c] = blob[c]
  BY <1>2, <1>3 DEF BlobInv, NewBlob
<1>5. \A c \in AllBlobs : blob[c].pixels \in SUBSET Pixel
  BY DEF BlobInv, Described
<1>6. ASSUME NEW c \in AllBlobs, TileOf(c) = TileOf(p)
      PROVE  /\ ApartBy(connectivity, blob'[p].pixels, blob'[c].pixels)
             /\ ApartBy(connectivity, blob'[c].pixels, blob'[p].pixels)
  <2>1. c \in SavedBlobs
    BY <1>1, <1>2, <1>6 DEF BlobInv, AllBlobs
  <2>2. \A r \in blob[c].pixels : ~NextTo(connectivity, r, p)
    BY <1>1, <1>2, <2>1 DEF ConnectionInv
  <2>3. \A r \in blob[c].pixels : ~NextTo(connectivity, p, r)
    BY <1>2, <1>5, <2>2, NextToIsSymmetric
  <2> QED
    BY <1>4, <2>2, <2>3 DEF ApartBy
<1>7. \A c, d \in AllBlobs' : c # d /\ TileOf(c) = TileOf(d) =>
        ApartBy(connectivity, blob'[c].pixels, blob'[d].pixels)
  <2>1. SUFFICES ASSUME NEW c \in AllBlobs', NEW d \in AllBlobs', c # d, TileOf(c) = TileOf(d)
                 PROVE  ApartBy(connectivity, blob'[c].pixels, blob'[d].pixels)
    OBVIOUS
  <2>2. CASE c = p
    BY <1>3, <1>6, <2>1, <2>2
  <2>3. CASE d = p
    BY <1>3, <1>6, <2>1, <2>3
  <2>4. CASE c # p /\ d # p
    BY <1>1, <1>3, <1>4, <2>1, <2>4 DEF ConnectionInv
  <2> QED
    BY <2>2, <2>3, <2>4
<1>8. \A c \in AllBlobs' : ConnectedBy(connectivity, blob'[c].pixels)
  BY <1>1, <1>3, <1>4, OnePixelIsConnected DEF ConnectionInv
<1>9. \A q : q \in toVisit' <=> q \in foreground \ {p} /\ NextTo(connectivity, p, q)
  BY <1>2, VisitNext
<1>10. \A q \in toVisit' : \E r \in blob'[p].pixels : NextTo(connectivity, r, q)
  BY <1>4, <1>9
<1>11. \A c \in SavedBlobs' : \A r \in blob'[c].pixels : \A q \in foreground' :
         NextTo(connectivity, r, q) => c = p /\ q \in toVisit'
  <2>1. SUFFICES ASSUME NEW c \in SavedBlobs', NEW r \in blob'[c].pixels,
                        NEW q \in foreground', NextTo(connectivity, r, q)
                 PROVE  c = p /\ q \in toVisit'
    OBVIOUS
  <2>2. CASE c = p
    BY <1>2, <1>4, <1>9, <2>1, <2>2
  <2>3. CASE c # p
    <3>1. c \in SavedBlobs /\ r \in blob[c].pixels
      BY <1>2, <1>4, <2>3 DEF AllBlobs
    <3> QED
      BY <1>1, <1>2, <2>1, <3>1 DEF ConnectionInv
  <2> QED
    BY <2>2, <2>3
<1> QED
  BY <1>1, <1>2, <1>7, <1>8, <1>10, <1>11 DEF ConnectionInv

(* Every step keeps blobs connected, and apart within a tile.               *)
LEMMA ConnectionStep ==
  LoopInv /\ BlobInv /\ ConnectionInv /\ [Next]_vars => ConnectionInv'
<1> SUFFICES ASSUME LoopInv, BlobInv, ConnectionInv, [Next]_vars PROVE ConnectionInv'
  OBVIOUS
<1>1. ASSUME NEW t \in Tile \ analysed, StartView(t), UNCHANGED mergerVars  PROVE ConnectionInv'
  <2>1. /\ SavedBlobs = {} /\ SavedBlobs' = {} /\ toVisit' = {}
        /\ UNCHANGED <<connectivity, blob, phase, blobs>>
    BY <1>1, Starting
  <2> QED
    BY <2>1 DEF ConnectionInv, AllBlobs
<1>2. CASE VisitNeighbour /\ UNCHANGED mergerVars
  BY <1>2, ConnectionVisit
<1>3. CASE SkipPixel /\ UNCHANGED mergerVars
  <2>1. /\ UNCHANGED <<connectivity, blob, blobs, SavedBlobs, phase, foreground, toVisit>>
        /\ toVisit = {}
    BY <1>3, Skipping
  <2> QED
    BY <2>1 DEF ConnectionInv, AllBlobs
<1>4. CASE StartBlob /\ UNCHANGED mergerVars
  BY <1>4, ConnectionStart
<1>5. CASE Gather
  <2>1. /\ phase = "gathering" /\ SavedBlobs' = {} /\ blobs' = blobs \union SavedBlobs
        /\ toVisit' = {} /\ UNCHANGED <<connectivity, blob>>
    BY <1>5, Gathering
  <2>2. AllBlobs' = AllBlobs
    BY <2>1 DEF AllBlobs
  <2> QED
    BY <2>1, <2>2 DEF ConnectionInv
<1>6. CASE \/ \E b \in blobs : Unite(b)
           \/ Done
           \/ UNCHANGED vars
  <2>1. UNCHANGED <<connectivity, blob, blobs, SavedBlobs, phase, foreground, toVisit, currentBlob>>
    BY <1>6 DEF Unite, Done, vars, mergerVars, maskVars, analyserVars, SavedBlobs
  <2> QED
    BY <2>1 DEF ConnectionInv, AllBlobs
<1>7. CASE \/ AssociateSons
           \/ \E family \in families : \E kept, deleted \in family :
                kept # deleted /\ MergeAndDelete(family, kept, deleted)
           \/ AddResult
  <2>1. /\ phase # "gathering" /\ phase' \in {"merging", "done"}
        /\ UNCHANGED <<tile, SavedBlobs, toVisit>>
    BY <1>7 DEF AssociateSons, MergeAndDelete, AddResult, analyserVars, SavedBlobs
  <2>2. SavedBlobs = {} /\ toVisit = {}
    BY <2>1 DEF LoopInv
  <2> QED
    BY <2>1, <2>2 DEF ConnectionInv
<1> QED
  BY <1>1, <1>2, <1>3, <1>4, <1>5, <1>6, <1>7
     DEF Next, AnalyserStep, Analyse, MergerStep

-----------------------------------------------------------------------------
(* Paths of a forest.                                                       *)

(* A forest whose ranks grow from every element to its parent.              *)
Forest(parent, rank, E) ==
  /\ parent \in [E -> E]
  /\ rank \in [E -> Nat]
  /\ \A e \in E : parent[e] # e => rank[e] < rank[parent[e]]

Bounded(rank, E) == \E N \in Nat : \A e \in E : rank[e] <= N

(* A path begins with its element, goes on with parents, and is part of     *)
(* every set that does the same.                                            *)
LEMMA PathIsLeast ==
  ASSUME NEW E, NEW parent \in [E -> E], NEW e \in E
  PROVE  /\ e \in Path(parent, e) /\ Path(parent, e) \subseteq E
         /\ \A x \in Path(parent, e) : parent[x] \in Path(parent, e)
         /\ \A S \in SUBSET E :
              e \in S /\ (\A y \in S : parent[y] \in S) => Path(parent, e) \subseteq S
<1>1. DOMAIN parent = E
  OBVIOUS
<1> QED
  BY <1>1 DEF Path

(* What a path visits from one of its elements on.                          *)
LEMMA PathStep ==
  ASSUME NEW E, NEW parent \in [E -> E], NEW e \in E
  PROVE  Path(parent, e) \subseteq {e} \union Path(parent, parent[e])
<1> DEFINE S == {e} \union Path(parent, parent[e])
<1>1. parent[e] \in E
  OBVIOUS
<1>2. S \in SUBSET E /\ e \in S
  BY <1>1, PathIsLeast
<1>3. \A y \in S : parent[y] \in S
  BY <1>1, PathIsLeast
<1> QED
  <2> HIDE DEF S
  <2>1. Path(parent, e) \subseteq S
    BY <1>2, <1>3, PathIsLeast
  <2> QED
    BY <2>1 DEF S

(* Ranks grow along a path.                                                 *)
LEMMA RanksGrowAlongPaths ==
  ASSUME NEW E, NEW parent, NEW rank, Forest(parent, rank, E), NEW e \in E
  PROVE  \A x \in Path(parent, e) : x = e \/ rank[e] < rank[x]
<1> DEFINE S == {x \in E : x = e \/ rank[e] < rank[x]}
<1>1. parent \in [E -> E] /\ rank \in [E -> Nat]
  BY DEF Forest
<1>2. S \in SUBSET E /\ e \in S
  OBVIOUS
<1>3. ASSUME NEW y \in S  PROVE parent[y] \in S
  <2>1. y \in E /\ parent[y] \in E /\ {rank[e], rank[y], rank[parent[y]]} \subseteq Nat
    BY <1>1
  <2>2. y = e \/ rank[e] < rank[y]
    OBVIOUS
  <2>3. parent[y] = y \/ rank[y] < rank[parent[y]]
    BY <2>1 DEF Forest
  <2> QED
    BY <2>1, <2>2, <2>3
<1> QED
  <2> HIDE DEF S
  <2>1. Path(parent, e) \subseteq S
    BY <1>1, <1>2, <1>3, PathIsLeast
  <2> QED
    BY <2>1 DEF S

(* `find' comes to a root: the element of highest rank on the path.         *)
LEMMA RootOnPath ==
  ASSUME NEW E, NEW parent, NEW rank, Forest(parent, rank, E), Bounded(rank, E), NEW e \in E
  PROVE  Root(parent, e) \in Path(parent, e) /\ parent[Root(parent, e)] = Root(parent, e)
<1> DEFINE P == Path(parent, e)
<1>1. parent \in [E -> E] /\ rank \in [E -> Nat]
  BY DEF Forest
<1>2. e \in P /\ P \subseteq E /\ \A x \in P : parent[x] \in P
  BY <1>1, PathIsLeast
<1> HIDE DEF P
<1>3. PICK N \in Nat : \A x \in E : rank[x] <= N
  BY DEF Bounded
<1> DEFINE T == {N - rank[x] : x \in P}
<1>4. T \in SUBSET Nat /\ T # {}
  BY <1>1, <1>2, <1>3
<1>5. PICK m \in T : \A n \in T : m <= n
  <2> HIDE DEF T
  <2> QED
    BY <1>4, LeastNumber
<1>6. PICK r \in P : m = N - rank[r]
  OBVIOUS
<1>7. parent[r] = r
  <2>1. SUFFICES ASSUME parent[r] # r PROVE FALSE
    OBVIOUS
  <2>2. rank[r] < rank[parent[r]]
    BY <1>2, <2>1 DEF Forest
  <2>3. parent[r] \in P /\ N - rank[parent[r]] \in T
    BY <1>2
  <2>4. m <= N - rank[parent[r]]
    BY <1>5, <2>3
  <2>5. rank[r] \in Nat /\ rank[parent[r]] \in Nat
    BY <1>1, <1>2
  <2> QED
    BY <1>6, <2>2, <2>4, <2>5
<1> QED
  BY <1>7 DEF P, Root

(* The root that `find' comes to is on the path of every element visited.   *)
LEMMA RootAboveAll ==
  ASSUME NEW E, NEW parent \in [E -> E], NEW e \in E,
         NEW r \in Path(parent, e), parent[r] = r
  PROVE  \A x \in Path(parent, e) : r \in Path(parent, x)
<1> DEFINE S == {x \in Path(parent, e) : r \in Path(parent, x)}
<1>1. S \in SUBSET E /\ e \in S
  BY PathIsLeast
<1>2. ASSUME NEW y \in S  PROVE parent[y] \in S
  <2>1. y \in E /\ parent[y] \in E /\ parent[y] \in Path(parent, e)
    BY PathIsLeast
  <2>2. r = y \/ r \in Path(parent, parent[y])
    BY <2>1, PathStep
  <2>3. r = y => r \in Path(parent, parent[y])
    BY <2>1, PathIsLeast
  <2> QED
    BY <2>1, <2>2, <2>3
<1> QED
  <2> HIDE DEF S
  <2>1. Path(parent, e) \subseteq S
    BY <1>1, <1>2, PathIsLeast
  <2> QED
    BY <2>1 DEF S

-----------------------------------------------------------------------------
(* The operations keep the forest.                                          *)

(* find: paths are compressed, ranks still grow, roots stay roots.          *)
LEMMA FindKeepsForest ==
  ASSUME NEW E, NEW parent, NEW rank, Forest(parent, rank, E), Bounded(rank, E), NEW e \in E
  PROVE  /\ Forest(Find(parent, e), rank, E)
         /\ Find(parent, e)[e] = Root(parent, e)
         /\ Root(parent, e) \in E
         /\ \A x \in E : parent[x] = x => Find(parent, e)[x] = x
         /\ parent[Root(parent, e)] = Root(parent, e)
<1> DEFINE r == Root(parent, e)
           P == Path(parent, e)
           f == Find(parent, e)
<1>1. parent \in [E -> E] /\ rank \in [E -> Nat] /\ DOMAIN parent = E
  BY DEF Forest
<1>2. e \in P /\ P \subseteq E
  BY <1>1, PathIsLeast
<1>3. r \in P /\ parent[r] = r
  BY RootOnPath
<1>4. \A x \in P : x = r \/ rank[x] < rank[r]
  BY <1>1, <1>2, <1>3, RootAboveAll, RanksGrowAlongPaths
<1>5. f = [x \in E |-> IF x \in P THEN r ELSE parent[x]]
  BY <1>1 DEF Find
<1>6. \A x \in P : parent[x] = x => x = r
  <2> SUFFICES ASSUME NEW x \in P, parent[x] = x PROVE x = r
    OBVIOUS
  <2>1. r \in Path(parent, x)
    BY <1>1, <1>3, RootAboveAll
  <2>2. x \in E /\ {x} \in SUBSET E /\ x \in {x} /\ \A y \in {x} : parent[y] \in {x}
    BY <1>2
  <2>3. Path(parent, x) \subseteq {x}
    BY <1>1, <2>2, PathIsLeast
  <2> QED
    BY <2>1, <2>3
<1> HIDE DEF r, P, f
<1>7. Forest(f, rank, E)
  BY <1>1, <1>2, <1>3, <1>4, <1>5 DEF Forest
<1> QED
  BY <1>1, <1>2, <1>3, <1>5, <1>6, <1>7 DEF r, P, f

(* Linking two roots by rank keeps the ranks growing.                       *)
LEMMA LinkKeepsForest ==
  ASSUME NEW E, NEW f, Forest(f.parent, f.rank, E), Bounded(f.rank, E),
         f = [parent |-> f.parent, rank |-> f.rank],
         NEW r1 \in E, NEW r2 \in E, r1 # r2,
         f.parent[r1] = r1, f.parent[r2] = r2
  PROVE  /\ Forest(Link(f, r1, r2).parent, Link(f, r1, r2).rank, E)
         /\ Bounded(Link(f, r1, r2).rank, E)
         /\ Link(f, r1, r2) = [parent |-> Link(f, r1, r2).parent, rank |-> Link(f, r1, r2).rank]
<1>1. f.parent \in [E -> E] /\ f.rank \in [E -> Nat]
  BY DEF Forest
<1>2. PICK N \in Nat : \A e \in E : f.rank[e] <= N
  BY DEF Bounded
<1>3. CASE f.rank[r1] < f.rank[r2]
  <2>1. Link(f, r1, r2) = [parent |-> [f.parent EXCEPT ![r1] = r2], rank |-> f.rank]
    BY <1>3 DEF Link
  <2>2. Forest([f.parent EXCEPT ![r1] = r2], f.rank, E)
    BY <1>1, <1>3 DEF Forest
  <2> QED
    BY <2>1, <2>2
<1>4. CASE f.rank[r1] = f.rank[r2]
  <2> DEFINE p == [f.parent EXCEPT ![r2] = r1]
             k == [f.rank EXCEPT ![r1] = f.rank[r1] + 1]
  <2>1. Link(f, r1, r2) = [parent |-> p, rank |-> k]
    <3>1. ~(f.rank[r1] < f.rank[r2])
      BY <1>1, <1>4
    <3>2. Link(f, r1, r2) = [f EXCEPT !.parent[r2] = r1, !.rank[r1] = @ + 1]
      BY <1>4, <3>1 DEF Link
    <3>3. [f EXCEPT !.parent[r2] = r1, !.rank[r1] = @ + 1]
            = [[f EXCEPT !.parent = p] EXCEPT !.rank = k]
      OBVIOUS
    <3> HIDE DEF p, k
    <3> QED
      BY <3>2, <3>3
  <2>2. p \in [E -> E] /\ k \in [E -> Nat]
    BY <1>1
  <2>3. ASSUME NEW e \in E, p[e] # e  PROVE k[e] < k[p[e]]
    <3>1. \A x \in E : f.rank[x] \in Nat /\ k[x] = IF x = r1 THEN f.rank[x] + 1 ELSE f.rank[x]
      BY <1>1
    <3>2. CASE e = r2
      BY <1>1, <1>4, <3>1, <3>2
    <3>3. CASE e # r2
      <4>1. p[e] = f.parent[e] /\ e # r1 /\ f.parent[e] \in E
        BY <1>1, <2>3, <3>3
      <4>2. f.rank[e] < f.rank[f.parent[e]]
        BY <2>3, <4>1 DEF Forest
      <4> QED
        BY <3>1, <4>1, <4>2
    <3> QED
      BY <3>2, <3>3
  <2>4. \A e \in E : k[e] <= N + 1
    BY <1>1, <1>2
  <2> HIDE DEF p, k
  <2>5. N + 1 \in Nat
    OBVIOUS
  <2>6. Forest(p, k, E) /\ Bounded(k, E)
    BY <2>2, <2>3, <2>4, <2>5 DEF Forest, Bounded
  <2> QED
    BY <2>1, <2>6
<1>5. CASE f.rank[r2] < f.rank[r1]
  <2>1. Link(f, r1, r2) = [parent |-> [f.parent EXCEPT ![r2] = r1], rank |-> f.rank]
    BY <1>1, <1>5 DEF Link
  <2>2. Forest([f.parent EXCEPT ![r2] = r1], f.rank, E)
    BY <1>1, <1>5 DEF Forest
  <2> QED
    BY <2>1, <2>2
<1> QED
  BY <1>1, <1>3, <1>4, <1>5

(* unionElements.                                                           *)
LEMMA UnionKeepsForest ==
  ASSUME NEW E, NEW f, Forest(f.parent, f.rank, E), Bounded(f.rank, E),
         f = [parent |-> f.parent, rank |-> f.rank],
         NEW e1 \in E, NEW e2 \in E
  PROVE  /\ Forest(UnionElements(f, e1, e2).parent, UnionElements(f, e1, e2).rank, E)
         /\ Bounded(UnionElements(f, e1, e2).rank, E)
         /\ UnionElements(f, e1, e2) =
              [parent |-> UnionElements(f, e1, e2).parent, rank |-> UnionElements(f, e1, e2).rank]
<1> DEFINE found1 == Find(f.parent, e1)
           found2 == Find(found1, e2)
           g == [f EXCEPT !.parent = found2]
           r1 == found1[e1]
           r2 == found2[e2]
<1>1. /\ Forest(found1, f.rank, E) /\ r1 \in E /\ f.parent[r1] = r1
      /\ \A x \in E : f.parent[x] = x => found1[x] = x
  BY FindKeepsForest
<1>2. found1[r1] = r1
  BY <1>1
<1>3. /\ Forest(found2, f.rank, E) /\ r2 \in E
      /\ \A x \in E : found1[x] = x => found2[x] = x
      /\ found1[r2] = r2
  <2> HIDE DEF found1
  <2> QED
    BY <1>1, FindKeepsForest
<1>4. found2[r1] = r1 /\ found2[r2] = r2
  BY <1>1, <1>2, <1>3
<1>5. g = [parent |-> found2, rank |-> f.rank]
  OBVIOUS
<1>6. UnionElements(f, e1, e2) = IF r1 = r2 THEN g ELSE Link(g, r1, r2)
  BY DEF UnionElements
<1> HIDE DEF found1, found2, r1, r2, g
<1>7. CASE r1 = r2
  BY <1>3, <1>5, <1>6, <1>7
<1>8. CASE r1 # r2
  <2>1. /\ Forest(g.parent, g.rank, E) /\ Bounded(g.rank, E)
        /\ g = [parent |-> g.parent, rank |-> g.rank]
    BY <1>3, <1>5
  <2>2. g.parent[r1] = r1 /\ g.parent[r2] = r2
    BY <1>4, <1>5
  <2> QED
    BY <1>1, <1>3, <1>6, <1>8, <2>1, <2>2, LinkKeepsForest
<1> QED
  BY <1>7, <1>8

-----------------------------------------------------------------------------
(* Which elements have the same root.                                       *)

(* What goes up unchanged to the roots, and names them, is the root.        *)
LEMMA RootIs ==
  ASSUME NEW E, NEW parent, NEW rank, Forest(parent, rank, E), Bounded(rank, E),
         NEW g, \A x \in E : g[parent[x]] = g[x],
         \A x \in E : parent[x] = x => g[x] = x,
         NEW e \in E
  PROVE  Root(parent, e) = g[e]
<1> DEFINE S == {y \in E : g[y] = g[e]}
           r == Root(parent, e)
<1>1. parent \in [E -> E]
  BY DEF Forest
<1>2. S \in SUBSET E /\ e \in S /\ \A y \in S : parent[y] \in S
  BY <1>1
<1>3. r \in Path(parent, e) /\ parent[r] = r
  BY RootOnPath
<1> HIDE DEF S
<1>4. Path(parent, e) \subseteq S
  BY <1>1, <1>2, PathIsLeast
<1> HIDE DEF r
<1>5. r \in E /\ g[r] = g[e]
  BY <1>3, <1>4 DEF S
<1> QED
  BY <1>3, <1>5 DEF r

(* Roots are their own roots, and a path has one root.                      *)
LEMMA RootsOfForest ==
  ASSUME NEW E, NEW parent, NEW rank, Forest(parent, rank, E), Bounded(rank, E)
  PROVE  \A x \in E : /\ Root(parent, x) \in E
                      /\ parent[Root(parent, x)] = Root(parent, x)
                      /\ Root(parent, parent[x]) = Root(parent, x)
                      /\ parent[x] = x => Root(parent, x) = x
                      /\ \A y \in Path(parent, x) : y \in E /\ Root(parent, y) = Root(parent, x)
<1>1. parent \in [E -> E]
  BY DEF Forest
<1>2. ASSUME NEW x \in E, parent[x] = x  PROVE Root(parent, x) = x
  <2>1. {x} \in SUBSET E /\ x \in {x} /\ \A y \in {x} : parent[y] \in {x}
    BY <1>2
  <2>2. Path(parent, x) \subseteq {x}
    BY <1>1, <2>1, PathIsLeast
  <2> QED
    BY <2>2, RootOnPath
<1>3. ASSUME NEW x \in E, NEW y \in Path(parent, x)
      PROVE  y \in E /\ Root(parent, y) = Root(parent, x)
  <2> DEFINE r == Root(parent, x)
  <2>1. r \in Path(parent, x) /\ parent[r] = r
    BY RootOnPath
  <2>2. y \in E /\ r \in E
    BY <1>1, <2>1, PathIsLeast
  <2> HIDE DEF r
  <2>3. r \in Path(parent, y)
    BY <1>1, <2>1, RootAboveAll
  <2> DEFINE s == Root(parent, y)
  <2>4. s \in Path(parent, y) /\ parent[s] = s
    BY <2>2, RootOnPath
  <2> HIDE DEF s
  <2>5. s \in Path(parent, r)
    BY <1>1, <2>2, <2>3, <2>4, RootAboveAll
  <2>6. {r} \in SUBSET E /\ r \in {r} /\ \A z \in {r} : parent[z] \in {r}
    BY <2>1, <2>2
  <2>7. Path(parent, r) \subseteq {r}
    BY <1>1, <2>2, <2>6, PathIsLeast
  <2> QED
    BY <2>2, <2>5, <2>7 DEF r, s
<1>4. ASSUME NEW x \in E
      PROVE  /\ Root(parent, x) \in E
             /\ parent[Root(parent, x)] = Root(parent, x)
             /\ parent[x] \in Path(parent, x)
  BY <1>1, RootOnPath, PathIsLeast
<1> QED
  BY <1>2, <1>3, <1>4

(* find leaves everyone's root.                                             *)
LEMMA FindKeepsRoots ==
  ASSUME NEW E, NEW parent, NEW rank, Forest(parent, rank, E), Bounded(rank, E), NEW e \in E
  PROVE  \A x \in E : Root(Find(parent, e), x) = Root(parent, x)
<1> DEFINE f == Find(parent, e)
           g == [x \in E |-> Root(parent, x)]
           r == Root(parent, e)
           P == Path(parent, e)
<1>1. parent \in [E -> E] /\ DOMAIN parent = E
  BY DEF Forest
<1>2. Forest(f, rank, E) /\ r \in E /\ parent[r] = r
  BY FindKeepsForest
<1>3. f = [x \in E |-> IF x \in P THEN r ELSE parent[x]]
  BY <1>1 DEF Find
<1>4. \A x \in P : Root(parent, x) = r
  BY RootsOfForest
<1>5. Root(parent, r) = r
  BY <1>2, RootsOfForest
<1> HIDE DEF f, r, P
<1>6. \A x \in E : g[f[x]] = g[x]
  <2>1. SUFFICES ASSUME NEW x \in E PROVE g[f[x]] = g[x]
    OBVIOUS
  <2>2. CASE x \in P
    BY <1>2, <1>3, <1>4, <1>5, <2>2
  <2>3. CASE x \notin P
    <3>1. f[x] = parent[x] /\ parent[x] \in E
      BY <1>1, <1>3, <2>3
    <3> QED
      BY <3>1, RootsOfForest
  <2> QED
    BY <2>2, <2>3
<1>7. \A x \in E : f[x] = x => g[x] = x
  <2>1. SUFFICES ASSUME NEW x \in E, f[x] = x PROVE g[x] = x
    OBVIOUS
  <2>2. CASE x \in P
    BY <1>3, <1>5, <2>1, <2>2
  <2>3. CASE x \notin P
    BY <1>3, <2>1, <2>3, RootsOfForest
  <2> QED
    BY <2>2, <2>3
<1> HIDE DEF g
<1>8. \A x \in E : Root(f, x) = g[x]
  BY <1>2, <1>6, <1>7, RootIs
<1> QED
  BY <1>8 DEF f, g

(* A root put below another one takes its elements along.                   *)
LEMMA GraftedRoots ==
  ASSUME NEW E, NEW parent, NEW rank, Forest(parent, rank, E), Bounded(rank, E),
         NEW a \in E, NEW z \in E, a # z, parent[a] = a, parent[z] = z,
         NEW rank2, Bounded(rank2, E), Forest([parent EXCEPT ![a] = z], rank2, E)
  PROVE  \A x \in E : Root([parent EXCEPT ![a] = z], x)
                        = IF Root(parent, x) = a THEN z ELSE Root(parent, x)
<1> DEFINE f == [parent EXCEPT ![a] = z]
           g == [x \in E |-> IF Root(parent, x) = a THEN z ELSE Root(parent, x)]
<1>1. parent \in [E -> E]
  BY DEF Forest
<1>2. f[a] = z /\ \A x \in E : x # a => f[x] = parent[x]
  BY <1>1
<1>3. Root(parent, a) = a /\ Root(parent, z) = z
  BY RootsOfForest
<1>4. Forest(f, rank2, E)
  OBVIOUS
<1> HIDE DEF f
<1>5. \A x \in E : g[f[x]] = g[x]
  <2>1. SUFFICES ASSUME NEW x \in E PROVE g[f[x]] = g[x]
    OBVIOUS
  <2>2. CASE x = a
    BY <1>2, <1>3, <2>2
  <2>3. CASE x # a
    <3>1. f[x] = parent[x] /\ parent[x] \in E
      BY <1>1, <1>2, <2>3
    <3>2. Root(parent, parent[x]) = Root(parent, x)
      BY RootsOfForest
    <3> QED
      BY <3>1, <3>2
  <2> QED
    BY <2>2, <2>3
<1>6. \A x \in E : f[x] = x => g[x] = x
  <2>1. SUFFICES ASSUME NEW x \in E, f[x] = x PROVE g[x] = x
    OBVIOUS
  <2>2. x # a /\ parent[x] = x
    BY <1>2, <2>1
  <2>3. Root(parent, x) = x
    BY <2>2, RootsOfForest
  <2> QED
    BY <2>2, <2>3
<1> HIDE DEF g
<1>7. \A x \in E : Root(f, x) = g[x]
  BY <1>4, <1>5, <1>6, RootIs
<1> QED
  BY <1>7 DEF f, g

(* The elements of the root of e1 or e2 go to the root of the other.        *)
Joined(parent, parent2, E, e1, e2) ==
  \E a, z : /\ {a, z} = {Root(parent, e1), Root(parent, e2)}
            /\ \A x \in E : Root(parent2, x) = IF Root(parent, x) = a THEN z ELSE Root(parent, x)

(* What unionElements does.                                                 *)
LEMMA UnionJoins ==
  ASSUME NEW E, NEW f, Forest(f.parent, f.rank, E), Bounded(f.rank, E),
         f = [parent |-> f.parent, rank |-> f.rank],
         NEW e1 \in E, NEW e2 \in E
  PROVE  Joined(f.parent, UnionElements(f, e1, e2).parent, E, e1, e2)
<1> DEFINE found1 == Find(f.parent, e1)
           found2 == Find(found1, e2)
           g == [f EXCEPT !.parent = found2]
           r1 == found1[e1]
           r2 == found2[e2]
<1>1. /\ Forest(found1, f.rank, E) /\ r1 = Root(f.parent, e1) /\ r1 \in E /\ f.parent[r1] = r1
      /\ \A x \in E : f.parent[x] = x => found1[x] = x
  BY FindKeepsForest
<1>2. \A x \in E : Root(found1, x) = Root(f.parent, x)
  BY FindKeepsRoots
<1>3. /\ Forest(found2, f.rank, E) /\ r2 = Root(found1, e2) /\ r2 \in E /\ found1[r2] = r2
      /\ \A x \in E : found1[x] = x => found2[x] = x
  <2> HIDE DEF found1
  <2> QED
    BY <1>1, FindKeepsForest
<1>4. \A x \in E : Root(found2, x) = Root(found1, x)
  <2> HIDE DEF found1
  <2> QED
    BY <1>1, FindKeepsRoots
<1>5. g = [parent |-> found2, rank |-> f.rank]
  OBVIOUS
<1>6. UnionElements(f, e1, e2) = IF r1 = r2 THEN g ELSE Link(g, r1, r2)
  BY DEF UnionElements
<1> HIDE DEF found1, found2, r1, r2, g
<1>7. found2[r1] = r1 /\ found2[r2] = r2
  BY <1>1, <1>3
<1>8. \A x \in E : Root(found2, x) = Root(f.parent, x)
  BY <1>2, <1>4
<1>9. r2 = Root(f.parent, e2)
  BY <1>2, <1>3
<1>10. CASE r1 = r2
  <2>1. UnionElements(f, e1, e2).parent = found2
    BY <1>5, <1>6, <1>10
  <2>2. \A x \in E : Root(UnionElements(f, e1, e2).parent, x)
                       = IF Root(f.parent, x) = r1 THEN r1 ELSE Root(f.parent, x)
    BY <1>8, <2>1
  <2> QED
    BY <1>1, <1>9, <1>10, <2>2 DEF Joined
<1>11. CASE r1 # r2
  <2> DEFINE L == Link(g, r1, r2)
  <2>1. UnionElements(f, e1, e2) = L
    BY <1>6, <1>11
  <2>2. /\ Forest(L.parent, L.rank, E) /\ Bounded(L.rank, E)
        /\ Forest(g.parent, g.rank, E) /\ Bounded(g.rank, E)
    <3>1. /\ Forest(g.parent, g.rank, E) /\ Bounded(g.rank, E)
          /\ g = [parent |-> g.parent, rank |-> g.rank]
          /\ g.parent[r1] = r1 /\ g.parent[r2] = r2
      BY <1>3, <1>5, <1>7
    <3> QED
      BY <1>1, <1>3, <1>11, <3>1, LinkKeepsForest
  <2>3. \/ L.parent = [found2 EXCEPT ![r1] = r2]
        \/ L.parent = [found2 EXCEPT ![r2] = r1]
    <3>1. [g EXCEPT !.parent[r2] = r1, !.rank[r1] = @ + 1].parent = [found2 EXCEPT ![r2] = r1]
      BY <1>5
    <3>2. [g EXCEPT !.parent[r1] = r2].parent = [found2 EXCEPT ![r1] = r2]
      BY <1>5
    <3>3. [g EXCEPT !.parent[r2] = r1].parent = [found2 EXCEPT ![r2] = r1]
      BY <1>5
    <3> QED
      BY <3>1, <3>2, <3>3 DEF Link
  <2> HIDE DEF L
  <2>4. CASE L.parent = [found2 EXCEPT ![r1] = r2]
    <3>1. \A x \in E : Root(L.parent, x) = IF Root(found2, x) = r1 THEN r2 ELSE Root(found2, x)
      BY <1>1, <1>3, <1>5, <1>7, <1>11, <2>2, <2>4, GraftedRoots
    <3> QED
      BY <1>1, <1>8, <1>9, <2>1, <3>1 DEF Joined
  <2>5. CASE L.parent = [found2 EXCEPT ![r2] = r1]
    <3>1. \A x \in E : Root(L.parent, x) = IF Root(found2, x) = r2 THEN r1 ELSE Root(found2, x)
      BY <1>1, <1>3, <1>5, <1>7, <1>11, <2>2, <2>5, GraftedRoots
    <3>2. {r2, r1} = {Root(f.parent, e1), Root(f.parent, e2)}
      BY <1>1, <1>9
    <3> QED
      BY <1>8, <2>1, <3>1, <3>2 DEF Joined
  <2> QED
    BY <2>3, <2>4, <2>5
<1> QED
  BY <1>10, <1>11

-----------------------------------------------------------------------------
(* The forest of the merger's blobs.                                        *)
ForestInv ==
  /\ phase \in {"gathering", "uniting", "merging", "done"}
  /\ phase \in {"gathering", "uniting"} =>
       /\ forest = [parent |-> forest.parent, rank |-> forest.rank]
       /\ Forest(forest.parent, forest.rank, blobs)
       /\ Bounded(forest.rank, blobs)

(* Without a blob there is no tree.                                         *)
LEMMA ForestInit == Init => ForestInv
<1> SUFFICES ASSUME Init PROVE ForestInv
  OBVIOUS
<1>1. forest = [parent |-> <<>>, rank |-> <<>>] /\ blobs = {} /\ phase = "gathering"
  BY DEF Init
<1>2. <<>> \in [{} -> {}] /\ <<>> \in [{} -> Nat]
  OBVIOUS
<1> QED
  BY <1>1, <1>2 DEF ForestInv, Forest, Bounded

(* Every step keeps the forest.                                             *)
LEMMA ForestStep == ForestInv /\ [Next]_vars => ForestInv'
<1> SUFFICES ASSUME ForestInv, [Next]_vars PROVE ForestInv'
  OBVIOUS
<1>1. CASE Gather
  <2>1. forest' = [parent |-> [b \in blobs' |-> b], rank |-> [b \in blobs' |-> 0]]
    BY <1>1 DEF Gather
  <2>2. phase' \in {"gathering", "uniting"}
    BY <1>1 DEF Gather
  <2>3. Forest(forest'.parent, forest'.rank, blobs') /\ Bounded(forest'.rank, blobs')
    BY <2>1 DEF Forest, Bounded
  <2> QED
    BY <2>1, <2>2, <2>3 DEF ForestInv
<1>2. ASSUME NEW b \in blobs, Unite(b)  PROVE ForestInv'
  <2>1. PICK c \in BlobsAt(Head(toMerge[b])) : forest' = UnionElements(forest, b, c)
    BY <1>2 DEF Unite
  <2>2. c \in blobs /\ phase = "uniting" /\ phase' = phase /\ blobs' = blobs
    BY <1>2, <2>1 DEF Unite, BlobsAt
  <2>3. /\ forest = [parent |-> forest.parent, rank |-> forest.rank]
        /\ Forest(forest.parent, forest.rank, blobs) /\ Bounded(forest.rank, blobs)
    BY <2>2 DEF ForestInv
  <2>4. /\ Forest(forest'.parent, forest'.rank, blobs) /\ Bounded(forest'.rank, blobs)
        /\ forest' = [parent |-> forest'.parent, rank |-> forest'.rank]
    BY <2>1, <2>2, <2>3, UnionKeepsForest
  <2> QED
    BY <2>2, <2>4 DEF ForestInv
<1>3. CASE AssociateSons
  BY <1>3 DEF AssociateSons, ForestInv
<1>4. ASSUME NEW family, NEW kept, NEW deleted, MergeAndDelete(family, kept, deleted)
      PROVE  ForestInv'
  BY <1>4 DEF MergeAndDelete, ForestInv
<1>5. CASE AddResult
  BY <1>5 DEF AddResult, ForestInv
<1>6. CASE UNCHANGED mergerVars
  BY <1>6 DEF ForestInv, mergerVars
<1>7. AnalyserStep \/ Done \/ UNCHANGED vars => UNCHANGED mergerVars
  BY DEF AnalyserStep, Done, vars
<1> QED
  BY <1>1, <1>2, <1>3, <1>4, <1>5, <1>6, <1>7 DEF Next, MergerStep

-----------------------------------------------------------------------------
(* The trees of the forest are connected, and what a blob looks at has been *)
(* united with it or still is to be.                                        *)

(* The pixels of some blobs, and the blobs of one tree.                     *)
Together(f, F) == UNION {f[b].pixels : b \in F}
TreeOf(parent, E, b) == {d \in E : Root(parent, d) = Root(parent, b)}

UnitedInv ==
  phase = "uniting" =>
    \A b \in blobs :
      /\ ConnectedBy(connectivity, Together(blob, TreeOf(forest.parent, blobs, b)))
      /\ \A p \in blob[b].pixels : \A q \in mask : LooksAt(connectivity, p, q) =>
           \/ q \in Elems(toMerge[b])
           \/ \E d \in TreeOf(forest.parent, blobs, b) : q \in blob[d].pixels

(* Before any union, each blob is a tree with all its notes to follow.      *)
LEMMA UnitedGather ==
  ASSUME FloodInv, ConnectionInv, ForestInv', Gather, phase' = "uniting", NotesInv', ConnectionInv'
  PROVE  UnitedInv'
<1>1. phase = "gathering" /\ blobs' = blobs \union SavedBlobs /\ AllBlobs' = blobs'
  BY Gathering DEF FloodInv, AllBlobs
<1>2. forest' = [parent |-> [b \in blobs' |-> b], rank |-> [b \in blobs' |-> 0]]
  BY Gathering DEF FloodInv
<1>3. UNCHANGED <<mask, connectivity, blob>>
  BY Gathering DEF FloodInv
<1> DEFINE E == blobs'
           parent == forest'.parent
<1>4. Forest(parent, forest'.rank, E) /\ Bounded(forest'.rank, E)
  BY DEF ForestInv
<1>5. \A b \in E : parent[b] = b
  BY <1>2
<1>6. ASSUME NEW b \in E  PROVE TreeOf(parent, E, b) = {b}
  <2> HIDE DEF E, parent
  <2>1. \A d \in E : Root(parent, d) = d
    BY <1>4, <1>5, RootsOfForest
  <2> QED
    BY <2>1 DEF TreeOf
<1>7. \A b \in E : Together(blob', {b}) = blob'[b].pixels
  BY DEF Together
<1>8. \A b \in E : ConnectedBy(connectivity', blob'[b].pixels)
  BY <1>1 DEF ConnectionInv
<1>9. ASSUME NEW b \in E, NEW p \in blob'[b].pixels, NEW q \in mask', LooksAt(connectivity', p, q)
      PROVE  q \in Elems(toMerge'[b])
  <2>1. toMerge' = [c \in blobs' |-> IF c \in blobs THEN toMerge[c] ELSE viewToMerge[c]]
    BY Gathering DEF FloodInv
  <2>2. Noted(connectivity, mask, blob[b], toMerge'[b])
    BY <1>1, <2>1 DEF FloodInv, NotesInv
  <2> QED
    BY <1>3, <1>9, <2>2 DEF Noted
<1> HIDE DEF E, parent
<1>10. \A b \in E : ConnectedBy(connectivity', Together(blob', TreeOf(parent, E, b)))
  BY <1>6, <1>7, <1>8
<1> QED
  BY <1>9, <1>10 DEF UnitedInv, E, parent

(* A union makes one tree of two that have neighbours.                      *)
LEMMA UnitedUnite ==
  ASSUME FloodInv, ConnectionInv, ForestInv, UnitedInv, NEW b \in blobs, Unite(b)
  PROVE  UnitedInv'
<1>1. /\ phase = "uniting" /\ toMerge[b] # <<>>
      /\ toMerge' = [toMerge EXCEPT ![b] = Tail(@)]
      /\ UNCHANGED <<mask, connectivity, blob, phase, blobs>>
  BY DEF Unite, maskVars
<1>2. PICK c \in BlobsAt(Head(toMerge[b])) : forest' = UnionElements(forest, b, c)
  BY DEF Unite
<1> DEFINE q == Head(toMerge[b])
           R(x) == Root(forest.parent, x)
           R2(x) == Root(forest'.parent, x)
           ownTree(x) == TreeOf(forest.parent, blobs, x)
           newTree(x) == TreeOf(forest'.parent, blobs, x)
<1>3. c \in blobs /\ q \in blob[c].pixels
  BY <1>2 DEF BlobsAt, IsPixelInFeature
<1>4. /\ toMerge[b] \in Seq(mask) /\ DOMAIN toMerge = blobs
      /\ Elems(toMerge[b]) = {q} \union Elems(Tail(toMerge[b]))
  BY <1>1, TailElems DEF FloodInv, NotesInv
<1>5. PICK p \in blob[b].pixels : LooksAt(connectivity, p, q)
  BY <1>1, <1>4 DEF FloodInv, NotesInv
<1>6. PICK a, z : /\ {a, z} = {R(b), R(c)}
                  /\ \A x \in blobs : R2(x) = IF R(x) = a THEN z ELSE R(x)
  <2>1. /\ Forest(forest.parent, forest.rank, blobs) /\ Bounded(forest.rank, blobs)
        /\ forest = [parent |-> forest.parent, rank |-> forest.rank]
    BY <1>1 DEF ForestInv
  <2>2. Joined(forest.parent, UnionElements(forest, b, c).parent, blobs, b, c)
    BY <1>3, <2>1, UnionJoins
  <2> QED
    BY <1>2, <2>2 DEF Joined
<1>7. \A x \in blobs : blob[x].pixels \in SUBSET Pixel
  BY DEF FloodInv, BlobInv, AllBlobs, Described
<1>8. p \in Pixel /\ NextTo(connectivity, p, q)
  <2>1. p \in Pixel /\ connectivity \in {4, 8}
    BY <1>7 DEF FloodInv, LoopInv
  <2> QED
    BY <1>5, <2>1, LookedAtIsNext
<1> HIDE DEF q
<1>9. \A x \in blobs : ConnectedBy(connectivity, Together(blob, ownTree(x)))
  BY <1>1 DEF UnitedInv
<1>10. \A x, y \in blobs : R(x) = R(y) => R2(x) = R2(y)
  BY <1>6
<1>11. ASSUME NEW x \in blobs  PROVE ConnectedBy(connectivity, Together(blob, newTree(x)))
  <2>1. CASE R(x) \notin {a, z}
    <3>1. newTree(x) = ownTree(x)
      BY <1>6, <2>1 DEF TreeOf
    <3> QED
      BY <1>9, <3>1
  <2>2. CASE R(x) \in {a, z}
    <3>1. \A y \in blobs : R2(y) = R2(x) <=> R(y) \in {R(b), R(c)}
      BY <1>6, <2>2
    <3>2. newTree(x) = ownTree(b) \union ownTree(c)
      BY <3>1 DEF TreeOf
    <3>3. Together(blob, newTree(x)) = Together(blob, ownTree(b)) \union Together(blob, ownTree(c))
      BY <3>2 DEF Together
    <3>4. /\ b \in ownTree(b) /\ ownTree(b) \in SUBSET blobs
          /\ c \in ownTree(c) /\ ownTree(c) \in SUBSET blobs
      BY <1>3 DEF TreeOf
    <3>5. /\ p \in Together(blob, ownTree(b)) /\ Together(blob, ownTree(b)) \in SUBSET Pixel
          /\ q \in Together(blob, ownTree(c)) /\ Together(blob, ownTree(c)) \in SUBSET Pixel
      BY <1>3, <1>5, <1>7, <3>4 DEF Together
    <3> HIDE DEF ownTree, newTree
    <3>6. ConnectedBy(connectivity, Together(blob, ownTree(b)) \union Together(blob, ownTree(c)))
      BY <1>3, <1>8, <1>9, <3>5, ConnectedUnion
    <3> QED
      BY <3>3, <3>6
  <2> QED
    BY <2>1, <2>2
<1>12. /\ toMerge'[b] = Tail(toMerge[b])
       /\ \A x \in blobs : x # b => toMerge'[x] = toMerge[x]
  BY <1>1, <1>4
<1>13. ASSUME NEW x \in blobs, NEW r \in blob[x].pixels, NEW s \in mask,
              LooksAt(connectivity, r, s)
       PROVE  s \in Elems(toMerge'[x]) \/ \E d \in newTree(x) : s \in blob[d].pixels
  <2>1. s \in Elems(toMerge[x]) \/ \E d \in ownTree(x) : s \in blob[d].pixels
    BY <1>1, <1>13 DEF UnitedInv
  <2>2. CASE \E d \in ownTree(x) : s \in blob[d].pixels
    <3>1. ownTree(x) \subseteq newTree(x)
      BY <1>10 DEF TreeOf
    <3> QED
      BY <2>2, <3>1
  <2>3. CASE s \in Elems(toMerge[x]) /\ x # b
    BY <1>12, <2>3
  <2>4. CASE s \in Elems(toMerge[x]) /\ x = b /\ s # q
    BY <1>4, <1>12, <2>4
  <2>5. CASE x = b /\ s = q
    <3>1. R2(c) = R2(b)
      BY <1>3, <1>6
    <3>2. c \in newTree(b)
      BY <1>3, <3>1 DEF TreeOf
    <3> QED
      BY <1>3, <2>5, <3>2 DEF q
  <2> QED
    BY <2>1, <2>2, <2>3, <2>4, <2>5
<1> QED
  BY <1>1, <1>11, <1>13 DEF UnitedInv

-----------------------------------------------------------------------------
(* The families are the components, in parts that become one.               *)

ComponentsInv ==
  phase \in {"merging", "done"} =>
    /\ \A F \in families : ConnectedBy(connectivity, Together(blob, F))
    /\ \A F, G \in families : F # G =>
         ApartBy(connectivity, Together(blob, F), Together(blob, G))

(* Once all notes are followed, neighbours are in one tree.                 *)
LEMMA ComponentsFound ==
  ASSUME FloodInv, ConnectionInv, UnitedInv, AssociateSons
  PROVE  ComponentsInv'
<1> DEFINE ownTree(x) == TreeOf(forest.parent, blobs, x)
<1>1. /\ phase = "uniting" /\ \A b \in blobs : toMerge[b] = <<>>
      /\ families' = {ownTree(b) : b \in blobs}
      /\ UNCHANGED <<connectivity, blob>>
  BY DEF AssociateSons, TreeOf, maskVars
<1>2. \A b \in blobs : ConnectedBy(connectivity, Together(blob, ownTree(b)))
  BY <1>1 DEF UnitedInv
<1>3. ASSUME NEW b \in blobs, NEW d \in blobs, NEW p \in blob[b].pixels, NEW q \in blob[d].pixels,
             LooksAt(connectivity, p, q)
      PROVE  Root(forest.parent, b) = Root(forest.parent, d)
  <2>1. q \in mask
    BY DEF FloodInv, BlobInv, AllBlobs
  <2>2. Elems(toMerge[b]) = {}
    BY <1>1 DEF Elems
  <2>3. PICK e \in ownTree(b) : q \in blob[e].pixels
    BY <1>1, <1>3, <2>1, <2>2 DEF UnitedInv
  <2>4. e \in blobs /\ e = d
    BY <2>3 DEF FloodInv, BlobInv, AllBlobs, TreeOf
  <2> QED
    BY <2>3, <2>4 DEF TreeOf
<1>4. ASSUME NEW b \in blobs, NEW d \in blobs, NEW p \in blob[b].pixels, NEW q \in blob[d].pixels,
             NextTo(connectivity, p, q)
      PROVE  Root(forest.parent, b) = Root(forest.parent, d)
  <2>1. /\ p \in Pixel /\ q \in Pixel /\ connectivity \in {4, 8}
        /\ TileOf(p) = TileOf(b) /\ TileOf(q) = TileOf(d)
    BY <1>1 DEF FloodInv, LoopInv, BlobInv, AllBlobs, Described
  <2>2. CASE TileOf(b) = TileOf(d)
    <3>1. b = d
      BY <1>1, <1>4, <2>2 DEF ConnectionInv, AllBlobs, ApartBy
    <3> QED
      BY <3>1
  <2>3. CASE TileOf(b) # TileOf(d)
    <3>1. LooksAt(connectivity, p, q) \/ LooksAt(connectivity, q, p)
      BY <1>4, <2>1, <2>3, NextInOtherTile
    <3> QED
      BY <1>3, <3>1
  <2> QED
    BY <2>2, <2>3
<1>5. ASSUME NEW b \in blobs, NEW d \in blobs, ownTree(b) # ownTree(d)
      PROVE  ApartBy(connectivity, Together(blob, ownTree(b)), Together(blob, ownTree(d)))
  <2>1. SUFFICES ASSUME NEW p \in Together(blob, ownTree(b)), NEW q \in Together(blob, ownTree(d)),
                        NextTo(connectivity, p, q)
                 PROVE  FALSE
    BY DEF ApartBy
  <2>2. PICK e \in ownTree(b) : p \in blob[e].pixels
    BY DEF Together
  <2>3. PICK g \in ownTree(d) : q \in blob[g].pixels
    BY DEF Together
  <2>4. e \in blobs /\ g \in blobs
    BY DEF TreeOf
  <2>5. Root(forest.parent, e) = Root(forest.parent, g)
    BY <1>4, <2>1, <2>2, <2>3, <2>4
  <2>6. Root(forest.parent, b) = Root(forest.parent, d)
    BY <2>5 DEF TreeOf
  <2> QED
    BY <1>5, <2>6 DEF TreeOf
<1> HIDE DEF ownTree
<1> QED
  BY <1>1, <1>2, <1>5 DEF ComponentsInv

(* A merge leaves the pixels of each family as they were.                   *)
LEMMA ComponentsMerge ==
  ASSUME FloodInv, ComponentsInv, NEW family \in families,
         NEW kept \in family, NEW deleted \in family, kept # deleted,
         MergeAndDelete(family, kept, deleted)
  PROVE  ComponentsInv'
<1>1. /\ phase = "merging" /\ phase' = phase /\ connectivity' = connectivity
      /\ families' = (families \ {family}) \union {family \ {deleted}}
      /\ blobs' = blobs \ {deleted}
  BY DEF MergeAndDelete, maskVars
<1>2. /\ blob'[kept].pixels = blob[kept].pixels \union blob[deleted].pixels
      /\ \A b \in blobs' : b # kept => blob'[b] = blob[b]
  BY BlobMerge DEF FloodInv
<1>3. \A F \in families : F \in SUBSET blobs /\ (F # family => F \intersect family = {})
  BY <1>1 DEF FloodInv, FamiliesInv
<1>4. Together(blob', family \ {deleted}) = Together(blob, family)
  <2>1. ASSUME NEW p \in Together(blob', family \ {deleted})  PROVE p \in Together(blob, family)
    <3>1. PICK b \in family \ {deleted} : p \in blob'[b].pixels
      BY DEF Together
    <3>2. CASE b = kept
      BY <1>2, <3>1, <3>2 DEF Together
    <3>3. CASE b # kept
      <4>1. blob'[b] = blob[b]
        BY <1>1, <1>2, <1>3, <3>1, <3>3
      <4> QED
        BY <3>1, <4>1 DEF Together
    <3> QED
      BY <3>2, <3>3
  <2>2. ASSUME NEW p \in Together(blob, family)  PROVE p \in Together(blob', family \ {deleted})
    <3>1. PICK b \in family : p \in blob[b].pixels
      BY DEF Together
    <3>2. CASE b \in {kept, deleted}
      <4>1. p \in blob'[kept].pixels /\ kept \in family \ {deleted}
        BY <1>2, <3>1, <3>2
      <4> QED
        BY <4>1 DEF Together
    <3>3. CASE b \notin {kept, deleted}
      <4>1. blob'[b] = blob[b] /\ b \in family \ {deleted}
        BY <1>1, <1>2, <1>3, <3>1, <3>3
      <4> QED
        BY <3>1, <4>1 DEF Together
    <3> QED
      BY <3>2, <3>3
  <2> QED
    BY <2>1, <2>2
<1>5. ASSUME NEW F \in families, F # family  PROVE Together(blob', F) = Together(blob, F)
  <2>1. \A b \in F : blob'[b] = blob[b]
    BY <1>1, <1>2, <1>3, <1>5
  <2> QED
    BY <2>1 DEF Together
<1> DEFINE rest == family \ {deleted}
           old(F) == IF F = rest THEN family ELSE F
<1>6. ASSUME NEW F \in families'
      PROVE  old(F) \in families /\ Together(blob', F) = Together(blob, old(F))
  <2>1. CASE F = rest
    BY <1>4, <2>1
  <2>2. CASE F # rest
    BY <1>1, <1>5, <2>2
  <2> QED
    BY <2>1, <2>2
<1>7. \A F, G \in families' : F # G => old(F) # old(G)
  <2>1. \A F \in families' : F # rest => F # family
    BY <1>1
  <2> HIDE DEF rest
  <2> QED
    BY <2>1
<1> HIDE DEF old
<1>8. \A F \in families' : ConnectedBy(connectivity, Together(blob', F))
  BY <1>1, <1>6 DEF ComponentsInv
<1>9. \A F, G \in families' : F # G =>
        ApartBy(connectivity, Together(blob', F), Together(blob', G))
  BY <1>1, <1>6, <1>7 DEF ComponentsInv
<1> QED
  BY <1>1, <1>8, <1>9 DEF ComponentsInv

-----------------------------------------------------------------------------
(* The whole inductive invariant.                                           *)

IInv == FloodInv /\ ForestInv /\ ConnectionInv /\ UnitedInv /\ ComponentsInv

(* Every step keeps the trees connected.                                    *)
LEMMA UnitedStep ==
  ASSUME FloodInv, ForestInv, ConnectionInv, UnitedInv, [Next]_vars,
         NotesInv', ForestInv', ConnectionInv'
  PROVE  UnitedInv'
<1>1. CASE Gather
  BY <1>1, UnitedGather DEF UnitedInv
<1>2. ASSUME NEW b \in blobs, Unite(b)  PROVE UnitedInv'
  BY <1>2, UnitedUnite
<1>3. CASE AnalyserStep
  <2>1. phase' = phase /\ phase = "gathering"
    <3>1. phase' = phase
      BY <1>3 DEF AnalyserStep, mergerVars
    <3>2. ASSUME NEW t \in Tile \ analysed  PROVE phase = "gathering"
      BY DEF FloodInv, LoopInv
    <3>3. ASSUME Analyse  PROVE phase = "gathering"
      <4>1. unscanned # {}
        BY <3>3 DEF Analyse, VisitNeighbour, SkipPixel, StartBlob
      <4> QED
        BY <4>1 DEF FloodInv, LoopInv
    <3> QED
      BY <1>3, <3>1, <3>2, <3>3 DEF AnalyserStep
  <2> QED
    BY <2>1 DEF UnitedInv
<1>4. ASSUME NEW family \in families, NEW kept \in family, NEW deleted \in family,
             MergeAndDelete(family, kept, deleted)
      PROVE  UnitedInv'
  BY <1>4 DEF MergeAndDelete, UnitedInv
<1>5. CASE AssociateSons \/ AddResult
  BY <1>5 DEF AssociateSons, AddResult, UnitedInv
<1>6. CASE Done \/ UNCHANGED vars
  <2>1. UNCHANGED <<phase, blobs, blob, connectivity, mask, forest, toMerge>>
    BY <1>6 DEF Done, vars, mergerVars, maskVars
  <2> QED
    BY <2>1 DEF UnitedInv
<1> QED
  BY <1>1, <1>2, <1>3, <1>4, <1>5, <1>6 DEF Next, MergerStep

(* Every step keeps the families connected and apart.                       *)
LEMMA ComponentsStep ==
  ASSUME FloodInv, ConnectionInv, UnitedInv, ComponentsInv, [Next]_vars
  PROVE  ComponentsInv'
<1>1. CASE AssociateSons
  BY <1>1, ComponentsFound
<1>2. ASSUME NEW family \in families, NEW kept \in family, NEW deleted \in family,
             kept # deleted, MergeAndDelete(family, kept, deleted)
      PROVE  ComponentsInv'
  BY <1>2, ComponentsMerge
<1>3. CASE AddResult
  BY <1>3 DEF AddResult, maskVars, ComponentsInv
<1>4. CASE Gather
  BY <1>4, Gathering DEF FloodInv, ComponentsInv
<1>5. ASSUME NEW b \in blobs, Unite(b)  PROVE ComponentsInv'
  BY <1>5 DEF Unite, ComponentsInv
<1>6. CASE AnalyserStep
  <2>1. phase' = phase /\ phase = "gathering"
    <3>1. phase' = phase
      BY <1>6 DEF AnalyserStep, mergerVars
    <3>2. ASSUME NEW t \in Tile \ analysed  PROVE phase = "gathering"
      BY DEF FloodInv, LoopInv
    <3>3. ASSUME Analyse  PROVE phase = "gathering"
      <4>1. unscanned # {}
        BY <3>3 DEF Analyse, VisitNeighbour, SkipPixel, StartBlob
      <4> QED
        BY <4>1 DEF FloodInv, LoopInv
    <3> QED
      BY <1>6, <3>1, <3>2, <3>3 DEF AnalyserStep
  <2> QED
    BY <2>1 DEF ComponentsInv
<1>7. CASE Done \/ UNCHANGED vars
  <2>1. UNCHANGED <<phase, families, blob, connectivity>>
    BY <1>7 DEF Done, vars, mergerVars, maskVars
  <2> QED
    BY <2>1 DEF ComponentsInv
<1> QED
  BY <1>1, <1>2, <1>3, <1>4, <1>5, <1>6, <1>7 DEF Next, MergerStep

(* The whole invariant holds at first ...                                   *)
LEMMA ComponentsInit == Init => IInv
<1>1. Init => FloodInv
  BY LoopInit, BlobInit, NotesInit DEF FloodInv, FamiliesInv, Init
<1>2. Init => UnitedInv /\ ComponentsInv
  BY DEF Init, UnitedInv, ComponentsInv
<1> QED
  BY <1>1, <1>2, ForestInit, ConnectionInit DEF IInv

(* ... and every step keeps it.                                             *)
LEMMA ComponentsNext == IInv /\ [Next]_vars => IInv'
<1> SUFFICES ASSUME IInv, [Next]_vars PROVE IInv'
  OBVIOUS
<1>1. FloodInv' /\ NotesInv'
  BY LoopStep, FamiliesStep, BlobStep, NotesStep DEF IInv, FloodInv
<1>2. ForestInv' /\ ConnectionInv'
  BY ForestStep, ConnectionStep DEF IInv, FloodInv
<1>3. UnitedInv'
  BY <1>1, <1>2, UnitedStep DEF IInv
<1>4. ComponentsInv'
  BY ComponentsStep DEF IInv
<1> QED
  BY <1>1, <1>2, <1>3, <1>4 DEF IInv

-----------------------------------------------------------------------------
(* The same of the composed system, whose graph is deleted with its blobs   *)
(* once the collection is made from them.                                   *)

DeletedInv ==
  /\ phase = "deleted"
  /\ analysed = Tile /\ tile = NoTile /\ unscanned = {}
  /\ blobs = {}

SegmentationInv == IInv \/ DeletedInv

(* The graph is not built again.                                            *)
LEMMA DeletedStaysSo == DeletedInv /\ [SegmentationNext]_segmentationVars => DeletedInv'
<1> SUFFICES ASSUME DeletedInv, [SegmentationNext]_segmentationVars PROVE DeletedInv'
  OBVIOUS
<1>1. ~AnalyserStep
  BY DEF DeletedInv, AnalyserStep, Analyse, VisitNeighbour, SkipPixel, StartBlob
<1>2. ~MergerStep
  BY DEF DeletedInv, MergerStep, Gather, EndView, Unite, AssociateSons, MergeAndDelete, AddResult
<1>3. ~Construct
  BY DEF DeletedInv, Construct
<1>4. UNCHANGED vars => DeletedInv'
  BY DEF vars, mergerVars, analyserVars, DeletedInv
<1> QED
  BY <1>1, <1>2, <1>3, <1>4 DEF SegmentationNext, CollectionStep, segmentationVars

(* The invariant of the composed system: everything above until the         *)
(* collection is made, and nothing left of the graph from then on.          *)
THEOREM SegmentationInvariance == SegmentationSpec => []SegmentationInv
<1>1. SegmentationInit => SegmentationInv
  BY ComponentsInit DEF SegmentationInit, SegmentationInv
<1>2. SegmentationInv /\ [SegmentationNext]_segmentationVars => SegmentationInv'
  <2> SUFFICES ASSUME SegmentationInv, [SegmentationNext]_segmentationVars PROVE SegmentationInv'
    OBVIOUS
  <2>1. CASE DeletedInv
    BY <2>1, DeletedStaysSo DEF SegmentationInv
  <2>2. ASSUME IInv, Construct  PROVE DeletedInv'
    <3>1. /\ phase = "done" /\ phase' = "deleted" /\ blobs' = {}
          /\ UNCHANGED <<analysed, tile, unscanned>>
      BY <2>2 DEF Construct, analyserVars
    <3>2. analysed = Tile
      BY <2>2, <3>1 DEF IInv, FloodInv, LoopInv
    <3>3. tile = NoTile /\ unscanned = {}
      BY <2>2, <3>2 DEF IInv, FloodInv, LoopInv
    <3> QED
      BY <3>1, <3>2, <3>3 DEF DeletedInv
  <2>3. CASE IInv /\ ~Construct
    <3>1. [Next]_vars
      BY <2>3 DEF SegmentationNext, segmentationVars, CollectionStep, Next
    <3> QED
      BY <2>3, <3>1, ComponentsNext DEF SegmentationInv
  <2> QED
    BY <2>1, <2>2, <2>3 DEF SegmentationInv
<1> QED
  BY <1>1, <1>2, PTL DEF SegmentationSpec

-----------------------------------------------------------------------------
(* What the invariants are for, of the composed system.                     *)

(* The features of the result are the connected components of the mask, for *)
(* every image, every mask, both connectivities and every size of tiles,    *)
(* whatever the order of views, blobs and merges.                           *)
THEOREM FeaturesAlwaysComponents == SegmentationSpec => []FeaturesAreComponents
<1>1. IInv => FeaturesAreComponents
  <2>1. SUFFICES ASSUME IInv, phase = "done"
                 PROVE  /\ UNION {blob[b].pixels : b \in blobs} = mask
                        /\ \A b \in blobs : blob[b].pixels # {} /\ Connected(blob[b].pixels)
                        /\ \A b, c \in blobs : b # c =>
                             /\ blob[b].pixels \intersect blob[c].pixels = {}
                             /\ Apart(blob[b].pixels, blob[c].pixels)
    BY DEF FeaturesAreComponents
  <2>2. analysed = Tile /\ mask \in SUBSET Pixel
    BY <2>1 DEF IInv, FloodInv, LoopInv
  <2>3. /\ \A b \in blobs : Described(blob[b]) /\ blob[b].pixels \subseteq mask
        /\ \A b, c \in blobs : b # c => blob[b].pixels \intersect blob[c].pixels = {}
        /\ \A p \in mask : TileOf(p) \in analysed => \E b \in blobs : p \in blob[b].pixels
        /\ blobs \in SUBSET Pixel
    BY <2>1 DEF IInv, FloodInv, BlobInv, AllBlobs
  <2>4. UNION {blob[b].pixels : b \in blobs} = mask
    BY <2>2, <2>3, TileOfPixel
  <2>5. ASSUME NEW b \in blobs  PROVE {b} \in families
    <3>1. PICK F \in families : b \in F
      BY <2>1 DEF IInv, FloodInv, FamiliesInv
    <3>2. F \in SUBSET Pixel /\ Cardinality(F) = 1
      BY <2>1, <2>3 DEF IInv, FloodInv, FamiliesInv
    <3>3. IsFiniteSet(F)
      BY <3>2, PixelsAreFinite, FS_Subset
    <3>4. \E x : F = {x}
      BY <3>2, <3>3, FS_Singleton
    <3> QED
      BY <3>1, <3>4
  <2>6. \A b \in blobs : Together(blob, {b}) = blob[b].pixels
    BY DEF Together
  <2>7. \A b \in blobs : ConnectedBy(connectivity, blob[b].pixels)
    BY <2>1, <2>5, <2>6 DEF IInv, ComponentsInv
  <2>8. ASSUME NEW b \in blobs, NEW c \in blobs, b # c
        PROVE  ApartBy(connectivity, blob[b].pixels, blob[c].pixels)
    <3>1. {b} \in families /\ {c} \in families /\ {b} # {c}
      BY <2>5, <2>8
    <3>2. ApartBy(connectivity, Together(blob, {b}), Together(blob, {c}))
      BY <2>1, <3>1 DEF IInv, ComponentsInv
    <3> QED
      BY <2>6, <3>2
  <2>9. \A p, q : Adjacent(p, q) <=> NextTo(connectivity, p, q)
    BY DEF Adjacent, NextTo
  <2>10. \A b \in blobs : Connected(blob[b].pixels)
    BY <2>7, <2>9 DEF Connected, ConnectedBy, Apart
  <2>11. \A b, c \in blobs : b # c => Apart(blob[b].pixels, blob[c].pixels)
    BY <2>8, <2>9 DEF Apart, ApartBy
  <2> QED
    BY <2>3, <2>4, <2>10, <2>11 DEF Described
<1>2. DeletedInv => FeaturesAreComponents
  BY DEF DeletedInv, FeaturesAreComponents
<1> QED
  BY <1>1, <1>2, SegmentationInvariance, PTL DEF SegmentationInv

(* The count and the box that a blob carries along are those of its pixels, *)
(* after any number of pixels and merges: no pixel is counted twice.        *)
THEOREM CountsAndBoxes == SegmentationSpec => []BlobsAreDescribed
<1>1. IInv => BlobsAreDescribed
  <2>1. SUFFICES ASSUME IInv, NEW b \in blobs
                 PROVE  LET B == blob[b]
                        IN  /\ B.count = Cardinality(B.pixels)
                            /\ B.pixels \subseteq (B.rowMin..B.rowMax - 1) \X (B.colMin..B.colMax - 1)
                            /\ \E p, q \in B.pixels : p[1] = B.rowMin /\ q[1] = B.rowMax - 1
                            /\ \E p, q \in B.pixels : p[2] = B.colMin /\ q[2] = B.colMax - 1
    BY DEF BlobsAreDescribed
  <2> DEFINE B == blob[b]
  <2>2. Described(B)
    BY <2>1 DEF IInv, FloodInv, BlobInv, AllBlobs
  <2> HIDE DEF B
  <2>3. B.rowMin \in Int /\ B.rowMax \in Int /\ B.colMin \in Int /\ B.colMax \in Int
    BY <2>2, BoxIsInt
  <2>4. \A p \in B.pixels : p = <<p[1], p[2]>> /\ p[1] \in Int /\ p[2] \in Int
    BY <2>2, PixelIsPair DEF Described
  <2>5. B.pixels \subseteq (B.rowMin..B.rowMax - 1) \X (B.colMin..B.colMax - 1)
    <3>1. ASSUME NEW p \in B.pixels
          PROVE  p[1] \in B.rowMin..B.rowMax - 1 /\ p[2] \in B.colMin..B.colMax - 1
      BY <2>2, <2>3, <2>4 DEF Described
    <3> QED
      BY <2>4, <3>1
  <2>6. \E p, q \in B.pixels : p[1] = B.rowMin /\ q[1] = B.rowMax - 1
    BY <2>2, <2>3, <2>4 DEF Described
  <2>7. \E p, q \in B.pixels : p[2] = B.colMin /\ q[2] = B.colMax - 1
    BY <2>2, <2>3, <2>4 DEF Described
  <2>8. B.count = Cardinality(B.pixels)
    BY <2>2 DEF Described
  <2> QED
    BY <2>5, <2>6, <2>7, <2>8 DEF B
<1>2. DeletedInv => BlobsAreDescribed
  BY DEF DeletedInv, BlobsAreDescribed
<1> QED
  BY <1>1, <1>2, SegmentationInvariance, PTL DEF SegmentationInv

(* getBlobFromCoord (BlobMerger.h) finds one blob for every pixel noted to  *)
(* merge, and it is another one: `merge' dereferences no null pointer.      *)
THEOREM NothingLookedForInVain == SegmentationSpec => []TouchedPixelsHaveBlobs
<1>1. IInv => TouchedPixelsHaveBlobs
  <2>1. SUFFICES ASSUME IInv, phase = "uniting", NEW b \in blobs, NEW i \in 1..Len(toMerge[b])
                 PROVE  \E c \in blobs \ {b} : BlobsAt(toMerge[b][i]) = {c}
    BY DEF TouchedPixelsHaveBlobs
  <2> DEFINE q == toMerge[b][i]
  <2>2. q \in mask /\ q \in Elems(toMerge[b]) /\ connectivity \in {4, 8} /\ analysed = Tile
    BY <2>1 DEF IInv, FloodInv, NotesInv, LoopInv, Elems
  <2> HIDE DEF q
  <2>3. PICK p \in blob[b].pixels : LooksAt(connectivity, p, q)
    BY <2>1, <2>2 DEF IInv, FloodInv, NotesInv
  <2>4. p \in Pixel /\ TileOf(p) = TileOf(b)
    BY <2>1 DEF IInv, FloodInv, BlobInv, AllBlobs, Described
  <2>5. q \in Pixel /\ TileOf(q) # TileOf(b)
    BY <2>2, <2>3, <2>4, LookedAtIsNext
  <2>6. PICK c \in blobs : q \in blob[c].pixels
    BY <2>1, <2>2, <2>5, TileOfPixel DEF IInv, FloodInv, BlobInv
  <2>7. c # b
    BY <2>1, <2>5, <2>6 DEF IInv, FloodInv, BlobInv, AllBlobs
  <2>8. BlobsAt(q) = {c}
    <3>1. \A d \in blobs : q \in blob[d].pixels => d = c
      BY <2>1, <2>6 DEF IInv, FloodInv, BlobInv, AllBlobs
    <3>2. Described(blob[c])
      BY <2>1 DEF IInv, FloodInv, BlobInv, AllBlobs
    <3>3. /\ blob[c].rowMin \in Int /\ blob[c].rowMax \in Int
          /\ blob[c].colMin \in Int /\ blob[c].colMax \in Int
      BY <3>2, BoxIsInt
    <3>4. q[1] \in Int /\ q[2] \in Int
      BY <2>5, PixelIsPair
    <3>5. /\ blob[c].rowMin <= q[1] /\ q[1] + 1 <= blob[c].rowMax
          /\ blob[c].colMin <= q[2] /\ q[2] + 1 <= blob[c].colMax
      BY <2>6, <3>2 DEF Described
    <3>6. IsPixelInFeature(blob[c], q)
      BY <2>6, <3>3, <3>4, <3>5 DEF IsPixelInFeature
    <3> QED
      BY <3>1, <3>6 DEF BlobsAt, IsPixelInFeature
  <2> QED
    BY <2>7, <2>8 DEF q
<1>2. DeletedInv => TouchedPixelsHaveBlobs
  BY DEF DeletedInv, TouchedPixelsHaveBlobs
<1> QED
  BY <1>1, <1>2, SegmentationInvariance, PTL DEF SegmentationInv

(* Ranks grow from a blob to its parent while blobs are united, so that the *)
(* recursion of `find' (UnionFind.h:55) comes to an end.                    *)
THEOREM RanksAlwaysGrow == SegmentationSpec => []RanksGrow
<1>1. IInv => RanksGrow
  BY DEF IInv, ForestInv, Forest, RanksGrow
<1>2. DeletedInv => RanksGrow
  BY DEF DeletedInv, RanksGrow
<1> QED
  BY <1>1, <1>2, SegmentationInvariance, PTL DEF SegmentationInv

(* While blobs are united, `find' ends at a root above the blob it was      *)
(* called for.                                                              *)
FindEndsAtARoot ==
  phase = "uniting" => \A b \in blobs :
    /\ Root(forest.parent, b) \in Path(forest.parent, b)
    /\ forest.parent[Root(forest.parent, b)] = Root(forest.parent, b)

(* `find' (UnionFind.h:55) ends at the root of its element's path.          *)
THEOREM FindEnds == SegmentationSpec => []FindEndsAtARoot
<1>1. IInv => FindEndsAtARoot
  BY RootOnPath DEF IInv, ForestInv, FindEndsAtARoot
<1>2. DeletedInv => FindEndsAtARoot
  BY DEF DeletedInv, FindEndsAtARoot
<1> QED
  BY <1>1, <1>2, SegmentationInvariance, PTL DEF SegmentationInv

-----------------------------------------------------------------------------
(* The collection that is made from the blobs, and what its user does.      *)

(* Nothing is written to a file before there is a collection.               *)
Unwritten == phase # "deleted" => file = NoFile

(* The box of a blob is the box of its pixels.                              *)
LEMMA BlobSpansItsBox ==
  ASSUME NEW B, Described(B)
  PROVE  Spans(BoxOf(B), B.pixels)
<1>1. \A p \in B.pixels : p[1] \in Nat /\ p[2] \in Nat /\ p \in Nat \X Nat
  BY PixelIsPair DEF Described
<1>2. B.rowMin \in Nat /\ B.rowMax \in Nat /\ B.colMin \in Nat /\ B.colMax \in Nat
  <2>1. PICK p \in B.pixels, q \in B.pixels : p[1] = B.rowMin /\ q[1] + 1 = B.rowMax
    BY DEF Described
  <2>2. PICK r \in B.pixels, c \in B.pixels : r[2] = B.colMin /\ c[2] + 1 = B.colMax
    BY DEF Described
  <2> QED
    BY <1>1, <2>1, <2>2
<1>3. BoxOf(B) \in NatBox
  BY <1>2 DEF BoxOf, BoundingBox, NatBox
<1>4. /\ BoxOf(B).ulRow = B.rowMin /\ BoxOf(B).brRow = B.rowMax
      /\ BoxOf(B).ulCol = B.colMin /\ BoxOf(B).brCol = B.colMax
  BY DEF BoxOf, BoundingBox
<1> QED
  BY <1>1, <1>3, <1>4 DEF Described, Spans

(* The collection is made with a feature for every blob.                    *)
LEMMA ConstructIsGood ==
  ASSUME IInv, CollectionInv, Unwritten, Construct
  PROVE  BuildTree /\ CollectionInv'
<1>1. PICK list \in SetToSeqs(blobs) :
        CreateFCFromListBlobs([i \in 1..Len(list) |-> blob[list[i]]], ImageHeight, ImageWidth)
  BY DEF Construct
<1> DEFINE n == Cardinality(blobs)
           taken == [i \in 1..Len(list) |-> blob[list[i]]]
<1>2. n \in Nat
  <2>1. blobs \in SUBSET Pixel
    BY DEF IInv, FloodInv, BlobInv
  <2> QED
    BY <2>1, PixelsAreFinite, FS_Subset, FS_CardinalityType
<1> HIDE DEF n
<1>3. list \in [1..n -> blobs] /\ Len(list) = n
  <2>1. list \in [1..n -> blobs]
    BY DEF SetToSeqs, n
  <2> QED
    BY <1>2, <2>1
<1>4. /\ Len(taken) = n
      /\ \A i \in 1..n : taken[i] = blob[list[i]] /\ list[i] \in blobs
  BY <1>2, <1>3
<1> HIDE DEF taken
<1>5. ASSUME NEW i \in 1..n  PROVE Spans(BoxOf(taken[i]), taken[i].pixels)
  <2>1. Described(blob[list[i]])
    BY <1>4 DEF IInv, FloodInv, BlobInv, AllBlobs
  <2> QED
    BY <1>4, <2>1, BlobSpansItsBox
<1>6. file = NoFile
  BY DEF Construct, Unwritten
<1>7. BuildTree /\ ContentsInv'
  <2>1. CreateFCFromListBlobs(taken, ImageHeight, ImageWidth)
    BY <1>1 DEF taken
  <2>2. LookupInv /\ ImageHeight \in Nat /\ ImageWidth \in Nat
    BY Sizes DEF CollectionInv
  <2> QED
    BY <1>2, <1>4, <1>5, <1>6, <2>1, <2>2, CreateIsGood
<1>8. LookupInv'
  <2>1. [TreeNext]_treeVars
    BY <1>7 DEF TreeNext
  <2> QED
    BY <2>1, TreeNextKeepsInv DEF CollectionInv
<1>9. AnswerInv'
  BY <1>1, BeginsAnew DEF CreateFCFromListBlobs
<1> QED
  BY <1>7, <1>8, <1>9 DEF CollectionInv

(* Every step of the composed system is a step that the tree is promised,   *)
(* and keeps the collection right.                                          *)
LEMMA CollectionNext ==
  SegmentationInv /\ CollectionInv /\ Unwritten /\ [SegmentationNext]_segmentationVars
    => [TreeNext]_treeVars /\ CollectionInv' /\ Unwritten'
<1> SUFFICES ASSUME SegmentationInv, CollectionInv, Unwritten,
                    [SegmentationNext]_segmentationVars
             PROVE  [TreeNext]_treeVars /\ CollectionInv' /\ Unwritten'
  OBVIOUS
<1>1. CASE Construct
  <2>1. phase = "done" /\ phase' = "deleted"
    BY <1>1 DEF Construct
  <2>2. IInv
    BY <2>1 DEF SegmentationInv, DeletedInv
  <2>3. BuildTree /\ CollectionInv'
    BY <1>1, <2>2, ConstructIsGood
  <2> QED
    BY <2>1, <2>3 DEF TreeNext, Unwritten
<1>2. CASE CollectionStep
  <2>1. Pixel \in SUBSET (Nat \X Nat) /\ ImageHeight \in Nat /\ ImageWidth \in Nat
    BY Sizes, PixelIsPair
  <2>2. [TreeNext]_treeVars /\ CollectionInv'
    BY <1>2, <2>1, CallIsGood, GoesOnIsGood DEF CollectionStep
  <2>3. phase' = "deleted"
    BY <1>2 DEF CollectionStep, vars, mergerVars
  <2> QED
    BY <2>2, <2>3 DEF Unwritten
<1>3. CASE UNCHANGED collectionVars /\ (phase = "deleted" => phase' = "deleted")
  BY <1>3, CollectionStutters DEF collectionVars, Unwritten
<1>4. CASE (AnalyserStep \/ MergerStep) /\ UNCHANGED collectionVars
  <2>1. phase = "deleted" => DeletedInv
    BY DEF SegmentationInv, IInv, FloodInv, LoopInv
  <2>2. DeletedInv => DeletedInv'
    BY DeletedStaysSo
  <2>3. phase = "deleted" => phase' = "deleted"
    BY <2>1, <2>2 DEF DeletedInv
  <2> QED
    BY <1>3, <1>4, <2>3
<1>5. CASE UNCHANGED segmentationVars
  BY <1>3, <1>5 DEF segmentationVars, vars, mergerVars
<1> QED
  BY <1>1, <1>2, <1>4, <1>5 DEF SegmentationNext

(* The invariant of the collection: its tree is as it is promised to be,    *)
(* every feature of its vector and of its file stands for the pixels of its *)
(* identifier, and what the last call has returned is right.                *)
THEOREM CollectionInvariance == SegmentationSpec => [](CollectionInv /\ Unwritten)
<1>1. SegmentationInit => CollectionInv /\ Unwritten
  BY CollectionBegins DEF SegmentationInit, CollectionInit, Unwritten
<1> QED
  BY <1>1, CollectionNext, SegmentationInvariance, PTL DEF SegmentationSpec

(* No call of the constructor (FeatureCollection.h:91) or of the user       *)
(* moves a feature that the tree stands for: the collection keeps what the  *)
(* tree is promised.                                                        *)
THEOREM TreePromiseKept == SegmentationSpec => KeepsTreePromise
<1>1. SegmentationInit => TreeInit
  BY DEF SegmentationInit, CollectionInit
<1> QED
  BY <1>1, CollectionNext, SegmentationInvariance, CollectionInvariance, PTL
     DEF SegmentationSpec, KeepsTreePromise, TreeSpec

(* So all that is proved of the tree holds of the collection's, whatever    *)
(* its user calls: each feature has a leaf, and a search finds all.         *)
THEOREM TreeOfCollection ==
  SegmentationSpec => [](EveryFeatureHasItsLeaf /\ SearchFindsAll)
BY TreePromiseKept, TreeHasEveryFeature, SearchIsComplete, PTL DEF KeepsTreePromise

(* getFeatureFromPixel and getFeatureFromId (FeatureCollection.h) return a  *)
(* feature that has the pixel or the identifier, with the pixels it was     *)
(* made from, and null only if there is none, for any features and calls.   *)
THEOREM LookupsAreRight == SegmentationSpec => []LookupIsRight
BY RightAnswers, CollectionInvariance, PTL

(* Masks and files (createLabeledMask, createBlackWhiteMask, serialize) show *)
(* the features, and a file that is read gives the same ones back.          *)
THEOREM WritingsAreRight == SegmentationSpec => []WritingsShowFeatures
BY RightAnswers, CollectionInvariance, PTL
=============================================================================
