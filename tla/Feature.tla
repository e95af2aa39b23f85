------------------------------ MODULE Feature -------------------------------
(***************************************************************************)
(* A feature (FeatureCollection/Feature.h): an identifier, a bounding box   *)
(* (FeatureCollection/BoundingBox.h), and a bit for each pixel of the box.  *)
(* A word of the bit mask is the set of its bits that are one.              *)
(***************************************************************************)
EXTENDS Integers, Sequences

CONSTANT WordSize     (* Bits of a word: 32 in the code.                    *)

ASSUME WordAssumption == WordSize \in Nat \ {0}

BoundingBox(ulRow, ulCol, brRow, brCol) ==
  [ulRow |-> ulRow, ulCol |-> ulCol, brRow |-> brRow, brCol |-> brCol]

Height(box) == box.brRow - box.ulRow
Width(box) == box.brCol - box.ulCol

NbElementsBitMask(box) == (Height(box) * Width(box) + WordSize - 1) \div WordSize

-----------------------------------------------------------------------------
(* Where the bit of pixel p is.                                             *)

AbsolutePosition(box, p) == (p[1] - box.ulRow) * Width(box) + (p[2] - box.ulCol)

WordPosition(box, p) == AbsolutePosition(box, p) \div WordSize

BitPosition(box, p) ==
  WordSize - (AbsolutePosition(box, p) - WordPosition(box, p) * WordSize)

(* The bit mask of a set of pixels of the box.                              *)
BitMask(box, pixels) ==
  [w \in 1..NbElementsBitMask(box) |->
     {BitPosition(box, p) - 1 : p \in {q \in pixels : WordPosition(box, q) = w - 1}}]

NewFeature(id, box, bitMask) == [id |-> id, box |-> box, bitMask |-> bitMask]

-----------------------------------------------------------------------------
(* The two dimensions of the lookup tree: columns and rows.                 *)
Dim == {0, 1}
Coord(p, dim) == IF dim = 0 THEN p[2] ELSE p[1]
MinCoord(f, dim) == IF dim = 0 THEN f.box.ulCol ELSE f.box.ulRow
MaxCoord(f, dim) ==
  IF dim = 0 THEN f.box.ulCol + Width(f.box) ELSE f.box.ulRow + Height(f.box)

ContainsPixel(f, p) ==
  /\ f.box.ulRow <= p[1] /\ p[1] < f.box.ulRow + Height(f.box)
  /\ f.box.ulCol <= p[2] /\ p[2] < f.box.ulCol + Width(f.box)

(* A slip the properties must notice: the bit next to the pixel's.          *)
IsInBitMaskOffByOne(f, p) ==
  /\ ContainsPixel(f, p)
  /\ BitPosition(f.box, p) \in f.bitMask[WordPosition(f.box, p) + 1]

IsInBitMask(f, p) ==
  /\ ContainsPixel(f, p)
  /\ BitPosition(f.box, p) - 1 \in f.bitMask[WordPosition(f.box, p) + 1]

(* Two features are equal whatever their identifiers.                       *)
EqualFeatures(f, g) == f.box = g.box /\ f.bitMask = g.bitMask

-----------------------------------------------------------------------------
(* The items that a feature is written as, and how one is read from the     *)
(* stream s: the feature, and what is left of the stream.                   *)

SerializeFeature(f) ==
  <<f.id, Len(f.bitMask), f.box.ulRow, f.box.ulCol, f.box.brRow, f.box.brCol>> \o f.bitMask

DeserializeFeature(s) ==
  [feature |-> NewFeature(s[1], BoundingBox(s[3], s[4], s[5], s[6]), SubSeq(s, 7, 6 + s[2])),
   rest |-> SubSeq(s, 7 + s[2], Len(s))]
=============================================================================
