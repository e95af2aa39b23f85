-------------------------------- MODULE Blob --------------------------------
(***************************************************************************)
(* A blob (FeatureCollection/Data/Blob.h): part of a feature, as a set of   *)
(* pixels with a bounding box and a count.  The box goes from its first row *)
(* and column to the ones after its last.                                   *)
(***************************************************************************)
EXTENDS Integers

Smaller(x, y) == IF x < y THEN x ELSE y
Larger(x, y) == IF x > y THEN x ELSE y

(* A blob with its first pixel.                                             *)
NewBlob(p) ==
  [pixels |-> {p}, count |-> 1,
   rowMin |-> p[1], rowMax |-> p[1] + 1, colMin |-> p[2], colMax |-> p[2] + 1]

(* A slip the properties must notice: the box ends at the last column.      *)
AddPixelUpTo(b, p) ==
  [pixels |-> b.pixels \union {p}, count |-> b.count + 1,
   rowMin |-> Smaller(b.rowMin, p[1]), rowMax |-> Larger(b.rowMax, p[1] + 1),
   colMin |-> Smaller(b.colMin, p[2]), colMax |-> Larger(b.colMax, p[2])]

AddPixel(b, p) ==
  [pixels |-> b.pixels \union {p}, count |-> b.count + 1,
   rowMin |-> Smaller(b.rowMin, p[1]), rowMax |-> Larger(b.rowMax, p[1] + 1),
   colMin |-> Smaller(b.colMin, p[2]), colMax |-> Larger(b.colMax, p[2] + 1)]

IsPixelInFeature(b, p) ==
  /\ p[1] \in b.rowMin..b.rowMax - 1 /\ p[2] \in b.colMin..b.colMax - 1
  /\ p \in b.pixels

(* What the one of two blobs that is kept becomes.                          *)
Merged(b1, b2) ==
  [pixels |-> b1.pixels \union b2.pixels, count |-> b1.count + b2.count,
   rowMin |-> Smaller(b1.rowMin, b2.rowMin), rowMax |-> Larger(b1.rowMax, b2.rowMax),
   colMin |-> Smaller(b1.colMin, b2.colMin), colMax |-> Larger(b1.colMax, b2.colMax)]
=============================================================================
