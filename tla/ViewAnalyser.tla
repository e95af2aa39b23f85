---------------------------- MODULE ViewAnalyser ----------------------------
(***************************************************************************)
(* The view analyser (FeatureCollection/Tasks/ViewAnalyser.h): it floods    *)
(* the tile of a view to find its blobs, and notes for each blob the        *)
(* foreground pixels of other tiles that it touches.                        *)
(*                                                                         *)
(* A mask is the set of its foreground pixels.  Views have a radius of one  *)
(* pixel; pixels are given by their coordinates in the image.  A blob is    *)
(* named by the pixel it was created for.                                   *)
(***************************************************************************)
EXTENDS Blob, Sequences

CONSTANTS
  ImageHeight, ImageWidth,
  TileHeight, TileWidth,
  Masks,          (* The masks considered.                                 *)
  NoTile, NoBlob

ASSUME MaskAssumption ==
  /\ {ImageHeight, ImageWidth, TileHeight, TileWidth} \subseteq Nat \ {0}
  /\ Masks \subseteq SUBSET ((0..ImageHeight - 1) \X (0..ImageWidth - 1))

Pixel == (0..ImageHeight - 1) \X (0..ImageWidth - 1)
Tile == (0..(ImageHeight - 1) \div TileHeight) \X (0..(ImageWidth - 1) \div TileWidth)
TileOf(p) == <<p[1] \div TileHeight, p[2] \div TileWidth>>
PixelsOf(t) == {p \in Pixel : TileOf(p) = t}

(* Null pointers are no views and no blobs.                                 *)
ASSUME NullAssumption == NoTile \notin Tile /\ NoBlob \notin Pixel

VARIABLES
  mask,           (* The foreground pixels of the image.                   *)
  connectivity,   (* _rank: 4 or 8.                                        *)
  tile,           (* The tile of the view that is analysed.                *)
  foreground,     (* Its pixels that the flood has not reached.            *)
  unscanned,      (* Its pixels that the two loops have not come to.       *)
  toVisit,        (* _toVisit.                                             *)
  currentBlob,    (* _currentBlob.                                         *)
  viewBlobs,      (* The blobs of _vAnalyse, ...                           *)
  viewToMerge,    (* ... and the pixels they touch.                        *)
  blob            (* Every blob there is.                                  *)

maskVars == <<mask, connectivity>>
analyserVars == <<tile, foreground, unscanned, toVisit, currentBlob, viewBlobs, viewToMerge>>

AnalyserInit ==
  /\ mask \in Masks
  /\ connectivity \in {4, 8}
  /\ tile = NoTile
  /\ foreground = {}
  /\ unscanned = {}
  /\ toVisit = {}
  /\ currentBlob = NoBlob
  /\ viewBlobs = {}
  /\ viewToMerge = <<>>
  /\ blob = <<>>

(* Row by row, as the loops and the ordered set go through pixels.          *)
First(S) == CHOOSE p \in S : \A q \in S : p[1] < q[1] \/ (p[1] = q[1] /\ p[2] <= q[2])

Below(p) == <<p[1] + 1, p[2]>>
OnRight(p) == <<p[1], p[2] + 1>>
BelowRight(p) == <<p[1] + 1, p[2] + 1>>
AboveRight(p) == <<p[1] - 1, p[2] + 1>>

-----------------------------------------------------------------------------
(* analyseNeighbour4 and analyseNeighbour8.                                 *)

Neighbours4(p) == {Below(p), OnRight(p), <<p[1] - 1, p[2]>>, <<p[1], p[2] - 1>>}
Neighbours8(p) == (p[1] - 1..p[1] + 1) \X (p[2] - 1..p[2] + 1)

(* The neighbours in the tile that need to be visited.                      *)
NeedVisit(p, reachable) ==
  reachable \intersect (IF connectivity = 4 THEN Neighbours4(p) ELSE Neighbours8(p))

(* In the ghost region, the view has the nearest pixel of the image.        *)
IsForeground(q) ==
  <<Smaller(Larger(q[1], 0), ImageHeight - 1), Smaller(Larger(q[2], 0), ImageWidth - 1)>>
    \in mask

LastRow(p) == p[1] + 1 = ImageHeight \/ TileOf(Below(p)) # TileOf(p)
LastCol(p) == p[2] + 1 = ImageWidth \/ TileOf(OnRight(p)) # TileOf(p)
FirstRow(p) == p[1] % TileHeight = 0

(* A slip the properties must notice: the image's right border is not told  *)
(* apart from a tile's.                                                     *)
TouchesPastBorder(p, q) ==
  \/ q = Below(p) /\ LastRow(p) /\ p[1] + 1 # ImageHeight
  \/ q = OnRight(p) /\ LastCol(p)

(* The pixels of other tiles to look at; 4-connectivity has the first two.  *)
Touches4(p, q) ==
  \/ q = Below(p) /\ LastRow(p) /\ p[1] + 1 # ImageHeight
  \/ q = OnRight(p) /\ LastCol(p) /\ p[2] + 1 # ImageWidth

(* A slip the properties must notice: nothing is looked for above.          *)
TouchesBelow(p, q) ==
  /\ q = BelowRight(p) /\ (LastCol(p) \/ LastRow(p))
  /\ p[1] + 1 # ImageHeight /\ p[2] + 1 # ImageWidth

TouchesDiagonally(p, q) ==
  \/ /\ q = BelowRight(p) /\ (LastCol(p) \/ LastRow(p))
     /\ p[1] + 1 # ImageHeight /\ p[2] + 1 # ImageWidth
  \/ /\ q = AboveRight(p) /\ (LastCol(p) \/ FirstRow(p))
     /\ p[1] > 0 /\ p[2] + 1 # ImageWidth

(* The calls of addToMerge for pixel p, in this order.                      *)
AddToMerge(p, q) ==
  IF /\ Touches4(p, q) \/ (connectivity = 8 /\ TouchesDiagonally(p, q))
     /\ IsForeground(q)
  THEN <<q>> ELSE <<>>

Touched(p) ==
  AddToMerge(p, Below(p)) \o AddToMerge(p, OnRight(p))
    \o AddToMerge(p, BelowRight(p)) \o AddToMerge(p, AboveRight(p))

-----------------------------------------------------------------------------
(* executeTask.                                                             *)

StartView(t) ==
  /\ tile = NoTile
  /\ tile' = t
  /\ foreground' = mask \intersect PixelsOf(t)
  /\ unscanned' = PixelsOf(t)
  /\ toVisit' = {}
  /\ currentBlob' = NoBlob
  /\ viewBlobs' = {}
  /\ viewToMerge' = <<>>
  /\ UNCHANGED <<maskVars, blob>>

(* The flood reaches pixel p for blob b, whose notes so far are given.      *)
Reach(b, p, notes, rest) ==
  /\ foreground' = foreground \ {p}
  /\ toVisit' = rest \union NeedVisit(p, foreground \ {p})
  /\ viewToMerge' =
       [c \in DOMAIN viewToMerge \union {b} |->
          IF c = b THEN notes \o Touched(p) ELSE viewToMerge[c]]

(* One turn of the inner loop.                                              *)
VisitNeighbour ==
  /\ unscanned # {}
  /\ toVisit # {}
  /\ LET p == First(toVisit)
     IN  /\ blob' = [blob EXCEPT ![currentBlob] = AddPixel(@, p)]
         /\ Reach(currentBlob, p, viewToMerge[currentBlob], toVisit \ {p})
  /\ UNCHANGED <<maskVars, tile, unscanned, currentBlob, viewBlobs>>

SavedBlobs == viewBlobs \union ({currentBlob} \ {NoBlob})

(* The next pixel: the blob found before it is saved, ...                   *)
SkipPixel ==
  /\ unscanned # {}
  /\ toVisit = {}
  /\ First(unscanned) \notin foreground
  /\ unscanned' = unscanned \ {First(unscanned)}
  /\ viewBlobs' = SavedBlobs
  /\ currentBlob' = NoBlob
  /\ UNCHANGED <<maskVars, tile, foreground, toVisit, viewToMerge, blob>>

(* ... and it starts one if the flood has not reached it.                   *)
StartBlob ==
  /\ unscanned # {}
  /\ toVisit = {}
  /\ LET p == First(unscanned)
     IN  /\ p \in foreground
         /\ unscanned' = unscanned \ {p}
         /\ currentBlob' = p
         /\ blob' = [b \in DOMAIN blob \union {p} |-> IF b = p THEN NewBlob(p) ELSE blob[b]]
         /\ Reach(p, p, <<>>, {})
  /\ viewBlobs' = SavedBlobs
  /\ UNCHANGED <<maskVars, tile>>

(* The end of the loops: the last blob is saved, and the analysis sent.     *)
EndView ==
  /\ tile # NoTile
  /\ unscanned = {}
  /\ tile' = NoTile
  /\ toVisit' = {}
  /\ currentBlob' = NoBlob
  /\ viewBlobs' = {}
  /\ viewToMerge' = <<>>
  /\ UNCHANGED <<maskVars, foreground, unscanned, blob>>

Analyse == VisitNeighbour \/ SkipPixel \/ StartBlob
=============================================================================
