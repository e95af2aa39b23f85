---------------------------- MODULE ViewAssembly ----------------------------
(***************************************************************************)
(* The pixels of one view, from its request to its release to the users:    *)
(* the view loader's two loops (tasks/ViewLoader.h) ask for the parts of    *)
(* the tiles it overlaps, the tile loaders copy them into the view          *)
(* (copyTileToView, api/ATileLoader.h), several at a time and in any order, *)
(* and the view counter fills the lines that the image does not have        *)
(* (fill, tasks/ViewCounter.h) when all parts have been counted.            *)
(***************************************************************************)
EXTENDS ViewRequestData, FiniteSets

CONSTANTS
  Rows,           (* The axes a request may have: image height, ...        *)
  Cols            (* ... and width, with its tiles, radius and index.      *)

ASSUME AxesAssumption == \A a \in Rows \union Cols : IsAxis(a)

VARIABLES
  rows, cols,         (* The request.                                      *)
  r, c,               (* The tile the view loader's loops are at, ...      *)
  rowAlreadyFilled,   (* ... and where its part goes in the view.          *)
  colAlreadyFilled,
  asked,              (* Tile requests with the tile loaders.              *)
  copied,             (* Tile requests copied and counted.                 *)
  view,               (* The pixel of the image that each pixel of the     *)
                      (* view has the value of.                            *)
  ready               (* The view has been sent to the users.              *)

vars == <<rows, cols, r, c, rowAlreadyFilled, colAlreadyFilled, asked, copied,
          view, ready>>

(* What the last use of the view has left in a pixel.                       *)
Stale == <<-1, -1>>

ViewPixel == (0..ViewSize(rows) - 1) \X (0..ViewSize(cols) - 1)

Init ==
  /\ rows \in Rows
  /\ cols \in {a \in Cols : a.radius = rows.radius}
  /\ r = IndexMinTile(rows)
  /\ c = IndexMinTile(cols)
  /\ rowAlreadyFilled = FillBefore(rows)
  /\ colAlreadyFilled = FillBefore(cols)
  /\ asked = {}
  /\ copied = {}
  /\ view = [p \in ViewPixel |-> Stale]
  /\ ready = FALSE

-----------------------------------------------------------------------------
(* One turn of the view loader's inner loop, with the outer loop's when the *)
(* row of tiles is finished.                                                *)
TileRequest ==
  [row |-> r, col |-> c,
   rowFrom |-> From(rows, r), colFrom |-> From(cols, c),
   rowDest |-> rowAlreadyFilled, colDest |-> colAlreadyFilled,
   height |-> ToCopy(rows, r), width |-> ToCopy(cols, c)]

(* A slip the properties must notice: rowAlreadyFilled stays where it is.   *)
SendInOneRow ==
  /\ r < IndexMaxTile(rows)
  /\ asked' = asked \union {TileRequest}
  /\ IF c + 1 < IndexMaxTile(cols)
       THEN /\ c' = c + 1
            /\ colAlreadyFilled' = colAlreadyFilled + ToCopy(cols, c)
            /\ UNCHANGED r
       ELSE /\ r' = r + 1
            /\ c' = IndexMinTile(cols)
            /\ colAlreadyFilled' = FillBefore(cols)
  /\ UNCHANGED <<rows, cols, rowAlreadyFilled, copied, view, ready>>

SendTileRequest ==
  /\ r < IndexMaxTile(rows)
  /\ asked' = asked \union {TileRequest}
  /\ \/ /\ c + 1 < IndexMaxTile(cols)
        /\ c' = c + 1
        /\ colAlreadyFilled' = colAlreadyFilled + ToCopy(cols, c)
        /\ UNCHANGED <<r, rowAlreadyFilled>>
     \/ /\ c + 1 >= IndexMaxTile(cols)
        /\ r' = r + 1
        /\ rowAlreadyFilled' = rowAlreadyFilled + ToCopy(rows, r)
        /\ c' = IndexMinTile(cols)
        /\ colAlreadyFilled' = FillBefore(cols)
  /\ UNCHANGED <<rows, cols, copied, view, ready>>

(* The pixels of the view that a tile request writes.                       *)
Written(q) ==
  (q.rowDest..q.rowDest + q.height - 1) \X (q.colDest..q.colDest + q.width - 1)

(* The pixel of the image that pixel p of the view is copied from.          *)
CopiedFrom(q, p) ==
  <<q.row * rows.tile + q.rowFrom + p[1] - q.rowDest,
    q.col * cols.tile + q.colFrom + p[2] - q.colDest>>

CopyTileToView(q) ==
  /\ q \in asked
  /\ view' = [p \in DOMAIN view |-> IF p \in Written(q) THEN CopiedFrom(q, p) ELSE view[p]]
  /\ asked' = asked \ {q}
  /\ copied' = copied \union {q}
  /\ UNCHANGED <<rows, cols, r, c, rowAlreadyFilled, colAlreadyFilled, ready>>

-----------------------------------------------------------------------------
(* fill: the three loops, one after the other.  In a row, the pixels on the *)
(* left, then those in the middle, then those on the right.                 *)

FirstRow == FillBefore(rows)
LastRow == ViewSize(rows) - FillAfter(rows) - 1
FirstCol == FillBefore(cols)
LastCol == ViewSize(cols) - FillAfter(cols) - 1

FillSides(v) ==
  [p \in DOMAIN v |->
     IF p[1] \notin FirstRow..LastRow THEN v[p]
     ELSE IF p[2] < FirstCol THEN v[<<p[1], FirstCol>>]
     ELSE IF p[2] > LastCol THEN v[<<p[1], LastCol>>]
     ELSE v[p]]

(* The rows above take their middle from the first row of the image; their  *)
(* right end takes the last pixel of the middle just copied.                *)
FillTop(v) ==
  [p \in DOMAIN v |->
     IF p[1] >= FirstRow THEN v[p]
     ELSE IF p[2] < FirstCol THEN v[<<FirstRow, FirstCol>>]
     ELSE IF p[2] > LastCol THEN v[<<FirstRow, LastCol>>]
     ELSE v[<<FirstRow, p[2]>>]]

FillBottom(v) ==
  [p \in DOMAIN v |->
     IF p[1] <= LastRow THEN v[p]
     ELSE IF p[2] < FirstCol THEN v[<<LastRow, FirstCol>>]
     ELSE IF p[2] > LastCol THEN v[<<LastRow, LastCol>>]
     ELSE v[<<LastRow, p[2]>>]]

Fill(v) == FillBottom(FillTop(FillSides(v)))

(* A slip the properties must notice: the first tile counted is taken for   *)
(* the last.                                                                *)
FinishAtFirstTile ==
  /\ ~ready
  /\ copied # {}
  /\ view' = Fill(view)
  /\ ready' = TRUE
  /\ UNCHANGED <<rows, cols, r, c, rowAlreadyFilled, colAlreadyFilled, asked, copied>>

(* The view counter has the last tile of the view, or the only one.         *)
FinishView ==
  /\ ~ready
  /\ LET n == NumberTilesToLoad(rows, cols)
     IN  \/ (n = 1 \/ rows.radius = 0) /\ copied # {}
         \/ Cardinality(copied) = n
  /\ view' = Fill(view)
  /\ ready' = TRUE
  /\ UNCHANGED <<rows, cols, r, c, rowAlreadyFilled, colAlreadyFilled, asked, copied>>

Done == ready /\ UNCHANGED vars

Next ==
  \/ SendTileRequest
  \/ \E q \in asked : CopyTileToView(q)
  \/ FinishView
  \/ Done

Spec == Init /\ [][Next]_vars
-----------------------------------------------------------------------------
(* The tiles overlapped, where each goes in the view so that the central    *)
(* tile comes after the lines of the radius, and where its part ends.       *)
Overlapped(a) == IndexMinTile(a)..IndexMaxTile(a) - 1
DestOf(a, t) == t * a.tile + From(a, t) - MinCentralTile(a) + a.radius
EndOf(a, t) == t * a.tile + From(a, t) + ToCopy(a, t)

RequestOf(t) ==
  [row |-> t[1], col |-> t[2],
   rowFrom |-> From(rows, t[1]), colFrom |-> From(cols, t[2]),
   rowDest |-> DestOf(rows, t[1]), colDest |-> DestOf(cols, t[2]),
   height |-> ToCopy(rows, t[1]), width |-> ToCopy(cols, t[2])]

OverlappedTile == Overlapped(rows) \X Overlapped(cols)
SentTile == {t \in OverlappedTile : t[1] < r \/ (t[1] = r /\ t[2] < c)}

(* The view loader has sent one request for each tile before the one it is  *)
(* at, and knows where that one goes; what has been copied is in the view   *)
(* until the ghost lines are filled, and nothing is copied after that.      *)
LoopInv ==
  /\ rows \in Rows /\ cols \in Cols /\ cols.radius = rows.radius
  /\ r \in IndexMinTile(rows)..IndexMaxTile(rows)
  /\ c \in Overlapped(cols)
  /\ r = IndexMaxTile(rows) => c = IndexMinTile(cols)
  /\ r < IndexMaxTile(rows) => rowAlreadyFilled = DestOf(rows, r)
  /\ colAlreadyFilled = DestOf(cols, c)
  /\ asked \union copied = {RequestOf(t) : t \in SentTile}
  /\ asked \intersect copied = {}
  /\ DOMAIN view = ViewPixel
  /\ ~ready => \A q \in copied : \A p \in Written(q) : view[p] = CopiedFrom(q, p)
  /\ ready \in BOOLEAN
  /\ ready => r = IndexMaxTile(rows) /\ asked = {}

(* Along an axis: the part of tile t that starts at line `from' lies inside *)
(* the tile, the image and the view, where the central tile is after the    *)
(* lines of the radius.                                                     *)
InPlace(a, t, from, dest, size) ==
  /\ from >= 0 /\ size > 0 /\ from + size <= a.tile
  /\ t * a.tile + from + size <= a.image
  /\ dest >= 0 /\ dest + size <= ViewSize(a)
  /\ t * a.tile + from - dest = MinCentralTile(a) - a.radius

(* A tile request reads inside the tile and the image, writes inside the    *)
(* view, and puts each line of the image where the radius wants it.         *)
RequestsAreInPlace ==
  \A q \in asked \union copied :
    /\ InPlace(rows, q.row, q.rowFrom, q.rowDest, q.height)
    /\ InPlace(cols, q.col, q.colFrom, q.colDest, q.width)

(* Two tile loaders never write the same pixel of a view: they write into   *)
(* it at the same time, without a lock.                                     *)
CopiesAreApart ==
  \A q1, q2 \in asked \union copied : q1 # q2 => Written(q1) \intersect Written(q2) = {}

(* The users get a view in which every pixel has the value of the nearest   *)
(* pixel of the image: nothing is left of the view's last use.              *)
Nearest(a, i) ==
  Least(Most(MinCentralTile(a) - a.radius + i, 0), a.image - 1)

ViewShowsNearestPixels ==
  ready => \A p \in ViewPixel : view[p] = <<Nearest(rows, p[1]), Nearest(cols, p[2])>>

(* The coordinates a view reports: getPixel(i, j) is the image's own pixel  *)
(* for each i, j between the real pixel bounds, and the pixels of the       *)
(* central tile, as many as the image has, are among them.                  *)
Local(a) == MinRealPixelLocal(a)..MaxRealPixelLocal(a) - 1

GetPixel(i, j) == view[<<i + rows.radius, j + cols.radius>>]

LocalCoordinates ==
  ready =>
    /\ \A i \in Local(rows), j \in Local(cols) :
         GetPixel(i, j) = <<MinCentralTile(rows) + i, MinCentralTile(cols) + j>>
    /\ 0..MaxCenterTileLocal(rows) - 1 \subseteq Local(rows)
    /\ 0..MaxCenterTileLocal(cols) - 1 \subseteq Local(cols)
=============================================================================
