--------------------------- MODULE MCATileLoader ---------------------------
(***************************************************************************)
(* ATileLoader on small instances: an image of three tiles in a row or of  *)
(* two by two, fewer buffers than tiles, two or three loaders.             *)
(***************************************************************************)
EXTENDS ATileLoader

CONSTANTS l1, l2, l3

TwoLoaders == {l1, l2}
ThreeLoaders == {l1, l2, l3}

(* The file is damaged in its second tile.                                 *)
SecondTile == {<<1, 0>>}
=============================================================================
