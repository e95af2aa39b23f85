----------------------------- MODULE MCTraversal ----------------------------
(***************************************************************************)
(* All images of up to MaxTiles rows and columns of tiles.                  *)
(***************************************************************************)
EXTENDS Traversal

CONSTANT MaxTiles

UpToMax == 1..MaxTiles
=============================================================================
