--------------------------- MODULE MCViewAssembly ---------------------------
(***************************************************************************)
(* Small images: one tile or several, a last tile that is whole or partial, *)
(* a tile larger than the image, and a radius that goes from nothing to     *)
(* more than a tile and more than the image.                                *)
(***************************************************************************)
EXTENDS ViewAssembly

Axes(sizes, radii) ==
  {a \in [image : 1..5, tile : 1..3, radius : radii, index : 0..4] :
     <<a.image, a.tile>> \in sizes /\ IsAxis(a)}

MCRows == Axes({<<1, 1>>, <<2, 3>>, <<4, 2>>, <<5, 2>>}, 0..3)
MCCols == Axes({<<1, 2>>, <<3, 1>>, <<3, 2>>}, 0..3)
=============================================================================
