-------------------------- MODULE MCFeatureRequest --------------------------
(***************************************************************************)
(* Every bounding box of an image with partial tiles at its borders.        *)
(***************************************************************************)
EXTENDS FeatureRequest, TLC

CONSTANTS w1, w2

OneWorker == {w1}
TwoWorkers == {w1, w2}

(* Tiles of 2 by 2 pixels: 3 by 2 tiles at level 0, the lower ones and the  *)
(* right ones partial or not, and half of each side at level 1.             *)
ImageOf(height, width) == [rows |-> [image |-> height, tile |-> 2],
                           cols |-> [image |-> width, tile |-> 2]]
Pyramid == (0 :> ImageOf(5, 4)) @@ (1 :> ImageOf(3, 2))

Side(n) == {s \in [first : 0..n - 1, last : 1..n] : s.first < s.last}
Boxes == [rows : Side(5), cols : Side(4)]
=============================================================================
