--------------------------- MODULE MCSegmentation ---------------------------
(***************************************************************************)
(* Every mask of a small image, cut into tiles that are whole or partial.   *)
(***************************************************************************)
EXTENDS Segmentation

EveryMask == SUBSET ((0..ImageHeight - 1) \X (0..ImageWidth - 1))

(* Nothing, features whose boxes overlap or do not, and three of them.      *)
SomeMasks ==
  {{}, {<<0, 0>>, <<1, 0>>, <<2, 0>>, <<2, 1>>, <<0, 2>>, <<1, 2>>},
   {<<0, 0>>, <<0, 2>>, <<2, 1>>}}

(* Users add a feature that others overlap, and whose box ends inside a     *)
(* tile and inside the image.                                               *)
SomePixels == {{<<0, 1>>, <<1, 0>>, <<1, 1>>}}
=============================================================================
