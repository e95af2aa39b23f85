---------------------------- MODULE MCFastImage -----------------------------
(***************************************************************************)
(* FastImage on small images, one column of tiles per pyramid level.        *)
(***************************************************************************)
EXTENDS FastImageService

CONSTANTS u1, u2

OneUser == {u1}
TwoUsers == {u1, u2}

(* One level of three tiles, two of two tiles, or a pyramid of three.       *)
ThreeTiles == (0 :> 3)
TwoTiles == [p \in Level |-> 2]
Pyramid == (0 :> 2) @@ (1 :> 1) @@ (2 :> 1)
OneWide == [p \in Level |-> 1]

(* The radius is less than a tile's height and more than its width, or 0.   *)
OneAround == [p \in Level |-> 1]
TwoAround == [p \in Level |-> 2]
NoneAround == [p \in Level |-> 0]

(* Every view is used once, or as many times as its level has tiles, and    *)
(* the last level is not used.                                              *)
OneUse == [p \in Level |-> 1]
LastUnused == (0 :> 2) @@ (1 :> 1) @@ (2 :> 0)

(* All the tiles of a level downwards and upwards, and one tile.            *)
Down(p) == [i \in 1..NumberTilesHeight[p] |-> <<i - 1, 0>>]
Up(p) == [i \in 1..NumberTilesHeight[p] |-> <<NumberTilesHeight[p] - i, 0>>]
DownUpAndOne == UNION {{<<p, Down(p)>>, <<p, Up(p)>>, <<p, <<Origin>>>>} : p \in Level}
EachTile == UNION {{<<p, <<t>>>> : t \in Tile(p)} : p \in Level}
UpperLevel == {<<1, Down(1)>>}
EachLevel == {<<p, Down(p)>> : p \in Level}
=============================================================================
