----------------------------- MODULE BlobMerger -----------------------------
(***************************************************************************)
(* From a mask to its features: the view analysers, and the blob merger     *)
(* (FeatureCollection/Tasks/BlobMerger.h) that joins what they have found.  *)
(*                                                                         *)
(* The analysers work on views of their own and the merger only gathers     *)
(* what they send until it has it all, so that here one view is analysed at *)
(* a time, in any order, and gathered as soon as it is sent.  The merger    *)
(* goes through its maps and sets of blobs in the order of their addresses: *)
(* any order.                                                               *)
(***************************************************************************)
EXTENDS ViewAnalyser, UnionFind, FiniteSets

VARIABLES
  phase,          (* Of the merger.                                        *)
  analysed,       (* The tiles counted by _count.                          *)
  blobs,          (* _blobs.                                               *)
  toMerge,        (* _toMerge: what is left of each blob's list.           *)
  forest,         (* The parent and the rank of each blob.                 *)
  families        (* parentSons: the blobs of each feature.                *)

mergerVars == <<phase, analysed, blobs, toMerge, forest, families>>
vars == <<maskVars, analyserVars, blob, mergerVars>>

Init ==
  /\ AnalyserInit
  /\ phase = "gathering"
  /\ analysed = {}
  /\ blobs = {}
  /\ toMerge = <<>>
  /\ forest = [parent |-> <<>>, rank |-> <<>>]
  /\ families = {}

AnalyserStep ==
  /\ \/ \E t \in Tile \ analysed : StartView(t)
     \/ Analyse
  /\ UNCHANGED mergerVars

-----------------------------------------------------------------------------
(* executeTask: the analysis just sent is gathered, each blob its own       *)
(* parent.  After the last one the blobs are merged.                        *)
Gather ==
  /\ EndView
  /\ analysed' = analysed \union {tile}
  /\ blobs' = blobs \union SavedBlobs
  /\ toMerge' = [b \in blobs' |-> IF b \in blobs THEN toMerge[b] ELSE viewToMerge[b]]
  /\ forest' = [parent |-> [b \in blobs' |-> b], rank |-> [b \in blobs' |-> 0]]
  /\ phase' = IF analysed' = Tile THEN "uniting" ELSE "gathering"
  /\ UNCHANGED families

(* getBlobFromCoord.                                                        *)
BlobsAt(q) == {b \in blobs : IsPixelInFeature(blob[b], q)}

(* One unionElements of `merge': blob b and the one at the next pixel it    *)
(* touches.                                                                 *)
Unite(b) ==
  /\ phase = "uniting"
  /\ toMerge[b] # <<>>
  /\ \E c \in BlobsAt(Head(toMerge[b])) : forest' = UnionElements(forest, b, c)
  /\ toMerge' = [toMerge EXCEPT ![b] = Tail(@)]
  /\ UNCHANGED <<maskVars, analyserVars, blob, phase, analysed, blobs, families>>

(* parentSons: the blobs under each root.                                   *)
AssociateSons ==
  /\ phase = "uniting"
  /\ \A b \in blobs : toMerge[b] = <<>>
  /\ families' = {{c \in blobs : Root(forest.parent, c) = Root(forest.parent, b)} : b \in blobs}
  /\ phase' = "merging"
  /\ UNCHANGED <<maskVars, analyserVars, blob, analysed, blobs, toMerge, forest>>

(* mergeAndDelete: the blob of a family with fewer pixels is deleted.       *)
MergeAndDelete(family, kept, deleted) ==
  /\ phase = "merging"
  /\ blob[kept].count >= blob[deleted].count
  /\ blob' = [blob EXCEPT ![kept] = Merged(@, blob[deleted])]
  /\ blobs' = blobs \ {deleted}
  /\ families' = (families \ {family}) \union {family \ {deleted}}
  /\ UNCHANGED <<maskVars, analyserVars, phase, analysed, toMerge, forest>>

AddResult ==
  /\ phase = "merging"
  /\ \A family \in families : Cardinality(family) = 1
  /\ phase' = "done"
  /\ UNCHANGED <<maskVars, analyserVars, blob, analysed, blobs, toMerge, forest, families>>

MergerStep ==
  \/ Gather
  \/ \E b \in blobs : Unite(b)
  \/ AssociateSons
  \/ \E family \in families : \E kept, deleted \in family :
       kept # deleted /\ MergeAndDelete(family, kept, deleted)
  \/ AddResult

Done == phase = "done" /\ UNCHANGED vars

Next == AnalyserStep \/ MergerStep \/ Done

Spec == Init /\ [][Next]_vars
-----------------------------------------------------------------------------
Adjacent(p, q) ==
  p # q /\ q \in (IF connectivity = 4 THEN Neighbours4(p) ELSE Neighbours8(p))

(* No pixel of S is adjacent to one of T.                                   *)
Apart(S, T) == \A p \in S, q \in T : ~Adjacent(p, q)

Connected(S) == \A T \in SUBSET S : T # {} /\ T # S => ~Apart(T, S \ T)

(* The features are the connected components of the mask, however it is cut *)
(* into tiles and in whatever order the blobs are found and merged.         *)
FeaturesAreComponents ==
  phase = "done" =>
    /\ UNION {blob[b].pixels : b \in blobs} = mask
    /\ \A b \in blobs : blob[b].pixels # {} /\ Connected(blob[b].pixels)
    /\ \A b, c \in blobs : b # c =>
         /\ blob[b].pixels \intersect blob[c].pixels = {}
         /\ Apart(blob[b].pixels, blob[c].pixels)

(* The count and the bounding box that a blob carries along, pixel by pixel *)
(* and merge by merge, are those of its pixels.                             *)
BlobsAreDescribed ==
  \A b \in blobs :
    LET B == blob[b]
    IN  /\ B.count = Cardinality(B.pixels)
        /\ B.pixels \subseteq (B.rowMin..B.rowMax - 1) \X (B.colMin..B.colMax - 1)
        /\ \E p, q \in B.pixels : p[1] = B.rowMin /\ q[1] = B.rowMax - 1
        /\ \E p, q \in B.pixels : p[2] = B.colMin /\ q[2] = B.colMax - 1

(* Each pixel that a blob touches belongs to one blob of another tile:      *)
(* getBlobFromCoord never returns a null pointer to unite with.             *)
TouchedPixelsHaveBlobs ==
  phase = "uniting" =>
    \A b \in blobs : \A i \in 1..Len(toMerge[b]) :
      \E c \in blobs \ {b} : BlobsAt(toMerge[b][i]) = {c}

(* Ranks grow from a blob to its parent, so that `find' comes to an end.    *)
RanksGrow ==
  \A b \in blobs : phase = "uniting" /\ forest.parent[b] # b =>
    forest.rank[b] < forest.rank[forest.parent[b]]
=============================================================================
