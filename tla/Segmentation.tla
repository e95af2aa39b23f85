---------------------------- MODULE Segmentation ----------------------------
(***************************************************************************)
(* From a mask to its features and back: the constructor of                 *)
(* FeatureCollection waits for the blobs of its analyse graph, makes the    *)
(* collection from them, and the graph, with its tasks and blobs, is        *)
(* deleted.  Then the user has the collection.                              *)
(***************************************************************************)
EXTENDS BlobMerger, FeatureCollection

CONSTANTS
  Studied,        (* Bound: the masks whose collections users change, ...  *)
  MaxCalls        (* ... and by how many calls.                            *)

segmentationVars == <<vars, collectionVars>>

SegmentationInit ==
  /\ Init
  /\ CollectionInit
  /\ callsLeft = IF mask \in Studied THEN MaxCalls ELSE 0

(* The list of blobs is in the order of the sets of the merger: any.        *)
Construct ==
  /\ phase = "done"
  /\ \E list \in SetToSeqs(blobs) :
       CreateFCFromListBlobs([i \in 1..Len(list) |-> blob[list[i]]], ImageHeight, ImageWidth)
  /\ phase' = "deleted"
  /\ blob' = <<>>
  /\ blobs' = {}
  /\ toMerge' = <<>>
  /\ forest' = [parent |-> <<>>, rank |-> <<>>]
  /\ families' = {}
  /\ UNCHANGED <<maskVars, analyserVars, analysed>>

CollectionStep ==
  /\ phase = "deleted"
  /\ UserCalls(Pixel, ImageHeight, ImageWidth) \/ CollectionGoesOn
  /\ UNCHANGED vars

SegmentationNext ==
  \/ (AnalyserStep \/ MergerStep) /\ UNCHANGED collectionVars
  \/ Construct
  \/ CollectionStep

SegmentationSpec == SegmentationInit /\ [][SegmentationNext]_segmentationVars
-----------------------------------------------------------------------------
(* The tree is built, asked and left alone as it needs to be: no call that  *)
(* the user makes of the collection moves a feature that the tree stands    *)
(* for.                                                                     *)
KeepsTreePromise == TreeSpec
=============================================================================
