------------------------- MODULE FeatureCollection --------------------------
(***************************************************************************)
(* A feature collection (FeatureCollection/FeatureCollection.h): a vector   *)
(* of features with a tree to look them up by pixel, made from blobs, by    *)
(* hand or from a file, and written to a file or to a mask.                 *)
(*                                                                         *)
(* The calls of one user, one after the other.  The properties compare what *)
(* they return with `truth', a history of what the user has put in.         *)
(***************************************************************************)
EXTENDS AABBTree, Blob, SequencesExt

CONSTANTS
  HandMade,       (* Bound: what users add, as sets of pixels.             *)
  TileSizes,      (* Bound: the sizes of the tiles of the masks written.   *)
  MaxFeatures,    (* Bound: features that the user makes it have.          *)
  Unknown         (* The pixels of a tile that is not written from data.   *)

ASSUME CollectionAssumption ==
  /\ \A S \in HandMade : S \in SUBSET (Nat \X Nat) /\ S # {} /\ IsFiniteSet(S)
  /\ TileSizes \subseteq Nat \ {0}

VARIABLES
  imageHeight, imageWidth,
  file,           (* What was serialized last.                             *)
  result,         (* What the last call has returned or written.           *)
  callsLeft,      (* Bound: calls that change the collection or its file.  *)
  truth           (* History: the pixels of each identifier, and which     *)
                  (* identifiers the collection, its tree and the file     *)
                  (* should have.                                          *)

collectionVars == <<treeVars, imageHeight, imageWidth, file, result, callsLeft, truth>>

Nothing == [of |-> "nothing"]
NoFile == <<>>

CollectionInit ==
  /\ TreeInit
  /\ imageHeight = 0
  /\ imageWidth = 0
  /\ file = NoFile
  /\ result = Nothing
  /\ truth = [pixels |-> <<>>, here |-> {}, indexed |-> {}, saved |-> {}]

(* A call begins: what the one before has returned is forgotten.            *)
Begins == call = "none" /\ result' = Nothing
Counted == callsLeft > 0 /\ callsLeft' = callsLeft - 1
-----------------------------------------------------------------------------
(* The constructor's createFCFromListBlobs: a box and a bit mask for each   *)
(* blob, numbered in the order of the list, then preProcessing.             *)

BoxOf(b) == BoundingBox(b.rowMin, b.colMin, b.rowMax, b.colMax)

BitMaskOf(b) ==
  BitMask(BoxOf(b),
          {p \in (b.rowMin..b.rowMax - 1) \X (b.colMin..b.colMax - 1) : IsPixelInFeature(b, p)})

CreateFCFromListBlobs(blobs, height, width) ==
  /\ Begins
  /\ imageHeight' = height
  /\ imageWidth' = width
  /\ Preprocess([i \in 1..Len(blobs) |-> NewFeature(i - 1, BoxOf(blobs[i]), BitMaskOf(blobs[i]))])
  /\ truth' = LET ids == 0..Len(blobs) - 1
              IN  [pixels |-> [i \in ids |-> blobs[i + 1].pixels],
                   here |-> ids, indexed |-> ids, saved |-> {}]
  /\ UNCHANGED <<file, callsLeft>>

(* The default constructor, in place of the collection there was.           *)
NewCollection ==
  /\ Begins /\ Counted
  /\ features' = <<>>
  /\ tree' = <<>>
  /\ imageHeight' = 0
  /\ imageWidth' = 0
  /\ truth' = [truth EXCEPT !.here = {}, !.indexed = {}]
  /\ UNCHANGED <<call, loop, queryVars, file>>

SetImageSize(height, width) ==
  /\ Begins /\ Counted
  /\ imageHeight' = height
  /\ imageWidth' = width
  /\ UNCHANGED <<treeVars, file, truth>>

(* A slip the properties must notice: the feature goes to the front.        *)
AddFeatureFirst(id, b) ==
  /\ Begins /\ Counted
  /\ Len(features) < MaxFeatures
  /\ features' = <<NewFeature(id, BoxOf(b), BitMaskOf(b))>> \o features
  /\ truth' = [truth EXCEPT !.here = @ \union {id},
                            !.pixels = [i \in DOMAIN @ \union {id} |->
                                          IF i = id THEN b.pixels ELSE @[i]]]
  /\ UNCHANGED <<tree, call, loop, queryVars, imageHeight, imageWidth, file>>

(* A feature with an identifier of its own.  The tree is left as it is.     *)
AddFeature(id, b) ==
  /\ Begins /\ Counted
  /\ Len(features) < MaxFeatures
  /\ features' = Append(features, NewFeature(id, BoxOf(b), BitMaskOf(b)))
  /\ truth' = [truth EXCEPT !.here = @ \union {id},
                            !.pixels = [i \in DOMAIN @ \union {id} |->
                                          IF i = id THEN b.pixels ELSE @[i]]]
  /\ UNCHANGED <<tree, call, loop, queryVars, imageHeight, imageWidth, file>>

(* It throws, and changes nothing, if the image has no size.                *)
PreProcessing ==
  /\ Begins /\ Counted
  /\ imageHeight > 0 /\ imageWidth > 0
  /\ Preprocess(features)
  /\ truth' = [truth EXCEPT !.indexed = truth.here]
  /\ UNCHANGED <<imageHeight, imageWidth, file>>

-----------------------------------------------------------------------------
(* getFeatureFromPixel: the first of the features that objectsContain finds *)
(* that has the pixel in its bit mask; 0 stands for the null pointer.       *)

GetFeatureFromPixel(p) ==
  /\ Begins
  /\ ObjectsContain(p)
  /\ UNCHANGED <<imageHeight, imageWidth, file, callsLeft, truth>>

ReturnFeature ==
  /\ ReturnObjects
  /\ LET found == {k \in 1..Len(vObj) : IsInBitMask(features[vObj[k]], point)}
     IN  result' = [of |-> "pixel", pixel |-> point,
                    position |-> IF found = {} THEN 0 ELSE vObj[Min(found)]]
  /\ UNCHANGED <<imageHeight, imageWidth, file, callsLeft, truth>>

(* getFeatureFromId: the first of the features that has the identifier.     *)
GetFeatureFromId(id) ==
  /\ call = "none"
  /\ LET found == {i \in 1..Len(features) : features[i].id = id}
     IN  result' = [of |-> "id", id |-> id, position |-> IF found = {} THEN 0 ELSE Min(found)]
  /\ UNCHANGED <<treeVars, imageHeight, imageWidth, file, callsLeft, truth>>

-----------------------------------------------------------------------------
Serialize ==
  /\ Begins /\ Counted
  /\ file' = <<imageHeight, imageWidth, Len(features)>>
               \o FlattenSeq([i \in 1..Len(features) |-> SerializeFeature(features[i])])
  /\ truth' = [truth EXCEPT !.saved = truth.here]
  /\ UNCHANGED <<treeVars, imageHeight, imageWidth>>

(* The first n features of the file, each read where the last one ended.    *)
FeaturesRead(n) ==
  LET read[i \in 0..n] ==
        IF i = 0 THEN [vector |-> <<>>, rest |-> SubSeq(file, 4, Len(file))]
        ELSE LET next == DeserializeFeature(read[i - 1].rest)
             IN  [vector |-> Append(read[i - 1].vector, next.feature), rest |-> next.rest]
  IN  read[n].vector

(* The features of the file go after those that the collection has; its     *)
(* size is that of the file, and preProcessing throws if that is none.      *)
Deserialize ==
  /\ Begins /\ Counted
  /\ file # NoFile
  /\ Len(features) + file[3] <= MaxFeatures
  /\ imageHeight' = file[1]
  /\ imageWidth' = file[2]
  /\ LET vector == features \o FeaturesRead(file[3])
     IN  IF file[1] > 0 /\ file[2] > 0
           THEN /\ Preprocess(vector)
                /\ truth' = [truth EXCEPT !.here = @ \union truth.saved,
                                          !.indexed = truth.here \union truth.saved]
           ELSE /\ features' = vector
                /\ truth' = [truth EXCEPT !.here = @ \union truth.saved]
                /\ UNCHANGED <<tree, call, loop, queryVars>>
  /\ UNCHANGED file

(* operator==: as many features, and each is equal to one of the others.    *)
Equal(vector, other) ==
  /\ Len(vector) = Len(other)
  /\ \A i \in 1..Len(vector) : \E j \in 1..Len(other) : EqualFeatures(vector[i], other[j])

(* The collection is compared with one that is constructed from the file.   *)
CompareWithFile ==
  /\ call = "none"
  /\ file # NoFile /\ file[1] > 0 /\ file[2] > 0
  /\ result' = [of |-> "equality", equal |-> Equal(features, FeaturesRead(file[3]))]
  /\ UNCHANGED <<treeVars, imageHeight, imageWidth, file, callsLeft, truth>>

-----------------------------------------------------------------------------
(* createLabeledMask and createBlackWhiteMask, with tiles of the size s.    *)

(* A slip the properties must notice: the last tiles of a box are left out. *)
TilesOfBoxButLast(box, s) ==
  (box.ulRow \div s..(box.brRow - 1) \div s) \X (box.ulCol \div s..(box.brCol - 2) \div s)

TilesOfBox(box, s) ==
  (box.ulRow \div s..(box.brRow - 1) \div s) \X (box.ulCol \div s..(box.brCol - 1) \div s)

(* Labels are identifiers plus one, or all one.                            *)
MaskKinds == {"labels", "black and white"}

(* The pixels that feature f sets in a tile.                                *)
PixelsSet(f, t, s) ==
  {p \in (Larger(t[1] * s, f.box.ulRow)..Smaller(f.box.brRow, (t[1] + 1) * s) - 1)
           \X (Larger(t[2] * s, f.box.ulCol)..Smaller(f.box.brCol, (t[2] + 1) * s) - 1) :
     IsInBitMask(f, p)}

LoadedTiles(s) == UNION {TilesOfBox(features[i].box, s) : i \in 1..Len(features)}

(* The features that set a pixel: the last one of them leaves its label.    *)
SetBy(p, t, s) ==
  {i \in 1..Len(features) :
     t \in TilesOfBox(features[i].box, s) /\ p \in PixelsSet(features[i], t, s)}

Label(kind, i) == IF kind = "labels" THEN features[i].id + 1 ELSE 1

WrittenFromData(kind, p, t, s) ==
  LET setters == SetBy(p, t, s)
  IN  IF setters = {} THEN 0 ELSE Label(kind, Max(setters))

(* A tile that was not loaded is written from the bytes of the vector       *)
(* object `emptyTile', and of what follows it in memory.  A tile size that  *)
(* is no power of two throws; 0 does not, and neither does an image without *)
(* a size: both are taken as calls that users do not make.                  *)
WriteMask(kind, s) ==
  /\ call = "none"
  /\ \E k \in 0..s : s = 2 ^ k
  /\ imageHeight > 0 /\ imageWidth > 0
  /\ LET loaded == LoadedTiles(s)
         Written(p, t, blank) == IF t \in loaded THEN WrittenFromData(kind, p, t, s) ELSE blank
     IN  \E blank \in {0, Unknown} :
           result' = [of |-> kind,
                      pixel |-> [p \in (0..imageHeight - 1) \X (0..imageWidth - 1) |->
                                   Written(p, <<p[1] \div s, p[2] \div s>>, blank)]]
  /\ UNCHANGED <<treeVars, imageHeight, imageWidth, file, callsLeft, truth>>

CreateLabeledMask(s) == WriteMask("labels", s)
CreateBlackWhiteMask(s) == WriteMask("black and white", s)

-----------------------------------------------------------------------------
(* The blob that a user's pixels would be.                                  *)
BlobOf(S) ==
  [pixels |-> S,
   rowMin |-> Min({p[1] : p \in S}), rowMax |-> Max({p[1] : p \in S}) + 1,
   colMin |-> Min({p[2] : p \in S}), colMax |-> Max({p[2] : p \in S}) + 1]

UserCalls(Pixels, height, width) ==
  \/ NewCollection
  \/ SetImageSize(height, width)
  \/ \E S \in HandMade : AddFeature(Cardinality(DOMAIN truth.pixels), BlobOf(S))
  \/ PreProcessing
  \/ Serialize
  \/ Deserialize
  \/ CompareWithFile
  \/ \E p \in Pixels : GetFeatureFromPixel(p)
  \/ \E id \in 0..MaxFeatures : GetFeatureFromId(id)
  \/ \E s \in TileSizes : CreateLabeledMask(s) \/ CreateBlackWhiteMask(s)

CollectionGoesOn ==
  \/ TreeStep /\ UNCHANGED <<imageHeight, imageWidth, file, result, callsLeft, truth>>
  \/ ReturnFeature
-----------------------------------------------------------------------------
Owners(p, ids) == {id \in ids : p \in truth.pixels[id]}

PixelsIn(f) ==
  {p \in (f.box.ulRow..f.box.brRow - 1) \X (f.box.ulCol..f.box.brCol - 1) : IsInBitMask(f, p)}

(* A lookup returns a feature that has the pixel, and a null pointer only   *)
(* if no feature that was there when the tree was last built has it: each   *)
(* feature is found by its own pixels alone, whatever the shape and the     *)
(* order of the tree, also after the features have been through a file.     *)
(* Under its identifier it is found as soon as it is added, with the pixels *)
(* it was added with.                                                       *)
LookupIsRight ==
  /\ result.of = "pixel" =>
       LET owners == Owners(result.pixel, truth.indexed)
       IN  IF result.position = 0 THEN owners = {}
           ELSE features[result.position].id \in owners
  /\ result.of = "id" =>
       IF result.position = 0 THEN result.id \notin truth.here
       ELSE /\ result.id \in truth.here
            /\ PixelsIn(features[result.position]) = truth.pixels[result.id]

Shows(p) ==
  LET owners == Owners(p, truth.here)
  IN  IF owners = {} THEN result.pixel[p] = 0
      ELSE result.pixel[p] \in (IF result.of = "labels" THEN {id + 1 : id \in owners} ELSE {1})

(* The tiles of a written mask that some feature's box reaches show the     *)
(* features and nothing else, and no feature lies outside of them.          *)
ReachedTilesShowFeatures ==
  result.of \in MaskKinds =>
    \A p \in DOMAIN result.pixel :
      result.pixel[p] # Unknown \/ Owners(p, truth.here) # {} => Shows(p)

Shapes(ids) == {truth.pixels[id] : id \in ids}

(* A collection and one constructed from a file, neither of which has a     *)
(* feature twice, are equal exactly if they should have the same features:  *)
(* what is written and read back loses no pixel, and the order that the     *)
(* tree gives them does not count.                                          *)
FileShowsFeatures ==
  /\ result.of = "equality"
  /\ Cardinality(Shapes(truth.here)) = Len(features)
  /\ Cardinality(Shapes(truth.saved)) = file[3]
  => (result.equal <=> Shapes(truth.here) = Shapes(truth.saved))

(* What is written of a collection shows its features: in a mask, and in a  *)
(* file.                                                                    *)
WritingsShowFeatures == ReachedTilesShowFeatures /\ FileShowsFeatures

(* A mask shows a blank wherever no feature is.                             *)
MaskShowsFeatures ==
  result.of \in MaskKinds => \A p \in DOMAIN result.pixel : Shows(p)
=============================================================================
