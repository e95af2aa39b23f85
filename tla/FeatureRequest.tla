--------------------------- MODULE FeatureRequest ---------------------------
(***************************************************************************)
(* The views of a feature (requestFeature, isFeatureDone and                *)
(* getAvailableViewBlocking of api/FastImage.h): workers go through the     *)
(* features one at a time, ask for the views that the bounding box of a     *)
(* feature overlaps, and take views until the object has counted them all.  *)
(* The views come out in any order, each asked for once: ViewService.       *)
(***************************************************************************)
EXTENDS ViewRequestData, FiniteSets

CONSTANTS
  Worker,         (* Threads that take the views of a feature.             *)
  Image,          (* The image of each pyramid level: two axes.            *)
  Box,            (* The bounding boxes of features, in pixels of level 0. *)
  AskedLevels,    (* The levels features are requested at.                 *)
  NbFeatures      (* Bound: features in the collection.                    *)

Axis == [image : Nat \ {0}, tile : Nat \ {0}]

(* From the first line of a feature to the one after its last.              *)
IsSide(s, a) ==
  /\ s \in [first : Nat, last : Nat]
  /\ s.first < s.last /\ s.last <= a.image

ASSUME FeatureAssumption ==
  /\ IsFiniteSet(Worker) /\ Worker # {}
  /\ 0 \in DOMAIN Image
  /\ AskedLevels \subseteq DOMAIN Image
  /\ NbFeatures \in Nat
  /\ \A p \in DOMAIN Image : Image[p] \in [rows : Axis, cols : Axis]
  /\ \A b \in Box : /\ DOMAIN b = {"rows", "cols"}
                    /\ IsSide(b.rows, Image[0].rows)
                    /\ IsSide(b.cols, Image[0].cols)

VARIABLES
  toVisit,        (* Features that the workers have still to go through.   *)
  phase,          (* Where each worker is in the loop over the views.      *)
  seen,           (* The count that a worker has read to increment it.     *)
  feature,        (* The bounding box of the feature requested last, ...   *)
  level,          (* ... and the level it was requested at.                *)
  asked,          (* Views requested that no worker has taken.             *)
  taken,          (* Views of this feature that workers have taken.        *)
  numberTilesFeatureComputed,
  numberTilesFeatureTotal

counts == <<numberTilesFeatureComputed, numberTilesFeatureTotal>>
vars == <<toVisit, phase, seen, feature, level, asked, taken, counts>>

-----------------------------------------------------------------------------
(* The tiles that a side of the box overlaps: the first, and the one after  *)
(* the last.  Slips the properties must notice: the last tile is forgotten, *)
(* or the border of the image is not told apart.                            *)
IndexMin(s, a) == s.first \div a.tile
IndexMaxTooSmall(s, a) == IF s.last = a.image THEN NumberTiles(a) ELSE s.last \div a.tile
IndexMaxNoBorder(s, a) == s.last \div a.tile + 1
IndexMax(s, a) == IF s.last = a.image THEN NumberTiles(a) ELSE s.last \div a.tile + 1

TilesOf(b) ==
  (IndexMin(b.rows, Image[0].rows)..IndexMax(b.rows, Image[0].rows) - 1)
    \X (IndexMin(b.cols, Image[0].cols)..IndexMax(b.cols, Image[0].cols) - 1)

NumberTilesOf(b) ==
  (IndexMax(b.rows, Image[0].rows) - IndexMin(b.rows, Image[0].rows))
    * (IndexMax(b.cols, Image[0].cols) - IndexMin(b.cols, Image[0].cols))

Init ==
  /\ toVisit = NbFeatures
  /\ phase = [w \in Worker |-> "left"]
  /\ seen = [w \in Worker |-> 0]
  /\ feature \in Box
  /\ level \in AskedLevels
  /\ asked = {}
  /\ taken = {}
  /\ numberTilesFeatureComputed = 0
  /\ numberTilesFeatureTotal = 0

(* A slip the properties must notice: the count of the last feature stays.  *)
RequestFeatureNoReset(b, p) ==
  /\ \A w \in Worker : phase[w] = "left"
  /\ toVisit > 0
  /\ toVisit' = toVisit - 1
  /\ feature' = b
  /\ level' = p
  /\ numberTilesFeatureTotal' = NumberTilesOf(b)
  /\ asked' = asked \union TilesOf(b)
  /\ taken' = {}
  /\ phase' = [w \in Worker |-> "testing"]
  /\ UNCHANGED <<seen, numberTilesFeatureComputed>>

(* The workers have finished the last feature.  The call registers the      *)
(* tiles as a traversal before it sends the requests: FastImage's Request.  *)
RequestFeature(b, p) ==
  /\ \A w \in Worker : phase[w] = "left"
  /\ toVisit > 0
  /\ toVisit' = toVisit - 1
  /\ feature' = b
  /\ level' = p
  /\ numberTilesFeatureComputed' = 0
  /\ numberTilesFeatureTotal' = NumberTilesOf(b)
  /\ asked' = asked \union TilesOf(b)
  /\ taken' = {}
  /\ phase' = [w \in Worker |-> "testing"]
  /\ UNCHANGED seen

IsFeatureDone == numberTilesFeatureComputed >= numberTilesFeatureTotal

(* A slip the properties must notice: one view early.                       *)
TestLoopEarly(w) ==
  /\ phase[w] = "testing"
  /\ phase' = [phase EXCEPT ![w] =
       IF numberTilesFeatureComputed + 1 >= numberTilesFeatureTotal
         THEN "left" ELSE "taking"]
  /\ UNCHANGED <<toVisit, seen, feature, level, asked, taken, counts>>

(* The test of the workers' loop.                                           *)
TestLoop(w) ==
  /\ phase[w] = "testing"
  /\ phase' = [phase EXCEPT ![w] = IF IsFeatureDone THEN "left" ELSE "taking"]
  /\ UNCHANGED <<toVisit, seen, feature, level, asked, taken, counts>>

(* getAvailableViewBlocking waits for a view ...                            *)
ConsumeData(w) ==
  /\ phase[w] = "taking"
  /\ \E t \in asked : asked' = asked \ {t} /\ taken' = taken \union {t}
  /\ phase' = [phase EXCEPT ![w] = "reading"]
  /\ UNCHANGED <<toVisit, seen, feature, level, counts>>

(* ... and incrementTileFeatureComputed counts it.  The mutex it locks is   *)
(* its own: other workers may come between the reading of the count and its *)
(* writing.                                                                 *)
ReadCount(w) ==
  /\ phase[w] = "reading"
  /\ seen' = [seen EXCEPT ![w] = numberTilesFeatureComputed]
  /\ phase' = [phase EXCEPT ![w] = "writing"]
  /\ UNCHANGED <<toVisit, feature, level, asked, taken, counts>>

(* A slip the properties must notice: nothing is added.                     *)
WriteSameCount(w) ==
  /\ phase[w] = "writing"
  /\ numberTilesFeatureComputed' = seen[w]
  /\ phase' = [phase EXCEPT ![w] = "testing"]
  /\ UNCHANGED <<toVisit, seen, feature, level, asked, taken, numberTilesFeatureTotal>>

WriteCount(w) ==
  /\ phase[w] = "writing"
  /\ numberTilesFeatureComputed' = seen[w] + 1
  /\ phase' = [phase EXCEPT ![w] = "testing"]
  /\ UNCHANGED <<toVisit, seen, feature, level, asked, taken, numberTilesFeatureTotal>>

WorkerStep(w) == TestLoop(w) \/ ConsumeData(w) \/ ReadCount(w) \/ WriteCount(w)

Next ==
  \/ \E b \in Box, p \in AskedLevels : RequestFeature(b, p)
  \/ \E w \in Worker : WorkerStep(w)

Fairness == \A w \in Worker : WF_vars(WorkerStep(w))

Spec == Init /\ [][Next]_vars /\ Fairness
-----------------------------------------------------------------------------
TypeOK ==
  /\ toVisit \in Nat
  /\ phase \in [Worker -> {"left", "testing", "taking", "reading", "writing"}]
  /\ seen \in [Worker -> Nat]
  /\ feature \in Box /\ level \in AskedLevels
  /\ asked \subseteq Nat \X Nat /\ taken \subseteq Nat \X Nat
  /\ numberTilesFeatureTotal \in Nat
  /\ numberTilesFeatureComputed \in 0..numberTilesFeatureTotal

Working == \E w \in Worker : phase[w] # "left"

(* The views asked for are of tiles that the image of the level has.        *)
RequestedTilesExist ==
  \A t \in asked :
    /\ t[1] \in 0..NumberTiles(Image[level].rows) - 1
    /\ t[2] \in 0..NumberTiles(Image[level].cols) - 1

(* The tile of every pixel of the feature is asked for, and a worker that   *)
(* works on the feature will find it or has found it.                       *)
Around(s, a, t) == t * a.tile < s.last /\ s.first < (t + 1) * a.tile

FeatureIsCovered ==
  Working =>
    \A r \in 0..NumberTiles(Image[0].rows) - 1, c \in 0..NumberTiles(Image[0].cols) - 1 :
      Around(feature.rows, Image[0].rows, r) /\ Around(feature.cols, Image[0].cols, c)
        => <<r, c>> \in asked \union taken

(* Between two increments, the count is the number of views taken.          *)
CountsViewsTaken ==
  (\A w \in Worker : phase[w] \notin {"reading", "writing"})
    => numberTilesFeatureComputed = Cardinality(taken)

(* A feature is not done before all its views have been taken, so that none *)
(* is left for the next feature's workers to find.                          *)
NoViewIsLeft ==
  (\E w \in Worker : phase[w] = "left") => asked = {}

(* The workers finish every feature.                                        *)
FeatureGetsDone == (\E w \in Worker : phase[w] # "left") ~> ~Working
=============================================================================
