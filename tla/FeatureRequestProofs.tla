------------------------ MODULE FeatureRequestProofs ------------------------
(***************************************************************************)
(* Proofs about the views of a feature, for any image, tile size, bounding *)
(* boxes and workers.                                                      *)
(***************************************************************************)
EXTENDS FeatureRequest, CommonLemmas

-----------------------------------------------------------------------------
(* Along an axis: a side of the box overlaps the tiles from IndexMin to    *)
(* IndexMax, which the image has.                                          *)
LEMMA SideIsCovered ==
  ASSUME NEW a \in Axis, NEW s, IsSide(s, a)
  PROVE  /\ IndexMin(s, a) \in Nat /\ IndexMax(s, a) \in Nat
         /\ IndexMin(s, a) <= IndexMax(s, a)
         /\ IndexMax(s, a) <= NumberTiles(a)
         /\ \A t \in 0..NumberTiles(a) - 1 :
              Around(s, a, t) => t \in IndexMin(s, a)..IndexMax(s, a) - 1
<1> DEFINE T == a.tile
           n == NumberTiles(a)
           m == IndexMin(s, a)
           q == s.last \div T
<1>1. /\ T \in Nat \ {0} /\ a.image \in Nat
      /\ s.first \in Nat /\ s.last \in Nat /\ s.first < s.last /\ s.last <= a.image
  BY DEF Axis, IsSide
<1>2. n \in Nat /\ n * T >= a.image /\ n * T < a.image + T
  BY <1>1, CeilBounds DEF Ceil, NumberTiles
<1>3. m \in Nat /\ m * T <= s.first /\ s.first < (m + 1) * T
  BY <1>1 DEF IndexMin
<1>4. q \in Nat /\ q * T <= s.last /\ s.last < (q + 1) * T
  BY <1>1
<1>5. IndexMax(s, a) = IF s.last = a.image THEN n ELSE q + 1
  BY DEF IndexMax
<1>6. \A t \in 0..n - 1 : Around(s, a, t) <=> t * T < s.last /\ s.first < (t + 1) * T
  BY DEF Around
<1> HIDE DEF T, n, m, q
<1>7. ASSUME NEW i \in Nat, NEW j \in Nat, i * T < j * T
      PROVE  i < j
  <2>1. CASE i >= j
    BY <1>1, <1>7, <2>1
  <2> QED BY <2>1
<1>8. m < n
  <2>1. m * T < n * T
    BY <1>1, <1>2, <1>3
  <2> QED BY <1>2, <1>3, <1>7, <2>1
<1>9. ASSUME s.last # a.image
      PROVE  m <= q /\ q < n
  <2>1. m * T < (q + 1) * T
    BY <1>1, <1>3, <1>4
  <2>2. q * T < n * T
    BY <1>1, <1>2, <1>4, <1>9
  <2> QED BY <1>2, <1>3, <1>4, <1>7, <2>1, <2>2
<1>10. ASSUME NEW t \in 0..n - 1, t * T < s.last, s.first < (t + 1) * T
       PROVE  m <= t /\ (s.last # a.image => t <= q)
  <2>1. m * T < (t + 1) * T
    BY <1>1, <1>3, <1>10
  <2>2. t * T < (q + 1) * T
    BY <1>1, <1>4, <1>10
  <2> QED BY <1>2, <1>3, <1>4, <1>7, <1>10, <2>1, <2>2
<1>11. CASE s.last = a.image
  BY <1>2, <1>3, <1>5, <1>6, <1>8, <1>10, <1>11 DEF m, n
<1>12. CASE s.last # a.image
  BY <1>2, <1>3, <1>4, <1>5, <1>6, <1>9, <1>10, <1>12 DEF m, n
<1> QED BY <1>11, <1>12

(* The tiles asked for are as many as requestFeature says.                 *)
LEMMA TilesOfBox ==
  ASSUME NEW b \in Box
  PROVE  /\ IsFiniteSet(TilesOf(b))
         /\ Cardinality(TilesOf(b)) = NumberTilesOf(b)
         /\ NumberTilesOf(b) \in Nat
         /\ TilesOf(b) \subseteq (0..NumberTiles(Image[0].rows) - 1)
                                   \X (0..NumberTiles(Image[0].cols) - 1)
         /\ TilesOf(b) \subseteq Nat \X Nat
         /\ \A r \in 0..NumberTiles(Image[0].rows) - 1,
               c \in 0..NumberTiles(Image[0].cols) - 1 :
              Around(b.rows, Image[0].rows, r) /\ Around(b.cols, Image[0].cols, c)
                => <<r, c>> \in TilesOf(b)
<1> DEFINE ar == Image[0].rows
           ac == Image[0].cols
           i == IndexMin(b.rows, ar)
           j == IndexMax(b.rows, ar)
           k == IndexMin(b.cols, ac)
           l == IndexMax(b.cols, ac)
           h == NumberTiles(ar)
           w == NumberTiles(ac)
<1>1. /\ ar \in Axis /\ ac \in Axis
      /\ IsSide(b.rows, ar) /\ IsSide(b.cols, ac)
  BY FeatureAssumption
<1>2. /\ i \in Nat /\ j \in Nat /\ i <= j /\ j <= h
      /\ \A t \in 0..h - 1 : Around(b.rows, ar, t) => t \in i..j - 1
  BY <1>1, SideIsCovered
<1>3. /\ k \in Nat /\ l \in Nat /\ k <= l /\ l <= w
      /\ \A t \in 0..w - 1 : Around(b.cols, ac, t) => t \in k..l - 1
  BY <1>1, SideIsCovered
<1>4. /\ TilesOf(b) = (i..j - 1) \X (k..l - 1)
      /\ NumberTilesOf(b) = (j - i) * (l - k)
  BY DEF TilesOf, NumberTilesOf
<1>5. h \in Nat /\ w \in Nat
  BY <1>1, CeilBounds DEF Ceil, NumberTiles, Axis
<1> HIDE DEF ar, ac, i, j, k, l, h, w
<1>6. IsFiniteSet(TilesOf(b)) /\ Cardinality(TilesOf(b)) = (j - i) * (l - k)
  <2>1. IsFiniteSet(i..j - 1) /\ Cardinality(i..j - 1) = j - i
    BY <1>2, IntervalCount
  <2>2. IsFiniteSet(k..l - 1) /\ Cardinality(k..l - 1) = l - k
    BY <1>3, IntervalCount
  <2> QED BY <1>4, <2>1, <2>2, FS_Product
<1>7. Cardinality(TilesOf(b)) = NumberTilesOf(b)
  BY <1>4, <1>6
<1>8. NumberTilesOf(b) \in Nat
  BY <1>6, <1>7, FS_CardinalityType
<1>9. /\ i..j - 1 \subseteq 0..h - 1 /\ k..l - 1 \subseteq 0..w - 1
      /\ 0..h - 1 \subseteq Nat /\ 0..w - 1 \subseteq Nat
  BY <1>2, <1>3, <1>5
<1>10. TilesOf(b) \subseteq (0..h - 1) \X (0..w - 1) /\ TilesOf(b) \subseteq Nat \X Nat
  BY <1>4, <1>9
<1>11. \A r \in 0..h - 1, c \in 0..w - 1 :
         Around(b.rows, ar, r) /\ Around(b.cols, ac, c) => <<r, c>> \in TilesOf(b)
  BY <1>2, <1>3, <1>4
<1>12. TilesOf(b) \subseteq (0..NumberTiles(Image[0].rows) - 1)
                              \X (0..NumberTiles(Image[0].cols) - 1)
  BY <1>10, Zenon DEF ar, ac, h, w
<1>13. \A r \in 0..NumberTiles(Image[0].rows) - 1,
          c \in 0..NumberTiles(Image[0].cols) - 1 :
         Around(b.rows, Image[0].rows, r) /\ Around(b.cols, Image[0].cols, c)
           => <<r, c>> \in TilesOf(b)
  BY <1>11, Zenon DEF ar, ac, h, w
<1> QED BY <1>6, <1>7, <1>8, <1>10, <1>12, <1>13, Zenon

-----------------------------------------------------------------------------
(* The invariant.  A worker between the taking of a view and its counting  *)
(* is busy.  An increment can be lost but none can be made up: with what   *)
(* the busy workers will add, the count never passes the views taken.  So  *)
(* when the count reaches the total, all views have been taken.            *)

Busy == {w \in Worker : phase[w] \in {"reading", "writing"}}

Inv ==
  /\ TypeOK
  /\ IsFiniteSet(asked) /\ IsFiniteSet(taken) /\ asked \intersect taken = {}
  /\ numberTilesFeatureTotal = Cardinality(asked) + Cardinality(taken)
  /\ numberTilesFeatureComputed + Cardinality(Busy) <= Cardinality(taken)
  /\ \A w \in Worker :
       phase[w] = "writing" => seen[w] + Cardinality(Busy) <= Cardinality(taken)
  /\ NoViewIsLeft
  /\ Working => asked \union taken = TilesOf(feature)

LEMMA BusyIsFinite ==
  /\ IsFiniteSet(Busy) /\ Cardinality(Busy) \in Nat
  /\ \A w \in Worker : Cardinality(Busy \ {w}) = IF w \in Busy THEN Cardinality(Busy) - 1
                                                               ELSE Cardinality(Busy)
  /\ \A w \in Worker : Cardinality(Busy \union {w}) = IF w \in Busy THEN Cardinality(Busy)
                                                               ELSE Cardinality(Busy) + 1
  /\ \A w \in Busy : Cardinality(Busy) >= 1
<1>1. Busy \subseteq Worker /\ IsFiniteSet(Worker)
  BY FeatureAssumption DEF Busy
<1>2. IsFiniteSet(Busy)
  BY <1>1, FS_Subset
<1>3. Cardinality(Busy) \in Nat
  BY <1>2, FS_CardinalityType
<1>4. ASSUME NEW w
      PROVE  /\ Cardinality(Busy \ {w}) = IF w \in Busy THEN Cardinality(Busy) - 1
                                                         ELSE Cardinality(Busy)
             /\ Cardinality(Busy \union {w}) = IF w \in Busy THEN Cardinality(Busy)
                                                         ELSE Cardinality(Busy) + 1
  BY <1>2, FS_AddElement, FS_RemoveElement
<1>5. \A w \in Busy : Cardinality(Busy) >= 1
  <2>1. Cardinality(Busy) = 0 <=> Busy = {}
    BY <1>2, FS_EmptySet
  <2> QED BY <1>3, <2>1
<1> QED BY <1>2, <1>3, <1>4, <1>5

LEMMA InvInit == Init => Inv
<1> SUFFICES ASSUME Init PROVE Inv
  OBVIOUS
<1>1. IsFiniteSet({}) /\ Cardinality({}) = 0
  BY FS_EmptySet
<1>2. Busy = {}
  BY DEF Busy, Init
<1>3. TypeOK
  BY FeatureAssumption DEF Init, TypeOK
<1>4. /\ asked = {} /\ taken = {}
      /\ numberTilesFeatureTotal = 0 /\ numberTilesFeatureComputed = 0
      /\ ~Working /\ \A w \in Worker : phase[w] # "writing"
  BY DEF Init, Working
<1>5. Cardinality(asked) = 0 /\ Cardinality(taken) = 0 /\ Cardinality(Busy) = 0
  BY <1>1, <1>2, <1>4
<1> QED BY <1>1, <1>3, <1>4, <1>5 DEF Inv, NoViewIsLeft

LEMMA InvRequestFeature ==
  ASSUME Inv, NEW b \in Box, NEW p \in AskedLevels, RequestFeature(b, p)
  PROVE  Inv'
<1>1. /\ \A w \in Worker : phase[w] = "left"
      /\ toVisit > 0 /\ toVisit' = toVisit - 1
      /\ feature' = b /\ level' = p
      /\ numberTilesFeatureComputed' = 0
      /\ numberTilesFeatureTotal' = NumberTilesOf(b)
      /\ asked' = asked \union TilesOf(b) /\ taken' = {}
      /\ phase' = [w \in Worker |-> "testing"]
      /\ seen' = seen
  BY DEF RequestFeature
<1>2. asked' = TilesOf(b)
  <2>1. asked = {}
    BY <1>1, FeatureAssumption DEF Inv, NoViewIsLeft
  <2> QED BY <1>1, <2>1
<1>3. IsFiniteSet({}) /\ Cardinality({}) = 0
  BY FS_EmptySet
<1>4. /\ IsFiniteSet(TilesOf(b)) /\ Cardinality(TilesOf(b)) = NumberTilesOf(b)
      /\ NumberTilesOf(b) \in Nat /\ TilesOf(b) \subseteq Nat \X Nat
  BY TilesOfBox
<1>5. Busy' = {} /\ \A w \in Worker : phase'[w] = "testing"
  BY <1>1 DEF Busy
<1>6. TypeOK'
  BY <1>1, <1>2, <1>4 DEF Inv, TypeOK
<1>7. /\ Cardinality(asked') = NumberTilesOf(b)
      /\ Cardinality(taken') = 0 /\ Cardinality(Busy') = 0
  BY <1>1, <1>2, <1>3, <1>4, <1>5
<1>8. IsFiniteSet(asked') /\ IsFiniteSet(taken') /\ asked' \intersect taken' = {}
  BY <1>1, <1>2, <1>3, <1>4
<1>9. /\ numberTilesFeatureTotal' = Cardinality(asked') + Cardinality(taken')
      /\ numberTilesFeatureComputed' + Cardinality(Busy') <= Cardinality(taken')
  BY <1>1, <1>4, <1>7
<1>10. NoViewIsLeft' /\ asked' \union taken' = TilesOf(feature')
  BY <1>1, <1>2, <1>5 DEF NoViewIsLeft
<1> QED BY <1>5, <1>6, <1>8, <1>9, <1>10 DEF Inv

(* The facts that a worker's step starts from.                             *)
LEMMA InvFacts ==
  ASSUME Inv
  PROVE  /\ Cardinality(asked) \in Nat /\ Cardinality(taken) \in Nat
         /\ Cardinality(Busy) \in Nat
         /\ numberTilesFeatureComputed \in Nat /\ numberTilesFeatureTotal \in Nat
         /\ numberTilesFeatureTotal = Cardinality(asked) + Cardinality(taken)
         /\ numberTilesFeatureComputed + Cardinality(Busy) <= Cardinality(taken)
         /\ \A w \in Worker : phase[w] \in {"left", "testing", "taking", "reading", "writing"}
         /\ \A w \in Worker : seen[w] \in Nat
BY BusyIsFinite, FS_CardinalityType DEF Inv, TypeOK

LEMMA InvTestLoop ==
  ASSUME Inv, NEW w \in Worker, TestLoop(w)
  PROVE  Inv'
<1>1. /\ phase[w] = "testing"
      /\ phase' = [phase EXCEPT ![w] = IF IsFeatureDone THEN "left" ELSE "taking"]
      /\ UNCHANGED <<toVisit, seen, feature, level, asked, taken>>
      /\ UNCHANGED numberTilesFeatureComputed
      /\ UNCHANGED numberTilesFeatureTotal
  BY DEF TestLoop, counts
<1>2. phase \in [Worker -> {"left", "testing", "taking", "reading", "writing"}]
  BY DEF Inv, TypeOK
<1>3. \A x \in Worker : phase'[x] = IF x = w THEN IF IsFeatureDone THEN "left" ELSE "taking"
                                             ELSE phase[x]
  BY <1>1, <1>2
<1>4. Busy' = Busy
  BY <1>1, <1>3 DEF Busy
<1>5. TypeOK'
  BY <1>1 DEF Inv, TypeOK
<1>6. \A x \in Worker : phase'[x] = "writing" => phase[x] = "writing"
  BY <1>3
<1>7. IsFeatureDone => asked = {}
  <2>1. Cardinality(asked) = 0 <=> asked = {}
    BY FS_EmptySet DEF Inv
  <2> QED BY <2>1, InvFacts DEF IsFeatureDone
<1>8. NoViewIsLeft'
  BY <1>1, <1>3, <1>7 DEF Inv, NoViewIsLeft
<1>9. Working
  BY <1>1 DEF Working
<1>10. (asked \union taken = TilesOf(feature))'
  BY <1>1, <1>9 DEF Inv
<1> QED BY <1>1, <1>4, <1>5, <1>6, <1>8, <1>10 DEF Inv

LEMMA InvConsumeData ==
  ASSUME Inv, NEW w \in Worker, ConsumeData(w)
  PROVE  Inv'
<1>1. PICK t \in asked : asked' = asked \ {t} /\ taken' = taken \union {t}
  BY DEF ConsumeData
<1>2. /\ phase[w] = "taking"
      /\ phase' = [phase EXCEPT ![w] = "reading"]
      /\ UNCHANGED <<toVisit, seen, feature, level>>
      /\ UNCHANGED numberTilesFeatureComputed
      /\ UNCHANGED numberTilesFeatureTotal
  BY DEF ConsumeData, counts
<1>3. phase \in [Worker -> {"left", "testing", "taking", "reading", "writing"}]
  BY DEF Inv, TypeOK
<1>4. \A x \in Worker : phase'[x] = IF x = w THEN "reading" ELSE phase[x]
  BY <1>2, <1>3
<1>5. Busy' = Busy \union {w} /\ w \notin Busy
  BY <1>2, <1>4 DEF Busy
<1>6. Cardinality(Busy') = Cardinality(Busy) + 1
  BY <1>5, BusyIsFinite
<1>7. IsFiniteSet(asked) /\ IsFiniteSet(taken) /\ t \notin taken
  BY DEF Inv
<1>8. /\ IsFiniteSet(asked') /\ IsFiniteSet(taken')
      /\ Cardinality(asked') = Cardinality(asked) - 1
      /\ Cardinality(taken') = Cardinality(taken) + 1
  BY <1>1, <1>7, FS_AddElement, FS_RemoveElement
<1>9. TypeOK'
  BY <1>1, <1>2 DEF Inv, TypeOK
<1>10. asked' \intersect taken' = {}
  BY <1>1 DEF Inv
<1>11. /\ numberTilesFeatureTotal' = Cardinality(asked') + Cardinality(taken')
       /\ numberTilesFeatureComputed' + Cardinality(Busy') <= Cardinality(taken')
  BY <1>2, <1>6, <1>8, InvFacts
<1>12. \A x \in Worker : phase'[x] = "writing" => seen'[x] + Cardinality(Busy') <= Cardinality(taken')
  <2> SUFFICES ASSUME NEW x \in Worker, phase'[x] = "writing"
               PROVE  seen'[x] + Cardinality(Busy') <= Cardinality(taken')
    OBVIOUS
  <2>1. phase[x] = "writing"
    BY <1>4
  <2>2. seen[x] + Cardinality(Busy) <= Cardinality(taken)
    BY <2>1 DEF Inv
  <2> QED BY <1>2, <1>6, <1>8, <2>2, InvFacts
<1>13. NoViewIsLeft'
  BY <1>1, <1>4 DEF Inv, NoViewIsLeft
<1>14. asked' \union taken' = TilesOf(feature')
  <2>1. Working
    BY <1>2 DEF Working
  <2> QED BY <1>1, <1>2, <2>1 DEF Inv
<1> QED BY <1>8, <1>9, <1>10, <1>11, <1>12, <1>13, <1>14 DEF Inv

LEMMA InvReadCount ==
  ASSUME Inv, NEW w \in Worker, ReadCount(w)
  PROVE  Inv'
<1>1. /\ phase[w] = "reading"
      /\ phase' = [phase EXCEPT ![w] = "writing"]
      /\ seen' = [seen EXCEPT ![w] = numberTilesFeatureComputed]
      /\ UNCHANGED <<toVisit, feature, level, asked, taken>>
      /\ UNCHANGED numberTilesFeatureComputed
      /\ UNCHANGED numberTilesFeatureTotal
  BY DEF ReadCount, counts
<1>2. /\ phase \in [Worker -> {"left", "testing", "taking", "reading", "writing"}]
      /\ seen \in [Worker -> Nat]
  BY DEF Inv, TypeOK
<1>3. /\ \A x \in Worker : phase'[x] = IF x = w THEN "writing" ELSE phase[x]
      /\ \A x \in Worker : seen'[x] = IF x = w THEN numberTilesFeatureComputed ELSE seen[x]
  BY <1>1, <1>2
<1>4. Busy' = Busy
  BY <1>1, <1>3 DEF Busy
<1>5. TypeOK'
  BY <1>1, InvFacts DEF Inv, TypeOK
<1>6. \A x \in Worker : phase'[x] = "writing" => seen'[x] + Cardinality(Busy) <= Cardinality(taken)
  BY <1>3, InvFacts DEF Inv
<1>7. NoViewIsLeft'
  BY <1>1, <1>3 DEF Inv, NoViewIsLeft
<1>8. Working
  BY <1>1 DEF Working
<1> QED BY <1>1, <1>4, <1>5, <1>6, <1>7, <1>8 DEF Inv

LEMMA InvWriteCount ==
  ASSUME Inv, NEW w \in Worker, WriteCount(w)
  PROVE  Inv'
<1>1. /\ phase[w] = "writing"
      /\ phase' = [phase EXCEPT ![w] = "testing"]
      /\ numberTilesFeatureComputed' = seen[w] + 1
      /\ UNCHANGED <<toVisit, seen, feature, level, asked, taken, numberTilesFeatureTotal>>
  BY DEF WriteCount
<1>2. phase \in [Worker -> {"left", "testing", "taking", "reading", "writing"}]
  BY DEF Inv, TypeOK
<1>3. \A x \in Worker : phase'[x] = IF x = w THEN "testing" ELSE phase[x]
  BY <1>1, <1>2
<1>4. Busy' = Busy \ {w} /\ w \in Busy
  BY <1>1, <1>3 DEF Busy
<1>5. Cardinality(Busy') = Cardinality(Busy) - 1 /\ Cardinality(Busy) >= 1
  BY <1>4, BusyIsFinite
<1>6. seen[w] + Cardinality(Busy) <= Cardinality(taken)
  BY <1>1 DEF Inv
<1>7. numberTilesFeatureComputed' + Cardinality(Busy') <= Cardinality(taken')
  BY <1>1, <1>5, <1>6, InvFacts
<1>8. numberTilesFeatureComputed' \in 0..numberTilesFeatureTotal'
  BY <1>1, <1>5, <1>6, InvFacts
<1>9. TypeOK'
  BY <1>1, <1>8 DEF Inv, TypeOK
<1>10. \A x \in Worker : phase'[x] = "writing" => seen'[x] + Cardinality(Busy') <= Cardinality(taken')
  <2> SUFFICES ASSUME NEW x \in Worker, phase'[x] = "writing"
               PROVE  seen'[x] + Cardinality(Busy') <= Cardinality(taken')
    OBVIOUS
  <2>1. seen[x] + Cardinality(Busy) <= Cardinality(taken)
    BY <1>3 DEF Inv
  <2> QED BY <1>1, <1>5, <2>1, InvFacts
<1>11. NoViewIsLeft'
  BY <1>1, <1>3 DEF Inv, NoViewIsLeft
<1>12. Working
  BY <1>1 DEF Working
<1> QED BY <1>1, <1>7, <1>9, <1>10, <1>11, <1>12 DEF Inv

LEMMA InvNext == Inv /\ [Next]_vars => Inv'
<1> SUFFICES ASSUME Inv, [Next]_vars PROVE Inv'
  OBVIOUS
<1>1. CASE UNCHANGED vars
  BY <1>1 DEF Inv, TypeOK, Busy, NoViewIsLeft, Working, vars, counts
<1>2. ASSUME NEW b \in Box, NEW p \in AskedLevels, RequestFeature(b, p)
      PROVE  Inv'
  BY <1>2, InvRequestFeature
<1>3. ASSUME NEW w \in Worker, WorkerStep(w)
      PROVE  Inv'
  BY <1>3, InvTestLoop, InvConsumeData, InvReadCount, InvWriteCount DEF WorkerStep
<1> QED BY <1>1, <1>2, <1>3 DEF Next

-----------------------------------------------------------------------------
(* The inductive invariant holds for any number of workers.                *)
THEOREM Invariance == Spec => []Inv
BY InvInit, InvNext, PTL DEF Spec

(* The count never passes the number of views of the feature.              *)
THEOREM TypeCorrectness == Spec => []TypeOK
<1>1. Inv => TypeOK
  BY DEF Inv
<1> QED BY <1>1, Invariance, PTL

(* However many workers, and whatever increments they lose, none leaves a  *)
(* feature before all its views have been taken.                           *)
THEOREM NoViewIsLeftBehind == Spec => []NoViewIsLeft
<1>1. Inv => NoViewIsLeft
  BY DEF Inv
<1> QED BY <1>1, Invariance, PTL

(* The tile of every pixel of the feature is asked for.                    *)
THEOREM Coverage == Spec => []FeatureIsCovered
<1>1. Inv => FeatureIsCovered
  <2> SUFFICES ASSUME Inv, Working PROVE FeatureIsCovered
    BY DEF FeatureIsCovered
  <2>1. feature \in Box /\ asked \union taken = TilesOf(feature)
    BY DEF Inv, TypeOK
  <2> QED BY <2>1, TilesOfBox DEF FeatureIsCovered
<1> QED BY <1>1, Invariance, PTL

(* At level 0, which the boxes are measured in, every tile asked for       *)
(* exists.                                                                 *)
THEOREM TilesExist ==
  ASSUME AskedLevels = {0}
  PROVE  Spec => []RequestedTilesExist
<1>1. Inv => RequestedTilesExist
  <2> SUFFICES ASSUME Inv, NEW t \in asked
               PROVE  /\ t[1] \in 0..NumberTiles(Image[level].rows) - 1
                      /\ t[2] \in 0..NumberTiles(Image[level].cols) - 1
    BY DEF RequestedTilesExist
  <2>1. level = 0 /\ feature \in Box
    BY DEF Inv, TypeOK
  <2>2. Working
    BY FeatureAssumption DEF Inv, NoViewIsLeft, Working
  <2>3. t \in TilesOf(feature)
    BY <2>2 DEF Inv
  <2>4. t \in (0..NumberTiles(Image[0].rows) - 1) \X (0..NumberTiles(Image[0].cols) - 1)
    BY <2>1, <2>3, TilesOfBox
  <2> QED BY <2>1, <2>4
<1> QED BY <1>1, Invariance, PTL

-----------------------------------------------------------------------------
(* One worker loses no increment: with what it will add, the count is the  *)
(* number of views taken.                                                  *)

ExactInv ==
  /\ Inv
  /\ numberTilesFeatureComputed + Cardinality(Busy) = Cardinality(taken)
  /\ \A w \in Worker : phase[w] = "writing" => seen[w] = numberTilesFeatureComputed

LEMMA ExactInvInit == Init => ExactInv
<1> SUFFICES ASSUME Init PROVE ExactInv
  OBVIOUS
<1>1. Cardinality({}) = 0
  BY FS_EmptySet
<1>2. /\ Busy = {} /\ taken = {} /\ numberTilesFeatureComputed = 0
      /\ \A w \in Worker : phase[w] # "writing"
  BY DEF Busy, Init
<1> QED BY <1>1, <1>2, InvInit DEF ExactInv

LEMMA ExactInvNext ==
  ASSUME NEW w0, Worker = {w0}, ExactInv, [Next]_vars
  PROVE  ExactInv'
<1>1. Inv /\ Inv'
  BY InvNext DEF ExactInv
<1>2. phase \in [Worker -> {"left", "testing", "taking", "reading", "writing"}] /\ seen \in [Worker -> Nat]
  BY <1>1 DEF Inv, TypeOK
<1> DEFINE Exact == /\ numberTilesFeatureComputed + Cardinality(Busy) = Cardinality(taken)
                    /\ \A w \in Worker : phase[w] = "writing" => seen[w] = numberTilesFeatureComputed
<1>3. Exact
  BY DEF ExactInv
<1>4. ASSUME UNCHANGED vars
      PROVE  Exact'
  BY <1>3, <1>4 DEF Busy, vars, counts
<1>5. ASSUME NEW b \in Box, NEW p \in AskedLevels, RequestFeature(b, p)
      PROVE  Exact'
  <2>1. /\ \A w \in Worker : phase'[w] = "testing"
        /\ taken' = {} /\ numberTilesFeatureComputed' = 0
    BY <1>5 DEF RequestFeature
  <2>2. Busy' = {} /\ Cardinality({}) = 0
    BY <2>1, FS_EmptySet DEF Busy
  <2> QED BY <2>1, <2>2
<1>6. ASSUME TestLoop(w0)
      PROVE  Exact'
  <2>1. /\ phase[w0] = "testing"
        /\ phase' = [phase EXCEPT ![w0] = IF IsFeatureDone THEN "left" ELSE "taking"]
        /\ UNCHANGED taken /\ UNCHANGED numberTilesFeatureComputed
    BY <1>6 DEF TestLoop, counts
  <2>2. Busy' = Busy /\ \A w \in Worker : phase'[w] # "writing"
    BY <1>2, <2>1 DEF Busy
  <2> QED BY <1>3, <2>1, <2>2
<1>7. ASSUME ConsumeData(w0)
      PROVE  Exact'
  <2>1. PICK t \in asked : taken' = taken \union {t}
    BY <1>7 DEF ConsumeData
  <2>2. /\ phase[w0] = "taking" /\ phase' = [phase EXCEPT ![w0] = "reading"]
        /\ UNCHANGED numberTilesFeatureComputed
    BY <1>7 DEF ConsumeData, counts
  <2>3. /\ Busy' = Busy \union {w0} /\ w0 \notin Busy
        /\ \A w \in Worker : phase'[w] # "writing"
    BY <1>2, <2>2 DEF Busy
  <2>4. Cardinality(Busy') = Cardinality(Busy) + 1
    BY <2>3, BusyIsFinite
  <2>5. Cardinality(taken') = Cardinality(taken) + 1
    <3>1. t \notin taken /\ IsFiniteSet(taken)
      BY <1>1 DEF Inv
    <3> QED BY <2>1, <3>1, FS_AddElement
  <2> QED BY <1>1, <1>3, <2>2, <2>3, <2>4, <2>5, InvFacts
<1>8. ASSUME ReadCount(w0)
      PROVE  Exact'
  <2>1. /\ phase[w0] = "reading" /\ phase' = [phase EXCEPT ![w0] = "writing"]
        /\ seen' = [seen EXCEPT ![w0] = numberTilesFeatureComputed]
        /\ UNCHANGED taken /\ UNCHANGED numberTilesFeatureComputed
    BY <1>8 DEF ReadCount, counts
  <2>2. Busy' = Busy /\ \A w \in Worker : seen'[w] = numberTilesFeatureComputed
    BY <1>2, <2>1 DEF Busy
  <2> QED BY <1>3, <2>1, <2>2
<1>9. ASSUME WriteCount(w0)
      PROVE  Exact'
  <2>1. /\ phase[w0] = "writing" /\ phase' = [phase EXCEPT ![w0] = "testing"]
        /\ numberTilesFeatureComputed' = seen[w0] + 1
        /\ UNCHANGED taken
    BY <1>9 DEF WriteCount
  <2>2. /\ Busy' = Busy \ {w0} /\ w0 \in Busy
        /\ \A w \in Worker : phase'[w] # "writing"
    BY <1>2, <2>1 DEF Busy
  <2>3. Cardinality(Busy') = Cardinality(Busy) - 1
    BY <2>2, BusyIsFinite
  <2>4. seen[w0] = numberTilesFeatureComputed
    BY <1>3, <2>1
  <2> QED BY <1>1, <1>3, <2>1, <2>2, <2>3, <2>4, InvFacts
<1>10. Exact'
  <2> HIDE DEF Exact
  <2>1. CASE UNCHANGED vars
    BY <1>4, <2>1
  <2>2. CASE \E b \in Box, p \in AskedLevels : RequestFeature(b, p)
    BY <1>5, <2>2
  <2>3. CASE WorkerStep(w0)
    BY <1>6, <1>7, <1>8, <1>9, <2>3 DEF WorkerStep
  <2> QED BY <2>1, <2>2, <2>3 DEF Next
<1> QED BY <1>1, <1>10 DEF ExactInv

(* One worker's count is exact between two increments.                     *)
THEOREM OneWorkerCounts ==
  ASSUME NEW w0, Worker = {w0}
  PROVE  Spec => []CountsViewsTaken
<1>1. ExactInv => CountsViewsTaken
  <2> SUFFICES ASSUME ExactInv, \A w \in Worker : phase[w] \notin {"reading", "writing"}
               PROVE  numberTilesFeatureComputed = Cardinality(taken)
    BY DEF CountsViewsTaken
  <2>1. Busy = {} /\ Cardinality({}) = 0
    BY FS_EmptySet DEF Busy
  <2>2. Inv
    BY DEF ExactInv
  <2> QED BY <2>1, <2>2, InvFacts DEF ExactInv
<1>2. ExactInv /\ [Next]_vars => ExactInv'
  BY ExactInvNext
<1> QED BY <1>1, <1>2, ExactInvInit, PTL DEF Spec
=============================================================================
