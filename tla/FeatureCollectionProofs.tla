----------------------- MODULE FeatureCollectionProofs ------------------------
(***************************************************************************)
(* Proofs about a feature collection and its lookup tree, for any features, *)
(* any order that sorting leaves them in, and any size of the tree's        *)
(* leaves: the tree finds every feature, a feature keeps its pixels whether *)
(* it comes from a blob, a user or a file, and what each call returns or    *)
(* writes is right.  The calls are put together in SegmentationProofs.      *)
(***************************************************************************)
EXTENDS FeatureCollection, CommonLemmas

-----------------------------------------------------------------------------
(* The inductive invariant of the tree.                                     *)

Node == [begin : Nat, end : Nat, aabb : [Dim -> SUBSET Int], objects : SUBSET Nat]

TreeTypeOK ==
  /\ features \in Seq(AnyFeature)
  /\ call \in {"none", "preprocess", "objectsContain"}
  /\ loop \in [node : Nat, nodesEnd : Nat, splitOccurred : BOOLEAN, splitDim : Dim]
  /\ DOMAIN tree \subseteq Nat
  /\ tree \in [DOMAIN tree -> Node]
  /\ tree # <<>> => 0 \in DOMAIN tree /\ tree[0].objects # {}

(* The tree has a place for every node of the level, and of the next one    *)
(* once a node was split.                                                   *)
LevelInv ==
  call = "preprocess" =>
    /\ DOMAIN tree = 0..(IF loop.splitOccurred THEN 2 * loop.nodesEnd ELSE loop.nodesEnd - 1)
    /\ loop.node <= loop.nodesEnd /\ loop.nodesEnd > 0
    /\ tree[0].objects = 1..Len(features)

RangeInv ==
  \A n \in DOMAIN tree :
    /\ tree[n].begin <= tree[n].end
    /\ tree[n].objects \subseteq 1..Len(features)
    /\ tree[n].objects \subseteq tree[0].objects
    /\ IsLeaf(n) \/ ~Built(n) => tree[n].objects = tree[n].begin + 1..tree[n].end

BoxInv ==
  \A n \in DOMAIN tree : Built(n) =>
    \A i \in tree[n].objects, dim \in Dim :
      MinCoord(features[i], dim)..MaxCoord(features[i], dim) \subseteq tree[n].aabb[dim]

ChildrenInv ==
  \A n \in DOMAIN tree : Built(n) /\ ~IsLeaf(n) /\ tree[n].objects # {} =>
    /\ {LowChild(n), HighChild(n)} \subseteq DOMAIN tree
    /\ tree[LowChild(n)].objects # {} /\ tree[HighChild(n)].objects # {}
    /\ tree[LowChild(n)].objects \union tree[HighChild(n)].objects = tree[n].objects
    /\ tree[LowChild(n)].objects \intersect tree[HighChild(n)].objects = {}

(* What a split moves lies within, or apart from, every node done before.   *)
ShareNothing(m, n) == tree[m].objects \intersect tree[n].objects = {}

ApartInv ==
  \A m, n \in DOMAIN tree : m < n /\ ~Built(n) =>
    ShareNothing(m, n) \/ (Built(m) /\ tree[n].objects \subseteq tree[m].objects)

(* A feature that is to be found is found, or lies below a node to check.   *)
Found == {i \in Indexed : ContainsPixel(features[i], point)}
Stacked == {nodesToCheck[k] : k \in 1..Len(nodesToCheck)}
Listed == {vObj[k] : k \in 1..Len(vObj)}
Unseen == leaf.objectIndex + 1..leaf.objectsEnd

SearchInv ==
  call = "objectsContain" =>
    /\ point \in Nat \X Nat
    /\ nodesToCheck \in Seq(DOMAIN tree)
    /\ \A n \in Stacked : tree[n].objects # {}
    /\ leaf \in [objectIndex : Nat, objectsEnd : Nat]
    /\ Unseen \subseteq Indexed
    /\ vObj \in Seq(Nat)
    /\ Listed \subseteq Found
    /\ Found \subseteq Listed \union Unseen \union UNION {tree[n].objects : n \in Stacked}

LookupInv == TreeTypeOK /\ LevelInv /\ RangeInv /\ BoxInv /\ ChildrenInv /\ ApartInv /\ SearchInv

-----------------------------------------------------------------------------
(* Coordinates, boxes and sorting.                                          *)

LEMMA Coordinates ==
  ASSUME NEW f \in AnyFeature, NEW dim \in Dim
  PROVE  /\ MinCoord(f, dim) \in Int /\ MaxCoord(f, dim) \in Int
         /\ \A p \in Nat \X Nat :
              ContainsPixel(f, p) => Coord(p, dim) \in MinCoord(f, dim)..MaxCoord(f, dim)
<1>1. /\ f.box.ulRow \in Nat /\ f.box.ulCol \in Nat
      /\ f.box.brRow \in Nat /\ f.box.brCol \in Nat
  BY DEF AnyFeature
<1>2. MinCoord(f, dim) \in Int /\ MaxCoord(f, dim) \in Int
  BY <1>1 DEF MinCoord, MaxCoord, Height, Width
<1>3. ASSUME NEW p \in Nat \X Nat, ContainsPixel(f, p)
      PROVE  Coord(p, dim) \in MinCoord(f, dim)..MaxCoord(f, dim)
  <2>1. p[1] \in Nat /\ p[2] \in Nat
    OBVIOUS
  <2> QED
    BY <1>1, <1>3, <2>1 DEF ContainsPixel, Coord, MinCoord, MaxCoord, Height, Width, Dim
<1> QED
  BY <1>2, <1>3

(* A range after sorting: every place of it has a feature that was in it.   *)
LEMMA SortedRange ==
  ASSUME features \in Seq(AnyFeature), NEW S, S \subseteq 1..Len(features), NEW dim,
         NEW s \in Sorted(S, dim)
  PROVE  /\ s \in Seq(AnyFeature) /\ Len(s) = Len(features)
         /\ \A i \in S : \E j \in S : s[i] = features[j]
         /\ \A i \in 1..Len(features) : i \notin S => s[i] = features[i]
<1>1. PICK f \in Permutation(S) :
        s = [i \in 1..Len(features) |-> features[IF i \in S THEN f[i] ELSE i]]
  BY DEF Sorted
<1>2. f \in [S -> S]
  BY DEF Permutation
<1>3. /\ \A i \in 1..Len(features) : s[i] = features[IF i \in S THEN f[i] ELSE i]
      /\ \A i \in S : s[i] = features[f[i]] /\ f[i] \in S
  BY <1>1, <1>2
<1>4. s \in [1..Len(features) -> AnyFeature]
  <2>1. \A i \in 1..Len(features) : (IF i \in S THEN f[i] ELSE i) \in 1..Len(features)
    BY <1>2
  <2>2. \A j \in 1..Len(features) : features[j] \in AnyFeature
    OBVIOUS
  <2> QED
    BY <1>1, <2>1, <2>2
<1>5. s \in Seq(AnyFeature) /\ Len(s) = Len(features)
  <2>1. Len(features) \in Nat
    OBVIOUS
  <2> QED
    BY <1>4, <2>1
<1> QED
  BY <1>3, <1>5

(* The box of a set of features holds each of them.                         *)
LEMMA BoundsHold ==
  ASSUME features \in Seq(AnyFeature), NEW S, S \subseteq 1..Len(features), NEW dim \in Dim
  PROVE  /\ Bounds(S, dim) \subseteq Int
         /\ \A i \in S : MinCoord(features[i], dim)..MaxCoord(features[i], dim)
                           \subseteq Bounds(S, dim)
<1>1. \A i \in S : MinCoord(features[i], dim) \in Int /\ MaxCoord(features[i], dim) \in Int
  <2>1. \A i \in S : features[i] \in AnyFeature
    OBVIOUS
  <2> QED
    BY <2>1, Coordinates
<1> QED
  BY <1>1 DEF Bounds

-----------------------------------------------------------------------------
(* The invariant holds at first, and steps that touch no node keep it.      *)

LEMMA EmptyTree ==
  ASSUME tree = <<>>
  PROVE  DOMAIN tree = {} /\ tree \in [DOMAIN tree -> Node] /\ Indexed = {}
BY DEF Indexed

LEMMA InitInv == TreeInit => LookupInv
<1> SUFFICES ASSUME TreeInit PROVE LookupInv
  OBVIOUS
<1> USE DEF TreeInit
<1>1. DOMAIN tree = {} /\ tree \in [DOMAIN tree -> Node]
  BY EmptyTree
<1>2. TreeTypeOK
  BY <1>1 DEF TreeTypeOK, FirstLevel, Dim
<1> QED
  BY <1>1, <1>2 DEF LookupInv, LevelInv, RangeInv, BoxInv, ChildrenInv, ApartInv, SearchInv

(* The part of the invariant about the tree does not depend on the query.   *)
TreeInv == TreeTypeOK /\ LevelInv /\ RangeInv /\ BoxInv /\ ChildrenInv /\ ApartInv

LEMMA OutsidePreprocess ==
  ASSUME TreeInv, call \in {"none", "objectsContain"}, call' \in {"none", "objectsContain"},
         UNCHANGED <<features, tree, loop>>
  PROVE  TreeInv'
<1> USE DEF TreeInv
<1>1. TreeTypeOK' /\ LevelInv'
  BY DEF TreeTypeOK, LevelInv
<1>2. \A n : Built(n) /\ Built(n)' /\ (IsLeaf(n)' <=> IsLeaf(n))
  BY DEF Built, IsLeaf
<1>3. RangeInv'
  BY <1>2 DEF RangeInv, LowChild
<1>4. BoxInv'
  BY <1>2 DEF BoxInv
<1>5. ChildrenInv'
  BY <1>2 DEF ChildrenInv
<1>6. ApartInv'
  BY <1>2 DEF ApartInv
<1> QED
  BY <1>1, <1>3, <1>4, <1>5, <1>6

(* New features at the end of the vector.                                   *)
LEMMA ChangeVectorKeepsInv ==
  ASSUME LookupInv, ChangeVector PROVE LookupInv'
<1> USE DEF ChangeVector
<1>1. features' \in Seq(AnyFeature) /\ call = "none" /\ UNCHANGED <<call, loop, queryVars>>
  OBVIOUS
<1>2. SearchInv'
  BY <1>1 DEF SearchInv
<1>3. CASE tree' = <<>>
  <2>1. DOMAIN tree' = {} /\ tree' \in [DOMAIN tree' -> Node]
    BY <1>3
  <2>2. TreeTypeOK' /\ LevelInv'
    BY <1>1, <1>3, <2>1 DEF LookupInv, TreeTypeOK, LevelInv
  <2> QED
    BY <1>2, <2>1, <2>2 DEF LookupInv, RangeInv, BoxInv, ChildrenInv, ApartInv
<1>4. CASE tree' = tree /\ StartsWith(features', features)
  <2>1. TreeTypeOK' /\ LevelInv'
    BY <1>1, <1>4 DEF LookupInv, TreeTypeOK, LevelInv
  <2>2. \A n : Built(n) /\ Built(n)' /\ (IsLeaf(n)' <=> IsLeaf(n))
    BY <1>1, <1>4 DEF Built, IsLeaf
  <2>3. /\ 1..Len(features) \subseteq 1..Len(features')
        /\ \A i \in 1..Len(features) : features'[i] = features[i]
    BY <1>1, <1>4 DEF StartsWith, LookupInv, TreeTypeOK
  <2>4. RangeInv'
    BY <1>4, <2>2, <2>3 DEF LookupInv, RangeInv
  <2>5. BoxInv'
    <3> SUFFICES ASSUME NEW n \in DOMAIN tree, NEW i \in tree[n].objects, NEW dim \in Dim
                 PROVE  MinCoord(features'[i], dim)..MaxCoord(features'[i], dim)
                          \subseteq tree[n].aabb[dim]
      BY <1>4 DEF BoxInv
    <3>1. features'[i] = features[i]
      BY <2>3 DEF LookupInv, RangeInv
    <3> QED
      BY <2>2, <3>1 DEF LookupInv, BoxInv
  <2>6. ChildrenInv' /\ ApartInv'
    BY <1>4, <2>2 DEF LookupInv, ChildrenInv, ApartInv
  <2> QED
    BY <1>2, <2>1, <2>4, <2>5, <2>6 DEF LookupInv
<1> QED
  BY <1>3, <1>4

-----------------------------------------------------------------------------
(* Building the tree.                                                       *)

LEMMA NewNodes ==
  /\ \A b, e \in Nat :
       /\ NodeOf(b, e) \in Node
       /\ NodeOf(b, e).begin = b /\ NodeOf(b, e).end = e /\ NodeOf(b, e).objects = b + 1..e
  /\ NewNode \in Node /\ NewNode.objects = {} /\ NewNode.begin = 0 /\ NewNode.end = 0
<1>1. ASSUME NEW b \in Nat, NEW e \in Nat
      PROVE  /\ NodeOf(b, e) \in Node
             /\ NodeOf(b, e).begin = b /\ NodeOf(b, e).end = e /\ NodeOf(b, e).objects = b + 1..e
  BY DEF NodeOf, Node, Dim
<1> QED
  BY <1>1 DEF NewNode

LEMMA PreprocessKeepsInv ==
  ASSUME LookupInv, features' \in Seq(AnyFeature), Preprocess(features') PROVE LookupInv'
<1> DEFINE N == Len(features')
<1> USE DEF Preprocess
<1>1. N \in Nat
  OBVIOUS
<1>2. SearchInv'
  BY DEF SearchInv
<1>3. loop' \in [node : Nat, nodesEnd : Nat, splitOccurred : BOOLEAN, splitDim : Dim]
  BY DEF FirstLevel, Dim
<1>4. CASE features' = <<>>
  <2>1. tree' = <<>> /\ call' = "none"
    BY <1>4
  <2>2. DOMAIN tree' = {} /\ tree' \in [DOMAIN tree' -> Node]
    BY <2>1
  <2>3. TreeTypeOK' /\ LevelInv'
    BY <1>3, <2>1, <2>2 DEF TreeTypeOK, LevelInv
  <2> QED
    BY <1>2, <2>2, <2>3 DEF LookupInv, RangeInv, BoxInv, ChildrenInv, ApartInv
<1>5. CASE features' # <<>>
  <2>1. tree' = [n \in {0} |-> NodeOf(0, N)] /\ call' = "preprocess" /\ loop' = FirstLevel
    BY <1>5
  <2>2. DOMAIN tree' = {0} /\ tree'[0] = NodeOf(0, N)
    BY <2>1
  <2>3. /\ tree'[0] \in Node /\ tree'[0].begin = 0 /\ tree'[0].end = N
        /\ tree'[0].objects = 1..N
    BY <1>1, <2>2, NewNodes
  <2>10. N > 0 /\ 1 \in tree'[0].objects
    <3>1. N > 0
      BY <1>1, <1>5
    <3> QED
      BY <1>1, <2>3, <3>1
  <2>4. TreeTypeOK'
    BY <1>3, <2>1, <2>2, <2>3, <2>10 DEF TreeTypeOK
  <2>5. LevelInv'
    BY <1>1, <2>1, <2>2, <2>3 DEF LevelInv, FirstLevel
  <2>6. ~Built(0)'
    BY <2>1 DEF Built, FirstLevel
  <2>7. RangeInv' /\ ApartInv'
    BY <1>1, <2>2, <2>3 DEF RangeInv, ApartInv
  <2>8. BoxInv' /\ ChildrenInv'
    BY <2>2, <2>6 DEF BoxInv, ChildrenInv
  <2> QED
    BY <1>2, <2>4, <2>5, <2>7, <2>8 DEF LookupInv
<1> QED
  BY <1>4, <1>5

(* What computeAABBBounds changes.                                          *)
LEMMA ComputedBox ==
  ASSUME TreeTypeOK, RangeInv, NEW n \in DOMAIN tree, ~Built(n)
  PROVE  /\ ComputeAABBBounds(n) \in [DOMAIN tree -> Node]
         /\ \A m \in DOMAIN tree :
              /\ ComputeAABBBounds(n)[m].begin = tree[m].begin
              /\ ComputeAABBBounds(n)[m].end = tree[m].end
              /\ ComputeAABBBounds(n)[m].objects = tree[m].objects
              /\ m # n => ComputeAABBBounds(n)[m] = tree[m]
         /\ ComputeAABBBounds(n)[n].aabb \in [Dim -> SUBSET Int]
         /\ \A i \in tree[n].objects, dim \in Dim :
              MinCoord(features[i], dim)..MaxCoord(features[i], dim)
                \subseteq ComputeAABBBounds(n)[n].aabb[dim]
<1> DEFINE S == tree[n].objects
           box == [dim \in Dim |-> Bounds(S, dim)]
<1>1. S = tree[n].begin + 1..tree[n].end /\ S \subseteq 1..Len(features)
  BY DEF RangeInv
<1>2. features \in Seq(AnyFeature) /\ tree \in [DOMAIN tree -> Node]
  BY DEF TreeTypeOK
<1>3. \A dim \in Dim : /\ Bounds(S, dim) \subseteq Int
                       /\ \A i \in S : MinCoord(features[i], dim)..MaxCoord(features[i], dim)
                                         \subseteq Bounds(S, dim)
  BY <1>1, <1>2, BoundsHold
<1>4. ComputeAABBBounds(n) = [tree EXCEPT ![n].aabb = box]
  BY <1>1 DEF ComputeAABBBounds
<1>5. box \in [Dim -> SUBSET Int] /\ \A dim \in Dim : box[dim] = Bounds(S, dim)
  BY <1>3
<1> HIDE DEF box, S
<1>6. /\ ComputeAABBBounds(n) \in [DOMAIN tree -> Node]
      /\ ComputeAABBBounds(n)[n].aabb = box
      /\ \A m \in DOMAIN tree :
           /\ ComputeAABBBounds(n)[m].begin = tree[m].begin
           /\ ComputeAABBBounds(n)[m].end = tree[m].end
           /\ ComputeAABBBounds(n)[m].objects = tree[m].objects
           /\ m # n => ComputeAABBBounds(n)[m] = tree[m]
  BY <1>2, <1>4, <1>5 DEF Node
<1> QED
  BY <1>3, <1>5, <1>6 DEF S

LEMMA KeepNodeKeepsInv ==
  ASSUME LookupInv, KeepNode PROVE LookupInv'
<1> DEFINE k == loop.node
<1> USE DEF KeepNode
<1>1. /\ call = "preprocess" /\ call' = call /\ UNCHANGED <<features, queryVars>>
      /\ tree' = ComputeAABBBounds(k) /\ k < loop.nodesEnd
      /\ loop' = [loop EXCEPT !.node = k + 1]
  BY DEF InLevel
<1>2. /\ k \in Nat /\ loop' \in [node : Nat, nodesEnd : Nat, splitOccurred : BOOLEAN, splitDim : Dim]
      /\ loop'.node = k + 1 /\ loop'.nodesEnd = loop.nodesEnd
      /\ loop'.splitOccurred = loop.splitOccurred /\ loop.nodesEnd \in Nat
  BY <1>1 DEF LookupInv, TreeTypeOK
<1>3. k \in DOMAIN tree /\ ~Built(k) /\ DOMAIN tree \subseteq Nat
  BY <1>1, <1>2 DEF LookupInv, TreeTypeOK, LevelInv, Built
<1>4. /\ tree' \in [DOMAIN tree -> Node] /\ DOMAIN tree' = DOMAIN tree
      /\ \A m \in DOMAIN tree :
           /\ tree'[m].begin = tree[m].begin /\ tree'[m].end = tree[m].end
           /\ tree'[m].objects = tree[m].objects
           /\ m # k => tree'[m] = tree[m]
      /\ \A i \in tree[k].objects, dim \in Dim :
           MinCoord(features[i], dim)..MaxCoord(features[i], dim) \subseteq tree'[k].aabb[dim]
  BY <1>1, <1>3, ComputedBox DEF LookupInv
<1> HIDE DEF k, KeepNode
<1>5. \A m \in DOMAIN tree : /\ Built(m)' <=> Built(m) \/ m = k
                             /\ IsLeaf(m)' <=> IsLeaf(m)
  BY <1>1, <1>2, <1>3, <1>4 DEF Built, IsLeaf, k
<1>6. 0 \in DOMAIN tree /\ tree[0].objects # {}
  BY <1>1, <1>2, <1>3 DEF LookupInv, LevelInv, TreeTypeOK
<1>7. TreeTypeOK' /\ LevelInv' /\ SearchInv'
  <2>1. tree'[0].objects = tree[0].objects
    BY <1>4, <1>6
  <2>2. TreeTypeOK' /\ SearchInv'
    BY <1>1, <1>2, <1>4, <1>6, <2>1 DEF LookupInv, TreeTypeOK, SearchInv
  <2>3. LevelInv'
    BY <1>1, <1>2, <1>4, <2>1 DEF LookupInv, LevelInv, k
  <2> QED
    BY <2>2, <2>3
<1>8. RangeInv'
  BY <1>1, <1>4, <1>5, <1>6 DEF LookupInv, RangeInv
<1>9. BoxInv'
  BY <1>1, <1>4, <1>5 DEF LookupInv, BoxInv
<1>10. ChildrenInv'
  <2>1. \A m \in DOMAIN tree : Built(m)' /\ ~IsLeaf(m)' /\ tree'[m].objects # {} =>
          Built(m) /\ ~IsLeaf(m) /\ tree[m].objects # {}
    <3>1. ~IsLeaf(k) => tree[k].objects = {}
      <4>1. tree[k].objects = tree[k].begin + 1..tree[k].end /\ tree[k].begin \in Nat
        BY <1>3 DEF LookupInv, RangeInv, TreeTypeOK, Node
      <4> QED
        BY <4>1 DEF IsLeaf
    <3> QED
      BY <1>3, <1>4, <1>5, <3>1
  <2> QED
    BY <1>4, <2>1 DEF LookupInv, ChildrenInv
<1>11. ApartInv'
  BY <1>3, <1>4, <1>5 DEF LookupInv, ApartInv, ShareNothing
<1> QED
  BY <1>7, <1>8, <1>9, <1>10, <1>11 DEF LookupInv

LEMMA EndLevelKeepsInv ==
  ASSUME LookupInv, EndLevel PROVE LookupInv'
<1> USE DEF EndLevel
<1>1. /\ call = "preprocess" /\ loop.node = loop.nodesEnd
      /\ UNCHANGED <<features, tree, queryVars>>
      /\ loop.node \in Nat /\ loop.splitOccurred \in BOOLEAN /\ loop.splitDim \in Dim
      /\ DOMAIN tree \subseteq Nat
  BY DEF LookupInv, TreeTypeOK
<1>2. \A m : IsLeaf(m)' <=> IsLeaf(m)
  BY <1>1 DEF IsLeaf
<1>3. CASE loop.splitOccurred
  <2>1. /\ loop' = [node |-> loop.node, nodesEnd |-> 2 * loop.nodesEnd + 1,
                    splitOccurred |-> FALSE, splitDim |-> 1 - loop.splitDim]
        /\ call' = call
    BY <1>3
  <2>2. loop' \in [node : Nat, nodesEnd : Nat, splitOccurred : BOOLEAN, splitDim : Dim]
    BY <1>1, <2>1 DEF Dim
  <2>3. TreeTypeOK' /\ LevelInv' /\ SearchInv'
    BY <1>1, <1>3, <2>1, <2>2 DEF LookupInv, TreeTypeOK, LevelInv, SearchInv
  <2>4. \A m : Built(m)' <=> Built(m)
    BY <2>1 DEF Built
  <2> QED
    BY <1>1, <1>2, <2>3, <2>4 DEF LookupInv, RangeInv, BoxInv, ChildrenInv, ApartInv, ShareNothing
<1>4. CASE ~loop.splitOccurred
  <2>1. loop' = FirstLevel /\ call' = "none"
    BY <1>4
  <2>2. TreeTypeOK' /\ LevelInv' /\ SearchInv'
    BY <1>1, <2>1 DEF LookupInv, TreeTypeOK, LevelInv, SearchInv, FirstLevel, Dim
  <2>3. \A m \in DOMAIN tree : Built(m) /\ Built(m)'
    BY <1>1, <1>4, <2>1 DEF LookupInv, LevelInv, Built
  <2> QED
    BY <1>1, <1>2, <2>2, <2>3 DEF LookupInv, RangeInv, BoxInv, ChildrenInv, ApartInv, ShareNothing
<1> QED
  BY <1>1, <1>3, <1>4

(* A range cut in two.                                                      *)
LEMMA Halves ==
  ASSUME NEW b \in Nat, NEW x \in Nat, NEW e \in Nat, b < x, x < e
  PROVE  /\ b + 1..x # {} /\ x + 1..e # {}
         /\ (b + 1..x) \union (x + 1..e) = b + 1..e
         /\ (b + 1..x) \intersect (x + 1..e) = {}
<1> DEFINE A == b + 1..x
           B == x + 1..e
           C == b + 1..e
<1>1. /\ \A z : z \in A <=> z \in Int /\ b < z /\ z <= x
      /\ \A z : z \in B <=> z \in Int /\ x < z /\ z <= e
      /\ \A z : z \in C <=> z \in Int /\ b < z /\ z <= e
  OBVIOUS
<1> HIDE DEF A, B, C
<1>2. x \in A /\ e \in B
  BY <1>1
<1>3. \A z : z \in A \union B <=> z \in C
  BY <1>1
<1>4. \A z : z \notin A \intersect B
  BY <1>1
<1>5. A # {} /\ B # {} /\ A \union B = C /\ A \intersect B = {}
  BY <1>2, <1>3, <1>4
<1> QED
  BY <1>5 DEF A, B, C

(* The nodes there are after a split.                                       *)
LEMMA SplitTree ==
  ASSUME LookupInv, InLevel, Size(loop.node) > MaxNodeSize
  PROVE  LET k == loop.node
             L == LowChild(k)
             H == HighChild(k)
             t == SplitAABBNode(k)
         IN  /\ Resized = 0..2 * loop.nodesEnd
             /\ DOMAIN tree \subseteq Resized /\ {L, H} \subseteq Resized
             /\ t \in [Resized -> Node]
             /\ t[k].begin = t[k].end /\ t[k].objects = tree[k].objects
             /\ t[k].aabb = ComputeAABBBounds(k)[k].aabb
             /\ t[L].begin <= t[L].end /\ t[L].objects = t[L].begin + 1..t[L].end
             /\ t[H].begin <= t[H].end /\ t[H].objects = t[H].begin + 1..t[H].end
             /\ t[L].objects # {} /\ t[H].objects # {}
             /\ t[L].objects \union t[H].objects = tree[k].objects
             /\ t[L].objects \intersect t[H].objects = {}
             /\ \A m \in Resized : m \notin {k, L, H} =>
                  t[m] = IF m \in DOMAIN tree THEN tree[m] ELSE NewNode
<1> DEFINE k == loop.node
           L == LowChild(k)
           H == HighChild(k)
           t == SplitAABBNode(k)
           M == IF loop.splitOccurred THEN 2 * loop.nodesEnd ELSE loop.nodesEnd - 1
           middle == tree[k].begin + Size(k) \div 2
<1>1. /\ k \in Nat /\ loop.nodesEnd \in Nat /\ k < loop.nodesEnd
      /\ loop.splitOccurred \in BOOLEAN /\ DOMAIN tree = 0..M
  BY DEF LookupInv, TreeTypeOK, LevelInv, InLevel
<1>2. M \in Nat /\ M <= 2 * loop.nodesEnd /\ k <= M
  BY <1>1
<1>3. Resized = 0..2 * loop.nodesEnd
  <2>1. Cardinality(DOMAIN tree) = M + 1
    <3> HIDE DEF M
    <3>1. Cardinality(0..M) = IF 0 > M THEN 0 ELSE M - 0 + 1
      BY <1>2, FS_Interval
    <3> QED
      BY <1>1, <1>2, <3>1
  <2> QED
    BY <1>1, <2>1 DEF Resized
<1>4. /\ L \in Nat /\ H \in Nat /\ L > k /\ H > k /\ L # H
      /\ L <= 2 * loop.nodesEnd /\ H <= 2 * loop.nodesEnd
  BY <1>1 DEF LowChild, HighChild
<1>5. /\ k \in DOMAIN tree /\ ~Built(k) /\ tree[k] \in Node
      /\ ComputeAABBBounds(k)[k] \in Node
      /\ ComputeAABBBounds(k)[k].objects = tree[k].objects
  <2>1. k \in DOMAIN tree /\ ~Built(k)
    BY <1>1, <1>2 DEF InLevel, Built
  <2> QED
    BY <2>1, ComputedBox DEF LookupInv, TreeTypeOK
<1>6. /\ tree[k].begin \in Nat /\ tree[k].end \in Nat
      /\ tree[k].objects = tree[k].begin + 1..tree[k].end
  BY <1>5 DEF Node, LookupInv, RangeInv
<1>7. middle \in Nat /\ tree[k].begin < middle /\ middle < tree[k].end
  <2>1. Size(k) \in Nat /\ Size(k) > 1 /\ tree[k].end = tree[k].begin + Size(k)
    BY <1>6, NodeAssumption DEF Size
  <2>2. Size(k) \div 2 \in Nat /\ 0 < Size(k) \div 2 /\ Size(k) \div 2 < Size(k)
    <3> DEFINE z == Size(k)
    <3> HIDE DEF z
    <3>1. z \in Nat /\ z > 1 => z \div 2 \in Nat /\ 0 < z \div 2 /\ z \div 2 < z
      OBVIOUS
    <3> QED
      BY <2>1, <3>1 DEF z
  <2> QED
    BY <1>6, <2>1, <2>2
<1>8. t = [m \in Resized |->
             IF m = k THEN [ComputeAABBBounds(k)[k] EXCEPT !.begin = 0, !.end = 0]
             ELSE IF m = L THEN NodeOf(tree[k].begin, middle)
             ELSE IF m = H THEN NodeOf(middle, tree[k].end)
             ELSE IF m \in DOMAIN tree THEN tree[m] ELSE NewNode]
  BY DEF SplitAABBNode
<1>9. k \in Resized /\ DOMAIN tree \subseteq Resized /\ {L, H} \subseteq Resized
  BY <1>1, <1>2, <1>3, <1>4
<1> HIDE DEF t, L, H, M, middle, k
<1>10. /\ t[k] = [ComputeAABBBounds(k)[k] EXCEPT !.begin = 0, !.end = 0]
       /\ t[L] = NodeOf(tree[k].begin, middle) /\ t[H] = NodeOf(middle, tree[k].end)
       /\ \A m \in Resized : m \notin {k, L, H} =>
            t[m] = IF m \in DOMAIN tree THEN tree[m] ELSE NewNode
  BY <1>1, <1>4, <1>8, <1>9
<1>11. /\ t[k] \in Node /\ t[k].begin = 0 /\ t[k].end = 0 /\ t[k].objects = tree[k].objects
       /\ t[k].aabb = ComputeAABBBounds(k)[k].aabb
  <2> DEFINE c == ComputeAABBBounds(k)[k]
  <2>1. c \in Node /\ t[k] = [c EXCEPT !.begin = 0, !.end = 0] /\ c.objects = tree[k].objects
    BY <1>5, <1>10
  <2> HIDE DEF c
  <2>2. t[k] = [begin |-> 0, end |-> 0, aabb |-> c.aabb, objects |-> c.objects]
    BY <2>1 DEF Node
  <2> QED
    BY <2>1, <2>2 DEF Node, c
<1>12. /\ t[L] \in Node /\ t[L].begin = tree[k].begin /\ t[L].end = middle
       /\ t[L].objects = tree[k].begin + 1..middle
       /\ t[H] \in Node /\ t[H].begin = middle /\ t[H].end = tree[k].end
       /\ t[H].objects = middle + 1..tree[k].end
  BY <1>6, <1>7, <1>10, NewNodes
<1>13. t \in [Resized -> Node]
  <2>1. \A m \in Resized : t[m] \in Node
    BY <1>10, <1>11, <1>12, NewNodes DEF LookupInv, TreeTypeOK
  <2> QED
    BY <1>8, <2>1
<1>14. /\ t[L].objects # {} /\ t[H].objects # {}
       /\ t[L].objects \union t[H].objects = tree[k].objects
       /\ t[L].objects \intersect t[H].objects = {}
  BY <1>6, <1>7, <1>12, Halves
<1> QED
  BY <1>3, <1>6, <1>7, <1>9, <1>10, <1>11, <1>12, <1>13, <1>14 DEF t, L, H, k

LEMMA SplitNodeKeepsInv ==
  ASSUME LookupInv, SplitNode PROVE LookupInv'
<1> DEFINE k == loop.node
           L == LowChild(k)
           H == HighChild(k)
           S == tree[k].objects
<1>1. /\ InLevel /\ Size(k) > MaxNodeSize /\ call = "preprocess" /\ call' = call
      /\ features' \in Sorted(tree[k].begin + 1..tree[k].end, loop.splitDim)
      /\ tree' = SplitAABBNode(k) /\ UNCHANGED queryVars /\ k < loop.nodesEnd
      /\ loop' = [loop EXCEPT !.node = k + 1, !.splitOccurred = TRUE]
  BY DEF SplitNode, InLevel
<1>2. /\ k \in Nat /\ loop.nodesEnd \in Nat
      /\ loop' \in [node : Nat, nodesEnd : Nat, splitOccurred : BOOLEAN, splitDim : Dim]
      /\ loop'.node = k + 1 /\ loop'.nodesEnd = loop.nodesEnd /\ loop'.splitOccurred = TRUE
  <2>1. loop \in [node : Nat, nodesEnd : Nat, splitOccurred : BOOLEAN, splitDim : Dim]
    BY DEF LookupInv, TreeTypeOK
  <2>2. loop' = [node |-> k + 1, nodesEnd |-> loop.nodesEnd,
                 splitOccurred |-> TRUE, splitDim |-> loop.splitDim]
    BY <1>1, <2>1
  <2> QED
    BY <2>1, <2>2
<1>3. /\ 0..k \subseteq DOMAIN tree /\ {0, k} \subseteq DOMAIN tree /\ DOMAIN tree \subseteq Nat
      /\ \A m \in DOMAIN tree : Built(m) <=> m < k
      /\ loop.nodesEnd > 0 /\ loop.node <= loop.nodesEnd /\ tree[0].objects = 1..Len(features)
  BY <1>1, <1>2 DEF LookupInv, TreeTypeOK, LevelInv, Built
<1>4. S = tree[k].begin + 1..tree[k].end /\ S \subseteq 1..Len(features)
  BY <1>3 DEF LookupInv, RangeInv
<1>5. /\ DOMAIN tree' = 0..2 * loop.nodesEnd /\ DOMAIN tree \subseteq DOMAIN tree'
      /\ {L, H} \subseteq DOMAIN tree' /\ tree' \in [DOMAIN tree' -> Node]
      /\ tree'[k].begin = tree'[k].end /\ tree'[k].objects = S
      /\ tree'[k].aabb = ComputeAABBBounds(k)[k].aabb
      /\ tree'[L].begin <= tree'[L].end /\ tree'[L].objects = tree'[L].begin + 1..tree'[L].end
      /\ tree'[H].begin <= tree'[H].end /\ tree'[H].objects = tree'[H].begin + 1..tree'[H].end
      /\ tree'[L].objects # {} /\ tree'[H].objects # {}
      /\ tree'[L].objects \union tree'[H].objects = S
      /\ tree'[L].objects \intersect tree'[H].objects = {}
      /\ \A m \in DOMAIN tree' : m \notin {k, L, H} =>
           tree'[m] = IF m \in DOMAIN tree THEN tree[m] ELSE NewNode
  BY <1>1, SplitTree
<1>6. /\ features' \in Seq(AnyFeature) /\ Len(features') = Len(features)
      /\ \A i \in S : \E j \in S : features'[i] = features[j]
      /\ \A i \in 1..Len(features) : i \notin S => features'[i] = features[i]
  <2>1. features \in Seq(AnyFeature) /\ features' \in Sorted(S, loop.splitDim)
    BY <1>1, <1>4 DEF LookupInv, TreeTypeOK
  <2> DEFINE s == features'
  <2> HIDE DEF S, k, L, H
  <2>2. s \in Sorted(S, loop.splitDim) /\ S \subseteq 1..Len(features)
    BY <1>4, <2>1
  <2> HIDE DEF s
  <2>3. /\ s \in Seq(AnyFeature) /\ Len(s) = Len(features)
        /\ \A i \in S : \E j \in S : s[i] = features[j]
        /\ \A i \in 1..Len(features) : i \notin S => s[i] = features[i]
    BY <2>1, <2>2, SortedRange
  <2> QED
    BY <2>3 DEF s
<1>7. L \in Nat /\ H \in Nat /\ L = 2 * k + 1 /\ H = 2 * k + 2
  BY <1>2 DEF LowChild, HighChild
<1>8. \A i \in S, dim \in Dim :
        MinCoord(features[i], dim)..MaxCoord(features[i], dim) \subseteq tree'[k].aabb[dim]
  BY <1>3, <1>5, ComputedBox DEF LookupInv
<1> HIDE DEF k, L, H, S
<1>9. \A m \in DOMAIN tree' : Built(m)' <=> m <= k
  BY <1>1, <1>2, <1>5 DEF Built
<1>10. \A m \in DOMAIN tree' : IsLeaf(m)' <=> tree'[m].begin # tree'[m].end
  BY DEF IsLeaf
(* The nodes that were there keep their features, the new ones have none.   *)
<1>11. /\ \A m \in DOMAIN tree : m \notin {L, H} => tree'[m].objects = tree[m].objects
       /\ \A m \in DOMAIN tree' : m \notin {L, H} =>
            \/ m \in DOMAIN tree /\ tree'[m].objects = tree[m].objects
            \/ m > k /\ tree'[m].objects = {}
  <2>1. ASSUME NEW m \in DOMAIN tree, m \notin {L, H}
        PROVE  tree'[m].objects = tree[m].objects
    <3>1. CASE m = k
      BY <1>5, <3>1 DEF S
    <3>2. CASE m # k
      BY <1>5, <2>1, <3>2
    <3> QED
      BY <3>1, <3>2
  <2>2. ASSUME NEW m \in DOMAIN tree', m \notin {L, H}, m \notin DOMAIN tree
        PROVE  m > k /\ tree'[m].objects = {}
    <3>1. m \in Nat /\ m \notin 0..k /\ m # k
      BY <1>2, <1>3, <1>5, <2>2
    <3>2. tree'[m] = NewNode
      BY <1>5, <2>2, <3>1
    <3> QED
      BY <1>2, <3>1, <3>2, NewNodes
  <2> QED
    BY <2>1, <2>2
<1>12. 0 \in DOMAIN tree' /\ 0 \notin {L, H} /\ tree'[0].objects = tree[0].objects
  BY <1>2, <1>3, <1>5, <1>7, <1>11
<1>13. TreeTypeOK' /\ LevelInv' /\ SearchInv'
  <2>1. tree[0].objects # {}
    BY <1>3 DEF LookupInv, TreeTypeOK
  <2> QED
    BY <1>1, <1>2, <1>3, <1>5, <1>6, <1>12, <2>1 DEF LookupInv, TreeTypeOK, LevelInv, SearchInv, k
<1>14. RangeInv'
  <2> SUFFICES ASSUME NEW m \in DOMAIN tree'
               PROVE  /\ tree'[m].begin <= tree'[m].end
                      /\ tree'[m].objects \subseteq 1..Len(features')
                      /\ tree'[m].objects \subseteq tree'[0].objects
                      /\ IsLeaf(m)' \/ ~Built(m)' =>
                           tree'[m].objects = tree'[m].begin + 1..tree'[m].end
    BY DEF RangeInv
  <2>1. S \subseteq tree[0].objects
    BY <1>3 DEF LookupInv, RangeInv, S
  <2>2. CASE m = k
    <3>1. Built(m)' /\ ~IsLeaf(m)'
      BY <1>2, <1>5, <1>9, <1>10, <2>2
    <3>2. tree'[m].begin \in Nat
      BY <1>5 DEF Node
    <3>3. tree'[m].begin <= tree'[m].end /\ tree'[m].objects = S
      BY <1>5, <2>2, <3>2
    <3> QED
      BY <1>4, <1>6, <1>12, <2>1, <3>1, <3>3
  <2>3. CASE m \in {L, H}
    <3>1. tree'[m].objects \subseteq S
      BY <1>5, <2>3
    <3> QED
      BY <1>4, <1>5, <1>6, <1>12, <2>1, <2>3, <3>1
  <2>4. CASE m \notin {k, L, H} /\ m \in DOMAIN tree
    <3>1. tree'[m] = tree[m]
      BY <1>5, <2>4
    <3>2. ~Built(m)' => ~Built(m)
      BY <1>2, <1>3, <1>5, <1>9, <2>4
    <3>3. IsLeaf(m)' <=> IsLeaf(m)
      BY <3>1 DEF IsLeaf
    <3> QED
      BY <1>6, <1>12, <2>4, <3>1, <3>2, <3>3 DEF LookupInv, RangeInv
  <2>5. CASE m \notin {k, L, H} /\ m \notin DOMAIN tree
    <3>1. tree'[m] = NewNode
      BY <1>5, <2>5
    <3> QED
      BY <3>1, NewNodes
  <2> QED
    BY <2>2, <2>3, <2>4, <2>5
<1>15. BoxInv'
  <2> SUFFICES ASSUME NEW m \in DOMAIN tree', Built(m)', NEW i \in tree'[m].objects, NEW dim \in Dim
               PROVE  MinCoord(features'[i], dim)..MaxCoord(features'[i], dim)
                        \subseteq tree'[m].aabb[dim]
    BY DEF BoxInv
  <2>1. CASE m = k
    BY <1>5, <1>6, <1>8, <2>1
  <2>2. CASE m # k
    <3>1. m < k /\ m \in Nat /\ m \notin {L, H}
      BY <1>2, <1>5, <1>7, <1>9, <2>2
    <3>2. m \in DOMAIN tree /\ Built(m) /\ tree'[m] = tree[m]
      BY <1>2, <1>3, <1>5, <1>11, <3>1
    <3>3. \A j \in tree[m].objects :
            MinCoord(features[j], dim)..MaxCoord(features[j], dim) \subseteq tree[m].aabb[dim]
      BY <3>2 DEF LookupInv, BoxInv
    <3>4. tree[m].objects \intersect S = {} \/ S \subseteq tree[m].objects
      BY <1>2, <1>3, <3>1, <3>2 DEF LookupInv, ApartInv, ShareNothing, S
    <3>5. \E j \in tree[m].objects : features'[i] = features[j]
      <4>1. i \in tree[m].objects /\ i \in 1..Len(features)
        BY <3>2 DEF LookupInv, RangeInv
      <4> QED
        BY <1>6, <3>4, <4>1
    <3> QED
      BY <3>2, <3>3, <3>5
  <2> QED
    BY <2>1, <2>2
<1>16. ChildrenInv'
  <2> SUFFICES ASSUME NEW m \in DOMAIN tree', Built(m)', ~IsLeaf(m)', tree'[m].objects # {}
               PROVE  LET l == LowChild(m)
                          h == HighChild(m)
                      IN  /\ {l, h} \subseteq DOMAIN tree'
                          /\ tree'[l].objects # {} /\ tree'[h].objects # {}
                          /\ tree'[l].objects \union tree'[h].objects = tree'[m].objects
                          /\ tree'[l].objects \intersect tree'[h].objects = {}
    BY DEF ChildrenInv, LowChild, HighChild
  <2>1. CASE m = k
    BY <1>5, <2>1 DEF L, H
  <2>2. CASE m # k
    <3>1. m < k /\ m \in Nat /\ m \notin {L, H}
      BY <1>2, <1>5, <1>7, <1>9, <2>2
    <3>2. m \in DOMAIN tree /\ Built(m) /\ tree'[m] = tree[m] /\ ~IsLeaf(m)
      BY <1>2, <1>3, <1>5, <1>11, <3>1 DEF IsLeaf
    <3> DEFINE l == LowChild(m)
               h == HighChild(m)
    <3>3. /\ {l, h} \subseteq DOMAIN tree
          /\ tree[l].objects # {} /\ tree[h].objects # {}
          /\ tree[l].objects \union tree[h].objects = tree[m].objects
          /\ tree[l].objects \intersect tree[h].objects = {}
      BY <3>2 DEF LookupInv, ChildrenInv
    <3>4. l \notin {L, H} /\ h \notin {L, H}
      BY <1>2, <1>7, <3>1 DEF LowChild, HighChild
    <3>5. tree'[l].objects = tree[l].objects /\ tree'[h].objects = tree[h].objects
      BY <1>11, <3>3, <3>4
    <3> HIDE DEF l, h
    <3>6. /\ {l, h} \subseteq DOMAIN tree'
          /\ tree'[l].objects # {} /\ tree'[h].objects # {}
          /\ tree'[l].objects \union tree'[h].objects = tree'[m].objects
          /\ tree'[l].objects \intersect tree'[h].objects = {}
      BY <1>5, <3>2, <3>3, <3>5
    <3> QED
      BY <3>6 DEF l, h
  <2> QED
    BY <2>1, <2>2
<1>17. ApartInv'
  <2> SUFFICES ASSUME NEW m \in DOMAIN tree', NEW n \in DOMAIN tree', m < n, ~Built(n)'
               PROVE  \/ tree'[m].objects \intersect tree'[n].objects = {}
                      \/ Built(m)' /\ tree'[n].objects \subseteq tree'[m].objects
    BY DEF ApartInv, ShareNothing
  <2>1. m \in Nat /\ n \in Nat /\ n > k /\ (Built(m)' <=> m <= k)
    BY <1>2, <1>5, <1>9
  (* Where the features of a node that is to be done come from.             *)
  <2>2. ASSUME NEW q \in DOMAIN tree', q > k, q \notin {L, H}
        PROVE  tree'[q].objects \intersect S = {}
    <3>1. CASE tree'[q].objects = {}
      BY <3>1
    <3>2. CASE q \in DOMAIN tree /\ tree'[q].objects = tree[q].objects
      BY <1>2, <1>3, <1>5, <2>2, <3>2 DEF LookupInv, ApartInv, ShareNothing, S
    <3> QED
      BY <1>11, <2>2, <3>1, <3>2
  <2>3. tree'[L].objects \subseteq S /\ tree'[H].objects \subseteq S
    BY <1>5
  <2>4. CASE n \in {L, H}
    <3>5. tree'[n].objects \subseteq S
      BY <2>3, <2>4
    <3>1. CASE m = k
      <4>1. Built(m)' /\ tree'[m].objects = S
        BY <1>2, <1>5, <2>1, <3>1
      <4> QED
        BY <3>5, <4>1
    <3>2. CASE m < k
      <4>1. m \in DOMAIN tree /\ tree'[m].objects = tree[m].objects
        BY <1>2, <1>7, <1>11, <2>1, <3>2
      <4>2. tree[m].objects \intersect S = {} \/ S \subseteq tree[m].objects
        BY <1>2, <1>3, <2>1, <3>2, <4>1 DEF LookupInv, ApartInv, ShareNothing, S
      <4>3. Built(m)'
        BY <1>2, <2>1, <3>2
      <4> QED
        BY <3>5, <4>1, <4>2, <4>3
    <3>3. CASE m > k /\ m \notin {L, H}
      BY <2>2, <3>3, <3>5
    <3>4. CASE m \in {L, H}
      <4>1. m = L /\ n = H
        BY <1>2, <1>7, <2>1, <2>4, <3>4
      <4> QED
        BY <1>5, <4>1
    <3> QED
      BY <1>2, <2>1, <3>1, <3>2, <3>3, <3>4
  <2>5. CASE n \notin {L, H} /\ tree'[n].objects # {}
    <3>1. n \in DOMAIN tree /\ tree'[n].objects = tree[n].objects
      BY <1>11, <2>5
    <3>2. CASE m \in {L, H}
      BY <2>1, <2>2, <2>3, <2>5, <3>2
    <3>3. CASE m \notin {L, H} /\ tree'[m].objects # {}
      <4>1. m \in DOMAIN tree /\ tree'[m].objects = tree[m].objects
        BY <1>11, <3>3
      <4>2. ~Built(n) /\ (Built(m) => Built(m)')
        BY <1>2, <1>3, <2>1, <3>1, <4>1
      <4> QED
        BY <3>1, <4>1, <4>2 DEF LookupInv, ApartInv, ShareNothing
    <3> QED
      BY <3>2, <3>3
  <2> QED
    BY <2>4, <2>5
<1> QED
  BY <1>13, <1>14, <1>15, <1>16, <1>17 DEF LookupInv

-----------------------------------------------------------------------------
(* Asking the tree.                                                         *)

Members(s) == {s[k] : k \in 1..Len(s)}

LEMMA ConcatMembers ==
  ASSUME NEW S, NEW s \in Seq(S), NEW t \in Seq(S)
  PROVE  s \o t \in Seq(S) /\ Members(s \o t) = Members(s) \union Members(t)
<1> DEFINE r == s \o t
<1>1. /\ r \in Seq(S) /\ Len(r) = Len(s) + Len(t) /\ Len(s) \in Nat /\ Len(t) \in Nat
      /\ \A k \in 1..Len(s) : r[k] = s[k]
      /\ \A k \in 1..Len(t) : r[Len(s) + k] = t[k]
      /\ \A k \in 1..Len(r) : k > Len(s) => r[k] = t[k - Len(s)]
  OBVIOUS
<1> HIDE DEF r
<1>2. Members(r) \subseteq Members(s) \union Members(t)
  <2> SUFFICES ASSUME NEW k \in 1..Len(r) PROVE r[k] \in Members(s) \union Members(t)
    BY DEF Members
  <2>1. CASE k <= Len(s)
    BY <1>1, <2>1 DEF Members
  <2>2. CASE k > Len(s)
    <3>1. k - Len(s) \in 1..Len(t)
      BY <1>1, <2>2
    <3> QED
      BY <1>1, <2>2, <3>1 DEF Members
  <2> QED
    BY <1>1, <2>1, <2>2
<1>3. Members(s) \subseteq Members(r)
  BY <1>1 DEF Members
<1>4. Members(t) \subseteq Members(r)
  <2> SUFFICES ASSUME NEW k \in 1..Len(t) PROVE t[k] \in Members(r)
    BY DEF Members
  <2>1. Len(s) + k \in 1..Len(r)
    BY <1>1
  <2> QED
    BY <1>1, <2>1 DEF Members
<1> QED
  BY <1>1, <1>2, <1>3, <1>4 DEF r

LEMMA HeadAndTail ==
  ASSUME NEW S, NEW s \in Seq(S), s # <<>>
  PROVE  /\ Head(s) \in S /\ Tail(s) \in Seq(S)
         /\ Members(s) = {Head(s)} \union Members(Tail(s))
<1> DEFINE t == Tail(s)
<1>1. /\ Head(s) = s[1] /\ Len(s) \in Nat \ {0} /\ s[1] \in S
      /\ t \in Seq(S) /\ Len(t) = Len(s) - 1 /\ \A k \in 1..Len(t) : t[k] = s[k + 1]
  OBVIOUS
<1> HIDE DEF t
<1>2. ASSUME NEW k \in 1..Len(s) PROVE s[k] \in {Head(s)} \union Members(t)
  <2>1. CASE k = 1
    BY <1>1, <2>1
  <2>2. CASE k # 1
    <3>1. k - 1 \in 1..Len(t) /\ t[k - 1] = s[k]
      BY <1>1, <2>2
    <3> QED
      BY <3>1 DEF Members
  <2> QED
    BY <2>1, <2>2
<1>3. ASSUME NEW k \in 1..Len(t) PROVE t[k] \in Members(s)
  <2>1. k + 1 \in 1..Len(s)
    BY <1>1
  <2> QED
    BY <1>1, <2>1 DEF Members
<1>4. Head(s) \in Members(s)
  BY <1>1 DEF Members
<1> QED
  BY <1>1, <1>2, <1>3, <1>4 DEF Members, t

LEMMA QueryKeepsInv ==
  ASSUME LookupInv, call = "none", NEW p \in Nat \X Nat, ObjectsContain(p) PROVE LookupInv'
<1>1. /\ call' = "objectsContain" /\ point' = p /\ UNCHANGED <<features, tree, loop>>
      /\ nodesToCheck' = (IF tree = <<>> THEN <<>> ELSE <<0>>)
      /\ leaf' = NoLeaf /\ vObj' = <<>>
  BY DEF ObjectsContain
<1>2. TreeInv'
  BY <1>1, OutsidePreprocess DEF LookupInv, TreeInv
<1>3. Found' \subseteq Indexed /\ Indexed' = Indexed
  BY <1>1 DEF Found, Indexed
<1>4. Listed' = {} /\ Unseen' = {}
  BY <1>1 DEF Listed, Unseen, NoLeaf
<1>5. leaf' \in [objectIndex : Nat, objectsEnd : Nat] /\ vObj' \in Seq(Nat)
  BY <1>1 DEF NoLeaf
<1>6. CASE tree = <<>>
  <2>1. nodesToCheck' = <<>> /\ Stacked' = {} /\ Indexed = {}
    BY <1>1, <1>6 DEF Stacked, Indexed
  <2>2. nodesToCheck' \in Seq(DOMAIN tree') /\ Found' = {} /\ Indexed' = {}
    BY <1>3, <2>1
  <2>3. SearchInv'
    BY <1>1, <1>4, <1>5, <2>1, <2>2 DEF SearchInv
  <2> QED
    BY <1>2, <2>3 DEF LookupInv, TreeInv
<1>7. CASE tree # <<>>
  <2>1. 0 \in DOMAIN tree /\ tree[0].objects # {} /\ Indexed = tree[0].objects
    BY <1>7 DEF LookupInv, TreeTypeOK, Indexed
  <2>2. nodesToCheck' = <<0>> /\ nodesToCheck' \in Seq(DOMAIN tree') /\ Stacked' = {0}
    BY <1>1, <1>7, <2>1 DEF Stacked
  <2> QED
    BY <1>1, <1>2, <1>3, <1>4, <1>5, <2>1, <2>2 DEF LookupInv, TreeInv, SearchInv
<1> QED
  BY <1>6, <1>7

LEMMA CheckInnerNodeKeepsInv ==
  ASSUME LookupInv, CheckInnerNode PROVE LookupInv'
<1> DEFINE n == Head(nodesToCheck)
           L == LowChild(n)
           H == HighChild(n)
           rest == Tail(nodesToCheck)
<1>1. /\ call = "objectsContain" /\ nodesToCheck # <<>> /\ ~IsLeaf(n)
      /\ nodesToCheck' = Pushed(L) \o Pushed(H) \o rest
      /\ UNCHANGED <<features, tree, call, loop, point, leaf, vObj>>
  BY DEF CheckInnerNode, Checking
<1>2. TreeInv'
  BY <1>1, OutsidePreprocess DEF LookupInv, TreeInv
<1>3. /\ nodesToCheck \in Seq(DOMAIN tree) /\ point \in Nat \X Nat
      /\ \A m \in Stacked : tree[m].objects # {}
      /\ Found \subseteq Listed \union Unseen \union UNION {tree[m].objects : m \in Stacked}
  BY <1>1 DEF LookupInv, SearchInv
<1>4. n \in DOMAIN tree /\ rest \in Seq(DOMAIN tree) /\ Stacked = {n} \union Members(rest)
  <2>1. Stacked = Members(nodesToCheck)
    BY DEF Stacked, Members
  <2> QED
    BY <1>1, <1>3, <2>1, HeadAndTail
<1>5. Built(n) /\ tree[n].objects # {}
  BY <1>1, <1>3, <1>4 DEF Built
<1>6. /\ L \in DOMAIN tree /\ H \in DOMAIN tree
      /\ tree[L].objects # {} /\ tree[H].objects # {}
      /\ tree[L].objects \union tree[H].objects = tree[n].objects
  BY <1>1, <1>4, <1>5 DEF LookupInv, ChildrenInv
<1> HIDE DEF n, L, H, rest
<1>7. ASSUME NEW m \in DOMAIN tree
      PROVE  /\ Pushed(m) \in Seq(DOMAIN tree) /\ Members(Pushed(m)) \subseteq {m}
             /\ Found \intersect tree[m].objects # {} => m \in Members(Pushed(m))
  <2>1. Pushed(m) \in Seq(DOMAIN tree) /\ Members(Pushed(m)) \subseteq {m}
    <3>1. CASE BoxContains(m, point)
      <4>1. Pushed(m) = <<m>>
        BY <3>1 DEF Pushed
      <4> QED
        BY <4>1 DEF Members
    <3>2. CASE ~BoxContains(m, point)
      <4>1. Pushed(m) = <<>>
        BY <3>2 DEF Pushed
      <4> QED
        BY <4>1 DEF Members
    <3> QED
      BY <3>1, <3>2
  <2>2. ASSUME NEW i \in Found, i \in tree[m].objects
        PROVE  m \in Members(Pushed(m))
    <3>1. features[i] \in AnyFeature /\ ContainsPixel(features[i], point)
      BY <2>2 DEF Found, LookupInv, RangeInv, TreeTypeOK
    <3>2. ASSUME NEW dim \in Dim PROVE Coord(point, dim) \in tree[m].aabb[dim]
      <4>1. Coord(point, dim) \in MinCoord(features[i], dim)..MaxCoord(features[i], dim)
        BY <1>3, <3>1, Coordinates
      <4>2. MinCoord(features[i], dim)..MaxCoord(features[i], dim) \subseteq tree[m].aabb[dim]
        BY <1>1, <2>2 DEF LookupInv, BoxInv, Built
      <4> QED
        BY <4>1, <4>2
    <3>3. Pushed(m) = <<m>>
      BY <3>2 DEF Pushed, BoxContains
    <3> QED
      BY <3>3 DEF Members
  <2> QED
    BY <2>1, <2>2
<1>8. /\ nodesToCheck' \in Seq(DOMAIN tree)
      /\ Stacked' = Members(Pushed(L)) \union Members(Pushed(H)) \union Members(rest)
  <2>1. Pushed(L) \in Seq(DOMAIN tree) /\ Pushed(H) \in Seq(DOMAIN tree)
    BY <1>6, <1>7
  <2> DEFINE a == Pushed(L)
             b == Pushed(H)
  <2> HIDE DEF a, b
  <2>2. a \o b \in Seq(DOMAIN tree) /\ Members(a \o b) = Members(a) \union Members(b)
    BY <2>1, ConcatMembers DEF a, b
  <2> DEFINE c == a \o b
  <2>3. nodesToCheck' = c \o rest
    BY <1>1 DEF a, b
  <2>4. c \in Seq(DOMAIN tree) /\ Members(c) = Members(a) \union Members(b)
    BY <2>2
  <2> HIDE DEF c
  <2>5. c \o rest \in Seq(DOMAIN tree) /\ Members(c \o rest) = Members(c) \union Members(rest)
    BY <1>4, <2>4, ConcatMembers
  <2>6. Stacked' = Members(nodesToCheck')
    BY DEF Stacked, Members
  <2> QED
    BY <2>3, <2>4, <2>5, <2>6 DEF a, b
<1>9. \A m \in Stacked' : tree[m].objects # {}
  BY <1>3, <1>4, <1>6, <1>7, <1>8
<1>10. Found \subseteq Listed \union Unseen \union UNION {tree[m].objects : m \in Stacked'}
  <2> SUFFICES ASSUME NEW i \in Found, i \notin Listed \union Unseen
               PROVE  \E m \in Stacked' : i \in tree[m].objects
    OBVIOUS
  <2>1. PICK m \in Stacked : i \in tree[m].objects
    BY <1>3
  <2>2. CASE m \in Members(rest)
    BY <1>8, <2>1, <2>2
  <2>3. CASE m = n
    BY <1>6, <1>7, <1>8, <2>1, <2>3
  <2> QED
    BY <1>4, <2>1, <2>2, <2>3
<1>11. Found' = Found /\ Listed' = Listed /\ Unseen' = Unseen /\ Indexed' = Indexed
  BY <1>1 DEF Found, Listed, Unseen, Indexed
<1>12. /\ leaf \in [objectIndex : Nat, objectsEnd : Nat] /\ vObj \in Seq(Nat)
       /\ Unseen \subseteq Indexed /\ Listed \subseteq Found
  BY <1>1 DEF LookupInv, SearchInv
<1>13. SearchInv'
  <2>1. Found' \subseteq Listed' \union Unseen' \union UNION {tree'[m].objects : m \in Stacked'}
    BY <1>1, <1>10, <1>11
  <2>2. /\ point' \in Nat \X Nat /\ nodesToCheck' \in Seq(DOMAIN tree')
        /\ \A m \in Stacked' : tree'[m].objects # {}
        /\ leaf' \in [objectIndex : Nat, objectsEnd : Nat] /\ vObj' \in Seq(Nat)
        /\ Unseen' \subseteq Indexed' /\ Listed' \subseteq Found'
    BY <1>1, <1>3, <1>8, <1>9, <1>11, <1>12
  <2> QED
    BY <2>1, <2>2 DEF SearchInv
<1> QED
  BY <1>2, <1>13 DEF LookupInv, TreeInv

LEMMA CheckLeafKeepsInv ==
  ASSUME LookupInv, CheckLeaf PROVE LookupInv'
<1> DEFINE n == Head(nodesToCheck)
           rest == Tail(nodesToCheck)
<1>1. /\ call = "objectsContain" /\ nodesToCheck # <<>> /\ ~InLeaf /\ IsLeaf(n)
      /\ leaf' = [objectIndex |-> tree[n].begin, objectsEnd |-> tree[n].end]
      /\ nodesToCheck' = rest
      /\ UNCHANGED <<features, tree, call, loop, point, vObj>>
  BY DEF CheckLeaf, Checking
<1>2. TreeInv'
  BY <1>1, OutsidePreprocess DEF LookupInv, TreeInv
<1>3. /\ nodesToCheck \in Seq(DOMAIN tree) /\ point \in Nat \X Nat /\ vObj \in Seq(Nat)
      /\ leaf \in [objectIndex : Nat, objectsEnd : Nat]
      /\ \A m \in Stacked : tree[m].objects # {}
      /\ Listed \subseteq Found
      /\ Found \subseteq Listed \union Unseen \union UNION {tree[m].objects : m \in Stacked}
  BY <1>1 DEF LookupInv, SearchInv
<1>4. n \in DOMAIN tree /\ rest \in Seq(DOMAIN tree) /\ Stacked = {n} \union Members(rest)
  <2>1. Stacked = Members(nodesToCheck)
    BY DEF Stacked, Members
  <2> QED
    BY <1>1, <1>3, <2>1, HeadAndTail
<1> HIDE DEF n, rest
<1>5. /\ tree[n].objects = tree[n].begin + 1..tree[n].end
      /\ tree[n].begin \in Nat /\ tree[n].end \in Nat
      /\ tree[n].objects \subseteq tree[0].objects /\ Indexed = tree[0].objects
  <2>1. tree # <<>>
    BY <1>4
  <2> QED
    BY <1>1, <1>4, <2>1 DEF LookupInv, RangeInv, TreeTypeOK, Node, Indexed
<1>6. Unseen = {} /\ Unseen' = tree[n].objects
  BY <1>1, <1>3, <1>5 DEF Unseen, InLeaf
<1>7. Stacked' = Members(rest)
  BY <1>1 DEF Stacked, Members
<1>8. Found' = Found /\ Listed' = Listed /\ Indexed' = Indexed
  BY <1>1 DEF Found, Listed, Indexed
<1>9. Found \subseteq Listed \union Unseen' \union UNION {tree[m].objects : m \in Stacked'}
  <2> SUFFICES ASSUME NEW i \in Found, i \notin Listed
               PROVE  i \in Unseen' \/ \E m \in Stacked' : i \in tree[m].objects
    OBVIOUS
  <2>1. PICK m \in Stacked : i \in tree[m].objects
    BY <1>3, <1>6
  <2> QED
    BY <1>4, <1>6, <1>7, <2>1
<1>10. leaf' \in [objectIndex : Nat, objectsEnd : Nat]
  BY <1>1, <1>5
<1>11. SearchInv'
  BY <1>1, <1>3, <1>4, <1>5, <1>6, <1>7, <1>8, <1>9, <1>10 DEF SearchInv
<1> QED
  BY <1>2, <1>11 DEF LookupInv, TreeInv

LEMMA CheckObjectKeepsInv ==
  ASSUME LookupInv, CheckObject PROVE LookupInv'
<1> DEFINE i == leaf.objectIndex + 1
<1>1. /\ call = "objectsContain" /\ InLeaf
      /\ vObj' = (IF ContainsPixel(features[i], point) THEN Append(vObj, i) ELSE vObj)
      /\ leaf' = [leaf EXCEPT !.objectIndex = i]
      /\ UNCHANGED <<features, tree, call, loop, point, nodesToCheck>>
  BY DEF CheckObject
<1>2. TreeInv'
  BY <1>1, OutsidePreprocess DEF LookupInv, TreeInv
<1>3. /\ leaf \in [objectIndex : Nat, objectsEnd : Nat] /\ vObj \in Seq(Nat)
      /\ Unseen \subseteq Indexed /\ Listed \subseteq Found
      /\ Found \subseteq Listed \union Unseen \union UNION {tree[m].objects : m \in Stacked}
  BY <1>1 DEF LookupInv, SearchInv
<1>4. /\ leaf' \in [objectIndex : Nat, objectsEnd : Nat]
      /\ leaf'.objectIndex = i /\ leaf'.objectsEnd = leaf.objectsEnd
      /\ i \in Nat /\ i <= leaf.objectsEnd
  BY <1>1, <1>3 DEF InLeaf
<1> HIDE DEF i
<1>5. Unseen = {i} \union Unseen'
  <2>1. leaf.objectIndex + 1 = i /\ leaf.objectsEnd \in Nat
    BY <1>3 DEF i
  <2>2. Unseen = i..leaf.objectsEnd /\ Unseen' = i + 1..leaf.objectsEnd
    BY <1>4, <2>1 DEF Unseen
  <2> QED
    BY <1>4, <2>1, <2>2
<1>6. Found' = Found /\ Stacked' = Stacked /\ Indexed' = Indexed
  BY <1>1 DEF Found, Stacked, Indexed
<1>7. vObj' \in Seq(Nat) /\ Listed' = Listed \union (IF i \in Found THEN {i} ELSE {})
  <2>1. i \in Found <=> ContainsPixel(features[i], point)
    BY <1>3, <1>5 DEF Found
  <2>2. CASE i \in Found
    <3>1. vObj' = vObj \o <<i>>
      BY <1>1, <1>3, <2>1, <2>2
    <3> DEFINE last == <<i>>
    <3>2. last \in Seq(Nat) /\ Members(last) = {i}
      BY <1>4 DEF Members
    <3> HIDE DEF last
    <3>4. vObj \o last \in Seq(Nat) /\ Members(vObj \o last) = Members(vObj) \union Members(last)
      BY <1>3, <3>2, ConcatMembers
    <3>3. vObj' \in Seq(Nat) /\ Members(vObj') = Members(vObj) \union {i}
      BY <3>1, <3>2, <3>4 DEF last
    <3> QED
      BY <2>2, <3>3 DEF Listed, Members
  <2>3. CASE i \notin Found
    BY <1>1, <1>3, <2>1, <2>3 DEF Listed
  <2> QED
    BY <2>2, <2>3
<1>8. SearchInv'
  <2>1. /\ Unseen' \subseteq Indexed' /\ Listed' \subseteq Found'
        /\ Found' \subseteq Listed' \union Unseen' \union UNION {tree[m].objects : m \in Stacked}
    BY <1>3, <1>5, <1>6, <1>7
  <2> QED
    BY <1>1, <1>4, <1>6, <1>7, <2>1 DEF LookupInv, SearchInv
<1> QED
  BY <1>2, <1>8 DEF LookupInv, TreeInv

LEMMA ReturnObjectsKeepsInv ==
  ASSUME LookupInv, ReturnObjects PROVE LookupInv'
<1>1. call = "objectsContain" /\ call' = "none" /\ UNCHANGED <<features, tree, loop>>
  BY DEF ReturnObjects
<1>2. TreeInv'
  BY <1>1, OutsidePreprocess DEF LookupInv, TreeInv
<1> QED
  BY <1>1, <1>2 DEF LookupInv, TreeInv, SearchInv

LEMMA StutterKeepsInv ==
  ASSUME LookupInv, UNCHANGED treeVars PROVE LookupInv'
<1>1. UNCHANGED <<features, tree, call, loop, point, nodesToCheck, leaf, vObj>>
  BY DEF treeVars, queryVars
<1>2. TreeTypeOK' /\ LevelInv'
  BY <1>1 DEF LookupInv, TreeTypeOK, LevelInv
<1>3. \A n : (Built(n)' <=> Built(n)) /\ (IsLeaf(n)' <=> IsLeaf(n))
  BY <1>1 DEF Built, IsLeaf
<1>4. RangeInv' /\ BoxInv' /\ ChildrenInv'
  BY <1>1, <1>3 DEF LookupInv, RangeInv, BoxInv, ChildrenInv
<1>5. ApartInv'
  BY <1>1, <1>3 DEF LookupInv, ApartInv, ShareNothing
<1>6. SearchInv'
  <2>1. /\ Found' = Found /\ Indexed' = Indexed /\ Stacked' = Stacked
        /\ Listed' = Listed /\ Unseen' = Unseen
    BY <1>1 DEF Found, Indexed, Stacked, Listed, Unseen
  <2> QED
    BY <1>1, <2>1 DEF LookupInv, SearchInv
<1> QED
  BY <1>2, <1>4, <1>5, <1>6 DEF LookupInv

-----------------------------------------------------------------------------
(* Every step keeps the invariant of the tree.                              *)
LEMMA TreeNextKeepsInv ==
  ASSUME LookupInv, [TreeNext]_treeVars PROVE LookupInv'
<1>1. CASE ChangeVector
  BY <1>1, ChangeVectorKeepsInv
<1>2. CASE BuildTree
  BY <1>2, PreprocessKeepsInv DEF BuildTree
<1>3. CASE Query
  BY <1>3, QueryKeepsInv DEF Query
<1>4. CASE TreeStep
  BY <1>4, KeepNodeKeepsInv, SplitNodeKeepsInv, EndLevelKeepsInv, CheckInnerNodeKeepsInv,
     CheckLeafKeepsInv, CheckObjectKeepsInv DEF TreeStep, PreprocessStep, CheckNode
<1>5. CASE ReturnObjects
  BY <1>5, ReturnObjectsKeepsInv
<1>6. CASE UNCHANGED treeVars
  BY <1>6, StutterKeepsInv
<1> QED
  BY <1>1, <1>2, <1>3, <1>4, <1>5, <1>6 DEF TreeNext

(* The inductive invariant of the tree holds whatever the features, the     *)
(* order that sorting leaves them in, and the pixels asked for.             *)
THEOREM TreeInvariance == TreeSpec => []LookupInv
<1>1. TreeInit => LookupInv
  BY InitInv
<1>2. LookupInv /\ [TreeNext]_treeVars => LookupInv'
  BY TreeNextKeepsInv
<1> QED
  BY <1>1, <1>2, PTL DEF TreeSpec

(* Each feature that the tree stands for is in one leaf, and no box on the  *)
(* way there hides it: the bounds computed for a node are not made wrong by *)
(* the sorting that its descendants do later.                               *)
THEOREM TreeHasEveryFeature == TreeSpec => []EveryFeatureHasItsLeaf
<1>1. LookupInv => EveryFeatureHasItsLeaf
  BY DEF LookupInv, LevelInv, RangeInv, BoxInv, ChildrenInv, EveryFeatureHasItsLeaf
<1> QED
  BY <1>1, TreeInvariance, PTL

(* What is listed when the search ends is what was to be found.             *)
LEMMA SearchEnds ==
  ASSUME LookupInv, call = "objectsContain", nodesToCheck = <<>>, ~InLeaf
  PROVE  Listed = Found
<1>1. /\ Listed \subseteq Found /\ leaf \in [objectIndex : Nat, objectsEnd : Nat]
      /\ Found \subseteq Listed \union Unseen \union UNION {tree[m].objects : m \in Stacked}
  BY DEF LookupInv, SearchInv
<1>2. Stacked = {} /\ Unseen = {}
  BY <1>1 DEF Stacked, Unseen, InLeaf
<1> QED
  BY <1>1, <1>2

(* objectsContain returns the features that contain the pixel, all of them  *)
(* and no others.                                                           *)
THEOREM SearchIsComplete == TreeSpec => []SearchFindsAll
<1>1. LookupInv => SearchFindsAll
  BY SearchEnds DEF SearchFindsAll, Listed, Found
<1> QED
  BY <1>1, TreeInvariance, PTL

-----------------------------------------------------------------------------
(* Features and the pixels they stand for.                                  *)

NatBox == [ulRow : Nat, ulCol : Nat, brRow : Nat, brCol : Nat]

(* A box that ends at some pixel of S on each side.                         *)
Spans(box, S) ==
  /\ box \in NatBox
  /\ S \in SUBSET (Nat \X Nat) /\ S # {}
  /\ \A p \in S : /\ box.ulRow <= p[1] /\ p[1] + 1 <= box.brRow
                  /\ box.ulCol <= p[2] /\ p[2] + 1 <= box.brCol
  /\ \E p, q \in S : p[1] = box.ulRow /\ q[1] + 1 = box.brRow
  /\ \E p, q \in S : p[2] = box.ulCol /\ q[2] + 1 = box.brCol

(* A feature with the pixels that are known under its identifier.           *)
StandsFor(f, pixels) ==
  /\ f.id \in Nat /\ f.id \in DOMAIN pixels
  /\ Spans(f.box, pixels[f.id])
  /\ f = NewFeature(f.id, f.box, BitMask(f.box, pixels[f.id]))

InBox(box, p) == /\ p \in Nat \X Nat
                 /\ box.ulRow <= p[1] /\ p[1] < box.brRow
                 /\ box.ulCol <= p[2] /\ p[2] < box.brCol

(* Two boxes that end at the same pixels are the same.                      *)
LEMMA OneBoxSpans ==
  ASSUME NEW S, NEW b, NEW c, Spans(b, S), Spans(c, S)
  PROVE  b = c
<1>1. /\ b \in NatBox /\ c \in NatBox
      /\ \A p \in S : p[1] \in Nat /\ p[2] \in Nat
  BY DEF Spans
<1>2. b.ulRow = c.ulRow /\ b.brRow = c.brRow
  BY <1>1 DEF Spans, NatBox
<1>3. b.ulCol = c.ulCol /\ b.brCol = c.brCol
  BY <1>1 DEF Spans, NatBox
<1> QED
  BY <1>1, <1>2, <1>3 DEF NatBox

(* A box with pixels has a height and a width.                              *)
LEMMA SpanSizes ==
  ASSUME NEW S, NEW box, Spans(box, S)
  PROVE  /\ Height(box) \in Nat \ {0} /\ Width(box) \in Nat \ {0}
         /\ box.ulRow + Height(box) = box.brRow /\ box.ulCol + Width(box) = box.brCol
         /\ \A p \in S : InBox(box, p)
<1>1. box \in NatBox /\ S \in SUBSET (Nat \X Nat)
  BY DEF Spans
<1>2. PICK p \in S : TRUE
  BY DEF Spans
<1>3. \A q \in S : InBox(box, q)
  BY <1>1 DEF Spans, InBox, NatBox
<1> QED
  BY <1>1, <1>2, <1>3 DEF InBox, Height, Width, NatBox

(* The bits of a mask: each pixel of a box has one, in one of its words,    *)
(* and no other pixel has the same.                                         *)
LEMMA PixelHasBit ==
  ASSUME NEW box \in NatBox, Height(box) \in Nat \ {0}, Width(box) \in Nat \ {0},
         NEW p, InBox(box, p)
  PROVE  /\ AbsolutePosition(box, p) \in 0..Height(box) * Width(box) - 1
         /\ WordPosition(box, p) + 1 \in 1..NbElementsBitMask(box)
         /\ BitPosition(box, p) \in 1..WordSize
<1> DEFINE h == Height(box)
           w == Width(box)
           r == p[1] - box.ulRow
           c == p[2] - box.ulCol
           a == AbsolutePosition(box, p)
           n == WordPosition(box, p)
           e == NbElementsBitMask(box)
<1>1. r \in 0..h - 1 /\ c \in 0..w - 1
  BY DEF InBox, NatBox, Height, Width
<1>2. a = r * w + c
  BY DEF AbsolutePosition
<1>3. WordSize \in Nat \ {0}
  BY WordAssumption
<1>4. n = a \div WordSize /\ BitPosition(box, p) = WordSize - (a - n * WordSize)
  BY DEF WordPosition, BitPosition
<1>5. e = (h * w + WordSize - 1) \div WordSize
  BY DEF NbElementsBitMask
<1> HIDE DEF h, w, r, c, a, n, e
<1>6. h \in Nat \ {0} /\ w \in Nat \ {0}
  BY DEF h, w
<1>7. r * w \in Nat /\ r * w <= (h - 1) * w /\ (h - 1) * w = h * w - w /\ h * w \in Nat
  BY <1>1, <1>6
<1>8. a \in 0..h * w - 1
  BY <1>1, <1>2, <1>6, <1>7
<1>9. /\ n \in Int /\ a % WordSize \in 0..WordSize - 1
      /\ a = WordSize * n + (a % WordSize)
  BY <1>3, <1>4, <1>7, <1>8, Division
<1>10. BitPosition(box, p) \in 1..WordSize
  BY <1>3, <1>4, <1>7, <1>8, <1>9
<1>11. e \in Nat /\ e * WordSize >= h * w
  BY <1>3, <1>5, <1>7, CeilBounds
<1>12. n >= 0
  <2>1. CASE n + 1 <= 0
    <3>1. WordSize * (n + 1) <= 0
      BY <1>3, <1>9, <2>1
    <3>2. WordSize * (n + 1) = WordSize * n + WordSize
      BY <1>3, <1>9
    <3> QED
      BY <1>3, <1>7, <1>8, <1>9, <3>1, <3>2
  <2> QED
    BY <1>9, <2>1
<1>13. n < e
  <2>1. CASE e <= n
    <3>1. e * WordSize <= n * WordSize
      BY <1>3, <1>9, <1>11, <2>1
    <3>2. n * WordSize = WordSize * n
      BY <1>3, <1>9
    <3> QED
      BY <1>3, <1>7, <1>8, <1>9, <1>11, <3>1, <3>2
  <2> QED
    BY <1>9, <1>11, <2>1
<1> QED
  BY <1>8, <1>9, <1>10, <1>11, <1>12, <1>13 DEF a, n, e, h, w

LEMMA PixelOfBit ==
  ASSUME NEW box \in NatBox, Height(box) \in Nat \ {0}, Width(box) \in Nat \ {0},
         NEW p, InBox(box, p), NEW q, InBox(box, q),
         WordPosition(box, p) = WordPosition(box, q), BitPosition(box, p) = BitPosition(box, q)
  PROVE  p = q
<1> DEFINE w == Width(box)
           r == p[1] - box.ulRow
           c == p[2] - box.ulCol
           s == q[1] - box.ulRow
           d == q[2] - box.ulCol
           n == WordPosition(box, p)
           m == n * WordSize
           a == AbsolutePosition(box, p)
           b == AbsolutePosition(box, q)
<1>1. /\ r \in Nat /\ s \in Nat /\ c \in 0..w - 1 /\ d \in 0..w - 1
  BY DEF InBox, NatBox, Height, Width
<1>2. a = r * w + c /\ b = s * w + d
  BY DEF AbsolutePosition
<1>3. WordSize \in Nat \ {0} /\ n \in Int
  <2>1. n + 1 \in Int
    BY PixelHasBit
  <2>2. a \in Int /\ WordSize \in Nat \ {0}
    BY PixelHasBit, WordAssumption
  <2>3. n = a \div WordSize
    BY DEF WordPosition
  <2> HIDE DEF n, a
  <2> QED
    BY <2>2, <2>3
<1>4. WordSize - (a - m) = WordSize - (b - m)
  BY DEF BitPosition
<1>5. a \in Int /\ b \in Int
  BY PixelHasBit
<1>6. m \in Int
  BY <1>3
<1> HIDE DEF w, r, c, s, d, a, b, m, n
<1>7. a = b
  BY <1>3, <1>4, <1>5, <1>6
<1>8. w \in Nat \ {0}
  BY DEF w
<1>9. r = s
  <2>1. CASE r < s
    <3>1. (r + 1) * w <= s * w /\ (r + 1) * w = r * w + w /\ r * w \in Nat /\ s * w \in Nat
      BY <1>1, <1>8, <2>1
    <3> QED
      BY <1>1, <1>2, <1>7, <1>8, <3>1
  <2>2. CASE s < r
    <3>1. (s + 1) * w <= r * w /\ (s + 1) * w = s * w + w /\ r * w \in Nat /\ s * w \in Nat
      BY <1>1, <1>8, <2>2
    <3> QED
      BY <1>1, <1>2, <1>7, <1>8, <3>1
  <2> QED
    BY <1>1, <2>1, <2>2
<1>10. c = d
  <2>1. r * w \in Nat
    BY <1>1, <1>8
  <2> QED
    BY <1>1, <1>2, <1>7, <1>9, <2>1
<1>11. p[1] = q[1] /\ p[2] = q[2]
  BY <1>9, <1>10 DEF r, s, c, d, InBox, NatBox
<1> QED
  BY <1>11 DEF InBox

(* The bit of a pixel is set exactly if the mask was made with the pixel.   *)
LEMMA MaskHasPixels ==
  ASSUME NEW f, NEW pixels, StandsFor(f, pixels), NEW p, InBox(f.box, p)
  PROVE  (BitPosition(f.box, p) - 1 \in f.bitMask[WordPosition(f.box, p) + 1])
           <=> p \in pixels[f.id]
<1> DEFINE S == pixels[f.id]
           box == f.box
<1>1. Spans(box, S) /\ f.bitMask = BitMask(box, S)
  BY DEF StandsFor, NewFeature
<1> HIDE DEF S, box
<1>2. /\ box \in NatBox /\ Height(box) \in Nat \ {0} /\ Width(box) \in Nat \ {0}
      /\ \A q \in S : InBox(box, q)
  BY <1>1, SpanSizes DEF Spans
<1>3. InBox(box, p)
  BY DEF box
<1>4. WordPosition(box, p) + 1 \in 1..NbElementsBitMask(box)
  BY <1>2, <1>3, PixelHasBit
<1>5. \A q \in S : BitPosition(box, q) \in Int
  BY <1>2, PixelHasBit, WordAssumption
<1>6. WordPosition(box, p) \in Int /\ BitPosition(box, p) \in Int
  BY <1>2, <1>3, PixelHasBit, WordAssumption DEF WordPosition
<1>7. f.bitMask[WordPosition(box, p) + 1] =
        {BitPosition(box, q) - 1 : q \in {v \in S : WordPosition(box, v) = WordPosition(box, p)}}
  <2>1. (WordPosition(box, p) + 1) - 1 = WordPosition(box, p)
    BY <1>6
  <2> QED
    BY <1>1, <1>4, <2>1 DEF BitMask
<1>8. ASSUME BitPosition(box, p) - 1 \in f.bitMask[WordPosition(box, p) + 1]  PROVE p \in S
  <2>1. PICK q \in S : /\ WordPosition(box, q) = WordPosition(box, p)
                       /\ BitPosition(box, q) - 1 = BitPosition(box, p) - 1
    BY <1>7, <1>8
  <2>2. BitPosition(box, q) = BitPosition(box, p)
    BY <2>1, <1>5, <1>6
  <2>3. p = q
    BY <1>2, <1>3, <2>1, <2>2, PixelOfBit
  <2> QED
    BY <2>3
<1>9. ASSUME p \in S  PROVE BitPosition(box, p) - 1 \in f.bitMask[WordPosition(box, p) + 1]
  BY <1>7, <1>9
<1> QED
  BY <1>8, <1>9 DEF S, box

(* A feature has exactly the pixels that it stands for.                     *)
LEMMA PixelsOfFeature ==
  ASSUME NEW f, NEW pixels, StandsFor(f, pixels)
  PROVE  /\ \A p \in Nat \X Nat : IsInBitMask(f, p) <=> p \in pixels[f.id]
         /\ \A p \in pixels[f.id] : InBox(f.box, p) /\ ContainsPixel(f, p)
         /\ PixelsIn(f) = pixels[f.id]
<1> DEFINE S == pixels[f.id]
           box == f.box
<1>1. /\ box \in NatBox /\ S \in SUBSET (Nat \X Nat)
      /\ \A p \in S : InBox(box, p)
      /\ box.ulRow + Height(box) = box.brRow /\ box.ulCol + Width(box) = box.brCol
  BY SpanSizes DEF StandsFor, Spans
<1> HIDE DEF S
<1>2. \A p \in Nat \X Nat : InBox(box, p) <=> ContainsPixel(f, p)
  BY <1>1 DEF InBox, ContainsPixel
<1> HIDE DEF box
<1>3. ASSUME NEW p \in Nat \X Nat  PROVE IsInBitMask(f, p) <=> p \in S
  BY <1>1, <1>2, MaskHasPixels DEF IsInBitMask, box, S
<1>4. \A p \in S : InBox(box, p) /\ ContainsPixel(f, p)
  BY <1>1, <1>2
<1>5. PixelsIn(f) = S
  <2>1. ASSUME NEW p \in PixelsIn(f)  PROVE p \in S
    <3>1. p \in (box.ulRow..box.brRow - 1) \X (box.ulCol..box.brCol - 1) /\ IsInBitMask(f, p)
      BY DEF PixelsIn, box
    <3>2. p \in Nat \X Nat
      BY <1>1, <3>1 DEF NatBox
    <3> QED
      BY <1>3, <3>1, <3>2
  <2>2. ASSUME NEW p \in S  PROVE p \in PixelsIn(f)
    <3>1. InBox(box, p) /\ IsInBitMask(f, p)
      BY <1>1, <1>3
    <3>2. p \in (box.ulRow..box.brRow - 1) \X (box.ulCol..box.brCol - 1)
      <4>1. p = <<p[1], p[2]>> /\ p[1] \in box.ulRow..box.brRow - 1 /\ p[2] \in box.ulCol..box.brCol - 1
        BY <1>1, <3>1 DEF InBox, NatBox
      <4> QED
        BY <4>1
    <3> QED
      BY <3>1, <3>2 DEF PixelsIn, box
  <2> QED
    BY <2>1, <2>2
<1> QED
  BY <1>3, <1>4, <1>5 DEF box, S

(* Features are equal exactly if they stand for the same pixels.            *)
LEMMA EqualByPixels ==
  ASSUME NEW f, NEW g, NEW pixels, StandsFor(f, pixels), StandsFor(g, pixels)
  PROVE  EqualFeatures(f, g) <=> pixels[f.id] = pixels[g.id]
<1>1. ASSUME EqualFeatures(f, g)  PROVE pixels[f.id] = pixels[g.id]
  <2>1. f.box = g.box /\ f.bitMask = g.bitMask
    BY <1>1 DEF EqualFeatures
  <2>2. PixelsIn(f) = PixelsIn(g)
    BY <2>1 DEF PixelsIn, IsInBitMask, ContainsPixel
  <2> QED
    BY <2>2, PixelsOfFeature
<1>2. ASSUME pixels[f.id] = pixels[g.id]  PROVE EqualFeatures(f, g)
  <2>1. f.box = g.box
    BY <1>2, OneBoxSpans DEF StandsFor
  <2>2. f.bitMask = BitMask(f.box, pixels[f.id]) /\ g.bitMask = BitMask(g.box, pixels[g.id])
    BY DEF StandsFor, NewFeature
  <2> QED
    BY <1>2, <2>1, <2>2 DEF EqualFeatures
<1> QED
  BY <1>1, <1>2

(* Such a feature is one that the tree can be built from.                   *)
LEMMA FeatureType ==
  ASSUME NEW f, NEW pixels, StandsFor(f, pixels)
  PROVE  f \in AnyFeature
<1> DEFINE S == pixels[f.id]
           box == f.box
           mask == BitMask(box, S)
           n == NbElementsBitMask(box)
<1>1. Spans(box, S) /\ f = NewFeature(f.id, box, mask) /\ f.id \in Nat
  BY DEF StandsFor
<1> HIDE DEF S, box
<1>2. /\ box \in NatBox /\ Height(box) \in Nat \ {0} /\ Width(box) \in Nat \ {0}
      /\ \A q \in S : InBox(box, q)
  BY <1>1, SpanSizes DEF Spans
<1>3. n \in Nat
  <2>1. Height(box) * Width(box) \in Nat
    BY <1>2
  <2> QED
    BY <2>1, CeilBounds, WordAssumption DEF NbElementsBitMask
<1>4. \A q \in S : BitPosition(box, q) - 1 \in Nat
  <2>1. \A q \in S : BitPosition(box, q) \in 1..WordSize
    BY <1>2, PixelHasBit
  <2> QED
    BY <2>1, WordAssumption
<1>5. mask \in Seq(SUBSET Nat)
  <2>1. mask = [w \in 1..n |-> {BitPosition(box, p) - 1 : p \in {q \in S : WordPosition(box, q) = w - 1}}]
    BY DEF BitMask
  <2>2. \A w \in 1..n : {BitPosition(box, p) - 1 : p \in {q \in S : WordPosition(box, q) = w - 1}} \in SUBSET Nat
    BY <1>4
  <2> HIDE DEF mask, n
  <2>3. mask \in [1..n -> SUBSET Nat]
    BY <2>1, <2>2
  <2> QED
    BY <1>3, <2>3
<1> HIDE DEF mask
<1> QED
  BY <1>1, <1>2, <1>5 DEF NewFeature, AnyFeature, NatBox

-----------------------------------------------------------------------------
(* The file.                                                                *)

(* What serialize writes for a vector of features.                          *)
FileOf(height, width, vector) ==
  <<height, width, Len(vector)>>
    \o FlattenSeq([i \in 1..Len(vector) |-> SerializeFeature(vector[i])])

(* How deserialize reads n features.                                        *)
Read(n, r) ==
  r = [i \in 0..n |->
        IF i = 0 THEN [vector |-> <<>>, rest |-> SubSeq(file, 4, Len(file))]
        ELSE LET next == DeserializeFeature(r[i - 1].rest)
             IN  [vector |-> Append(r[i - 1].vector, next.feature), rest |-> next.rest]]

Item == Nat \union SUBSET Nat

(* A feature is six numbers and its bit mask.                               *)
LEMMA FeatureAsItems ==
  ASSUME NEW f \in AnyFeature
  PROVE  LET s == SerializeFeature(f)
         IN  /\ s \in Seq(Item) /\ Len(s) = 6 + Len(f.bitMask)
             /\ s[1] = f.id /\ s[2] = Len(f.bitMask)
             /\ s[3] = f.box.ulRow /\ s[4] = f.box.ulCol
             /\ s[5] = f.box.brRow /\ s[6] = f.box.brCol
             /\ \A k \in 1..Len(f.bitMask) : s[6 + k] = f.bitMask[k]
<1> DEFINE head == <<f.id, Len(f.bitMask), f.box.ulRow, f.box.ulCol, f.box.brRow, f.box.brCol>>
           m == f.bitMask
<1>1. m \in Seq(SUBSET Nat) /\ Len(m) \in Nat
  BY DEF AnyFeature
<1>2. m \in Seq(Item)
  BY <1>1 DEF Item
<1>3. head \in Seq(Item) /\ Len(head) = 6
  BY <1>1 DEF AnyFeature, Item
<1>4. SerializeFeature(f) = head \o m
  BY DEF SerializeFeature
<1>5. /\ head[1] = f.id /\ head[2] = Len(m) /\ head[3] = f.box.ulRow /\ head[4] = f.box.ulCol
      /\ head[5] = f.box.brRow /\ head[6] = f.box.brCol
  OBVIOUS
<1> HIDE DEF head
<1>6. /\ head \o m \in Seq(Item) /\ Len(head \o m) = 6 + Len(m)
      /\ \A i \in 1..6 + Len(m) :
           (head \o m)[i] = IF i <= 6 THEN head[i] ELSE m[i - 6]
  <2>1. /\ head \o m \in Seq(Item) /\ Len(head \o m) = Len(head) + Len(m)
        /\ \A i \in 1..Len(head) + Len(m) :
             (head \o m)[i] = IF i <= Len(head) THEN head[i] ELSE m[i - Len(head)]
    BY <1>2, <1>3, ConcatProperties
  <2> QED
    BY <1>3, <2>1
<1>7. \A k \in 1..6 : (head \o m)[k] = head[k]
  BY <1>1, <1>6
<1>8. ASSUME NEW k \in 1..Len(m)  PROVE (head \o m)[6 + k] = m[k]
  <2>1. 6 + k \in 1..6 + Len(m) /\ ~(6 + k <= 6) /\ (6 + k) - 6 = k
    BY <1>1
  <2> QED
    BY <1>6, <2>1
<1> QED
  BY <1>4, <1>5, <1>6, <1>7, <1>8

(* A part of a sequence.                                                    *)
LEMMA PartOfSeq ==
  ASSUME NEW S, NEW s, NEW a \in Nat, NEW n \in Nat, a <= n, \A i \in a + 1..n : s[i] \in S
  PROVE  LET t == SubSeq(s, a + 1, n)
         IN  t \in Seq(S) /\ Len(t) = n - a /\ \A k \in 1..n - a : t[k] = s[a + k]
<1> DEFINE t == SubSeq(s, a + 1, n)
<1>1. a + 1 \in Int
  OBVIOUS
<1>2. /\ t \in Seq(S) /\ Len(t) = IF a + 1 <= n THEN n - (a + 1) + 1 ELSE 0
      /\ \A i \in 1..n - (a + 1) + 1 : t[i] = s[a + 1 + i - 1]
  BY <1>1, SubSeqProperties
<1> HIDE DEF t
<1>3. Len(t) = n - a
  BY <1>2
<1>4. \A k \in 1..n - a : t[k] = s[a + k]
  BY <1>1, <1>2
<1> QED
  BY <1>2, <1>3, <1>4 DEF t

(* What follows a part of what follows.                                     *)
LEMMA RestOfRest ==
  ASSUME NEW S, NEW s \in Seq(S), NEW a \in Nat, NEW b \in Nat, a + b <= Len(s)
  PROVE  LET t == SubSeq(s, a + 1, Len(s))
         IN  /\ t \in Seq(S) /\ Len(t) = Len(s) - a
             /\ \A k \in 1..Len(t) : t[k] = s[a + k]
             /\ SubSeq(t, b + 1, Len(t)) = SubSeq(s, a + b + 1, Len(s))
<1> DEFINE n == Len(s)
           l == n - a
           t == SubSeq(s, a + 1, n)
           u == SubSeq(t, b + 1, l)
           v == SubSeq(s, a + b + 1, n)
<1>1. n \in Nat /\ \A i \in 1..n : s[i] \in S
  BY ElementOfSeq
<1>2. a + b <= n
  OBVIOUS
<1> HIDE DEF n
<1>3. l \in Nat /\ b <= l /\ a <= n /\ l - b = n - (a + b)
  BY <1>1, <1>2
<1>4. t \in Seq(S) /\ Len(t) = l /\ \A k \in 1..l : t[k] = s[a + k]
  BY <1>1, <1>3, PartOfSeq
<1>5. /\ v \in Seq(S) /\ Len(v) = n - (a + b)
      /\ \A k \in 1..n - (a + b) : v[k] = s[(a + b) + k]
  <2>1. a + b \in Nat
    OBVIOUS
  <2> QED
    BY <1>1, <1>2, <2>1, PartOfSeq
<1> HIDE DEF t, v
<1>6. u \in Seq(S) /\ Len(u) = l - b /\ \A k \in 1..l - b : u[k] = t[b + k]
  <2>1. \A i \in 1..l : t[i] \in S
    BY <1>4, ElementOfSeq
  <2> HIDE DEF l
  <2>2. \A i \in b + 1..l : t[i] \in S
    BY <1>3, <2>1
  <2> QED
    BY <1>3, <2>2, PartOfSeq
<1> HIDE DEF u
<1>7. ASSUME NEW k \in 1..l - b  PROVE u[k] = v[k]
  <2>1. b + k \in 1..l /\ a + (b + k) = (a + b) + k /\ k \in 1..n - (a + b)
    BY <1>1, <1>3
  <2> QED
    BY <1>4, <1>5, <1>6, <2>1
<1>8. u = v
  <2>1. Len(u) = Len(v) /\ \A k \in 1..Len(u) : u[k] = v[k]
    BY <1>3, <1>5, <1>6, <1>7
  <2> QED
    BY <1>5, <1>6, <2>1, SeqEqual
<1> QED
  BY <1>4, <1>8 DEF t, u, v, n

(* A stream that begins with a feature is read as it and what follows.      *)
LEMMA DeserializeFirst ==
  ASSUME NEW f \in AnyFeature, NEW t \in Seq(Item), NEW b, b = Len(SerializeFeature(f)),
         b <= Len(t), \A k \in 1..b : t[k] = SerializeFeature(f)[k]
  PROVE  /\ DeserializeFeature(t).feature = f
         /\ DeserializeFeature(t).rest = SubSeq(t, b + 1, Len(t))
<1> DEFINE m == f.bitMask
           n == Len(m)
           sub == SubSeq(t, 7, 6 + n)
<1>1. m \in Seq(SUBSET Nat) /\ n \in Nat
  BY DEF AnyFeature
<1>2. /\ b = 6 + n
      /\ t[1] = f.id /\ t[2] = n
      /\ t[3] = f.box.ulRow /\ t[4] = f.box.ulCol
      /\ t[5] = f.box.brRow /\ t[6] = f.box.brCol
      /\ \A k \in 1..n : t[6 + k] = m[k]
  <2>1. /\ b = 6 + n
        /\ LET s == SerializeFeature(f)
           IN  /\ s[1] = f.id /\ s[2] = n
               /\ s[3] = f.box.ulRow /\ s[4] = f.box.ulCol
               /\ s[5] = f.box.brRow /\ s[6] = f.box.brCol
               /\ \A k \in 1..n : s[6 + k] = m[k]
    BY FeatureAsItems
  <2> HIDE DEF m, n
  <2>2. 1..6 \subseteq 1..b /\ \A k \in 1..n : 6 + k \in 1..b
    BY <1>1, <2>1
  <2>3. /\ 1 \in 1..b /\ 2 \in 1..b /\ 3 \in 1..b /\ 4 \in 1..b /\ 5 \in 1..b /\ 6 \in 1..b
    BY <1>1, <2>1
  <2> QED
    BY <2>1, <2>2, <2>3
<1>3. sub = m
  <2> HIDE DEF m, n
  <2>1. ASSUME NEW i \in 7..6 + n  PROVE t[i] \in SUBSET Nat
    <3>1. i - 6 \in 1..n /\ 6 + (i - 6) = i
      BY <1>1
    <3>2. m[i - 6] \in SUBSET Nat
      BY <1>1, <3>1, ElementOfSeq DEF n
    <3> QED
      BY <1>2, <3>1, <3>2
  <2>2. 6 + n \in Nat /\ 6 \in Nat /\ 6 <= 6 + n /\ 6 + 1 = 7 /\ (6 + n) - 6 = n
    BY <1>1
  <2>3. sub \in Seq(SUBSET Nat) /\ Len(sub) = n /\ \A k \in 1..n : sub[k] = t[6 + k]
    <3>1. \A i \in 6 + 1..6 + n : t[i] \in SUBSET Nat
      BY <2>1
    <3> DEFINE u == SubSeq(t, 6 + 1, 6 + n)
    <3>2. /\ u \in Seq(SUBSET Nat) /\ Len(u) = (6 + n) - 6
          /\ \A k \in 1..(6 + n) - 6 : u[k] = t[6 + k]
      BY <2>2, <3>1, PartOfSeq
    <3> QED
      BY <2>2, <3>2
  <2> HIDE DEF sub
  <2>4. \A k \in 1..n : sub[k] = m[k]
    BY <1>2, <2>3
  <2> QED
    BY <1>1, <2>3, <2>4, SeqEqual DEF n
<1>4. f = NewFeature(f.id, BoundingBox(f.box.ulRow, f.box.ulCol, f.box.brRow, f.box.brCol), m)
  BY DEF AnyFeature, NewFeature, BoundingBox
<1>5. DeserializeFeature(t).feature =
        NewFeature(t[1], BoundingBox(t[3], t[4], t[5], t[6]), SubSeq(t, 7, 6 + t[2]))
  BY DEF DeserializeFeature
<1>6. DeserializeFeature(t).rest = SubSeq(t, 7 + t[2], Len(t))
  BY DEF DeserializeFeature
<1>7. 7 + n = b + 1
  <2> HIDE DEF n
  <2> QED
    BY <1>1, <1>2
<1> QED
  BY <1>2, <1>3, <1>4, <1>5, <1>6, <1>7

(* deserialize reads what serialize wrote.                                  *)
LEMMA ReadsWhatIsWritten ==
  ASSUME NEW vector \in Seq(AnyFeature), NEW height \in Nat, NEW width \in Nat,
         file = FileOf(height, width, vector)
  PROVE  /\ file[1] = height /\ file[2] = width /\ file[3] = Len(vector)
         /\ file # NoFile
         /\ FeaturesRead(Len(vector)) = vector
<1> DEFINE n == Len(vector)
           seqs == [i \in 1..n |-> SerializeFeature(vector[i])]
           s == FlattenSeq(seqs)
           head == <<height, width, n>>
<1>1. n \in Nat /\ \A i \in 1..n : vector[i] \in AnyFeature
  BY ElementOfSeq
<1>2. seqs \in Seq(Seq(Item)) /\ Len(seqs) = n
  <2>1. \A i \in 1..n : SerializeFeature(vector[i]) \in Seq(Item)
    BY <1>1, FeatureAsItems
  <2> HIDE DEF n
  <2> QED
    BY <1>1, <2>1
<1>3. \A i \in 1..n : seqs[i] = SerializeFeature(vector[i])
  OBVIOUS
<1> HIDE DEF seqs
<1>4. s \in Seq(Item) /\ \E off : Parts(seqs, n, s, off)
  BY <1>2, FlattenSeqParts
<1>5. PICK off : Parts(seqs, n, s, off)
  BY <1>4
<1>6. head \in Seq(Item) /\ Len(head) = 3 /\ head[1] = height /\ head[2] = width /\ head[3] = n
  BY <1>1 DEF Item
<1>7. file = head \o s
  BY DEF FileOf, seqs
<1> HIDE DEF s, head, n
<1>8. /\ file \in Seq(Item) /\ Len(file) = 3 + Len(s)
      /\ \A i \in 1..3 + Len(s) : file[i] = IF i <= 3 THEN head[i] ELSE s[i - 3]
  <2>1. /\ head \o s \in Seq(Item) /\ Len(head \o s) = Len(head) + Len(s)
        /\ \A i \in 1..Len(head) + Len(s) :
             (head \o s)[i] = IF i <= Len(head) THEN head[i] ELSE s[i - Len(head)]
    BY <1>4, <1>6, ConcatProperties
  <2> QED
    BY <1>6, <1>7, <2>1
<1>9. Len(s) \in Nat
  BY <1>4
<1>10. file[1] = height /\ file[2] = width /\ file[3] = n /\ file # NoFile
  <2>1. 1 \in 1..3 + Len(s) /\ 2 \in 1..3 + Len(s) /\ 3 \in 1..3 + Len(s)
    BY <1>9
  <2>2. Len(file) # 0
    BY <1>8, <1>9
  <2> QED
    BY <1>6, <1>8, <2>1, <2>2 DEF NoFile
<1>11. SubSeq(file, 4, Len(file)) = s
  <2> DEFINE u == SubSeq(file, 3 + 1, 3 + Len(s))
  <2>1. \A i \in 3 + 1..3 + Len(s) : file[i] \in Item
    <3>1. \A i \in 3 + 1..3 + Len(s) : i \in 1..Len(file)
      BY <1>8, <1>9
    <3> QED
      BY <1>8, <3>1, ElementOfSeq
  <2>2. /\ u \in Seq(Item) /\ Len(u) = (3 + Len(s)) - 3
        /\ \A k \in 1..(3 + Len(s)) - 3 : u[k] = file[3 + k]
    BY <1>9, <2>1, PartOfSeq
  <2>3. (3 + Len(s)) - 3 = Len(s) /\ 3 + 1 = 4
    BY <1>9
  <2>4. \A k \in 1..Len(s) : 3 + k \in 1..3 + Len(s) /\ ~(3 + k <= 3) /\ (3 + k) - 3 = k
    BY <1>9
  <2> HIDE DEF u
  <2>5. \A k \in 1..Len(s) : u[k] = s[k]
    BY <1>8, <2>2, <2>3, <2>4
  <2>6. u = s
    BY <1>4, <2>2, <2>3, <2>5, SeqEqual
  <2> QED
    BY <1>8, <2>3, <2>6 DEF u
<1> DEFINE rest(i) == SubSeq(s, off[i] + 1, Len(s))
           r0 == [i \in 0..n |-> [vector |-> SubSeq(vector, 1, i), rest |-> rest(i)]]
<1>12. /\ off \in [0..n -> Nat] /\ off[0] = 0 /\ off[n] = Len(s)
       /\ \A i \in 1..n : /\ off[i] = off[i - 1] + Len(seqs[i])
                          /\ off[i] <= Len(s)
                          /\ \A k \in 1..Len(seqs[i]) : s[off[i - 1] + k] = seqs[i][k]
  BY <1>5 DEF Parts
<1>13. ASSUME NEW i \in 1..n
       PROVE  /\ DeserializeFeature(rest(i - 1)).feature = vector[i]
              /\ DeserializeFeature(rest(i - 1)).rest = rest(i)
  <2> DEFINE a == off[i - 1]
             b == Len(seqs[i])
             t == SubSeq(s, a + 1, Len(s))
  <2>1. i - 1 \in 0..n /\ a \in Nat
    BY <1>1, <1>12
  <2>2. b \in Nat /\ seqs[i] = SerializeFeature(vector[i]) /\ vector[i] \in AnyFeature
    BY <1>1, <1>2, <1>3
  <2>3. off[i] = a + b /\ a + b <= Len(s) /\ \A k \in 1..b : s[a + k] = seqs[i][k]
    BY <1>12
  <2> HIDE DEF a, b
  <2>4. /\ t \in Seq(Item) /\ Len(t) = Len(s) - a
        /\ \A k \in 1..Len(t) : t[k] = s[a + k]
        /\ SubSeq(t, b + 1, Len(t)) = SubSeq(s, a + b + 1, Len(s))
    BY <1>4, <2>1, <2>2, <2>3, RestOfRest
  <2> HIDE DEF t
  <2>5. b <= Len(t)
    BY <1>9, <2>1, <2>2, <2>3, <2>4
  <2>6. \A k \in 1..b : k \in 1..Len(t)
    BY <1>9, <2>1, <2>2, <2>4, <2>5
  <2>7. \A k \in 1..b : t[k] = SerializeFeature(vector[i])[k]
    BY <2>2, <2>3, <2>4, <2>6
  <2>8. b = Len(SerializeFeature(vector[i]))
    BY <2>2 DEF b
  <2>9. /\ DeserializeFeature(t).feature = vector[i]
        /\ DeserializeFeature(t).rest = SubSeq(t, b + 1, Len(t))
    BY <2>2, <2>4, <2>5, <2>7, <2>8, DeserializeFirst
  <2>10. rest(i - 1) = t /\ rest(i) = SubSeq(s, a + b + 1, Len(s))
    BY <2>3 DEF t, a
  <2> QED
    BY <2>4, <2>9, <2>10
<1>14. rest(0) = s
  <2>1. SubSeq(s, 1, Len(s)) = s
    BY <1>4, SubSeqFull
  <2> QED
    BY <1>12, <2>1
<1> HIDE DEF rest
<1>15. ASSUME NEW i \in 1..n
       PROVE  SubSeq(vector, 1, i) = Append(SubSeq(vector, 1, i - 1), vector[i])
  <2>1. SubSeq(vector, 1, i) = SubSeq(vector, 1, i - 1) \o <<vector[i]>>
    BY SubSeqRecursiveSecond, <1>1 DEF n
  <2>2. SubSeq(vector, 1, i - 1) \in Seq(AnyFeature)
    <3>1. i - 1 \in Int /\ \A k \in 1..i - 1 : k \in 1..n
      BY <1>1
    <3> QED
      BY <1>1, <3>1, SubSeqProperties
  <2>3. vector[i] \in AnyFeature
    BY <1>1
  <2> QED
    BY <2>1, <2>2, <2>3, AppendIsConcat
<1>16. SubSeq(vector, 1, 0) = <<>>
  BY SubSeqEmpty
<1>17. SubSeq(vector, 1, n) = vector
  BY SubSeqFull DEF n
<1>18. Read(n, r0)
  <2>1. ASSUME NEW i \in 0..n
        PROVE  r0[i] = IF i = 0 THEN [vector |-> <<>>, rest |-> SubSeq(file, 4, Len(file))]
                       ELSE LET next == DeserializeFeature(r0[i - 1].rest)
                            IN  [vector |-> Append(r0[i - 1].vector, next.feature), rest |-> next.rest]
    <3>1. CASE i = 0
      BY <3>1, <1>11, <1>14, <1>16
    <3>2. CASE i # 0
      <4>1. i \in 1..n /\ i - 1 \in 0..n
        BY <1>1, <3>2
      <4>2. r0[i - 1].rest = rest(i - 1) /\ r0[i - 1].vector = SubSeq(vector, 1, i - 1)
        BY <4>1
      <4>3. r0[i] = [vector |-> SubSeq(vector, 1, i), rest |-> rest(i)]
        OBVIOUS
      <4> HIDE DEF r0
      <4> QED
        BY <3>2, <4>1, <4>2, <4>3, <1>13, <1>15
    <3> QED
      BY <3>1, <3>2
  <2>2. r0 = [i \in 0..n |-> r0[i]]
    OBVIOUS
  <2> HIDE DEF r0
  <2> QED
    BY <2>1, <2>2 DEF Read
<1>19. ASSUME NEW r, Read(n, r), NEW i \in 0..n  PROVE r[i] = r0[i]
  <2> DEFINE T == {k \in 0..n : r[k] # r0[k]}
  <2> HIDE DEF r0
  <2>1. SUFFICES ASSUME T # {}  PROVE FALSE
    BY <2>1
  <2>2. PICK m \in T : \A k \in T : m <= k
    <3> T \in SUBSET Nat
      OBVIOUS
    <3> QED
      BY <2>1, LeastNumber
  <2>3. m \in 0..n /\ r[m] # r0[m]
    OBVIOUS
  <2>4. m # 0
    BY <1>18, <1>19, <2>3 DEF Read
  <2>5. m - 1 \in 0..n /\ ~(m <= m - 1)
    BY <1>1, <2>3, <2>4
  <2>6. r[m - 1] = r0[m - 1]
    BY <2>2, <2>5
  <2> HIDE DEF T
  <2> QED
    BY <1>18, <1>19, <2>3, <2>4, <2>6 DEF Read
<1>20. FeaturesRead(n) = (CHOOSE r : Read(n, r))[n].vector
  BY DEF FeaturesRead, Read
<1>21. Read(n, CHOOSE r : Read(n, r))
  <2> HIDE DEF r0
  <2> QED
    BY <1>18
<1>22. n \in 0..n
  BY <1>1
<1>23. r0[n].vector = vector
  BY <1>17, <1>22
<1> HIDE DEF r0
<1>24. FeaturesRead(n) = vector
  BY <1>19, <1>20, <1>21, <1>22, <1>23
<1> QED
  BY <1>10, <1>24 DEF n

-----------------------------------------------------------------------------
(* The inductive invariant of the collection.                               *)

Ids(vector) == {vector[i].id : i \in 1..Len(vector)}

(* Pixels are known under the identifiers up to some number.                *)
TruthInv ==
  truth \in [pixels : UNION {[0..n - 1 -> SUBSET (Nat \X Nat)] : n \in Nat},
             here : SUBSET Nat, indexed : SUBSET Nat, saved : SUBSET Nat]

(* The vector has the features it should have, and the tree those that were *)
(* there when it was built.                                                 *)
VectorInv ==
  /\ \A i \in 1..Len(features) : StandsFor(features[i], truth.pixels)
  /\ truth.here = Ids(features)
  /\ truth.indexed = {features[i].id : i \in Indexed}

(* The file is that of a vector of the features that it should have.        *)
FileInv ==
  file = NoFile \/
  \E vector \in Seq(AnyFeature), height \in Nat, width \in Nat :
    /\ file = FileOf(height, width, vector)
    /\ \A i \in 1..Len(vector) : StandsFor(vector[i], truth.pixels)
    /\ truth.saved = Ids(vector)

ImageInv == imageHeight \in Nat /\ imageWidth \in Nat

(* What a call has returned is right until another one begins.              *)
AnswerInv == result = Nothing \/ (call = "none" /\ LookupIsRight /\ WritingsShowFeatures)

ContentsInv == TruthInv /\ VectorInv /\ FileInv /\ ImageInv
CollectionInv == LookupInv /\ ContentsInv /\ AnswerInv

(* Nothing is wrong with no answer.                                         *)
LEMMA NoAnswer ==
  result = Nothing => AnswerInv /\ LookupIsRight /\ WritingsShowFeatures
BY DEF Nothing, AnswerInv, LookupIsRight, WritingsShowFeatures, ReachedTilesShowFeatures,
       MaskKinds, FileShowsFeatures

LEMMA NoAnswerNext ==
  result' = Nothing => AnswerInv'
BY DEF Nothing, AnswerInv

LEMMA EmptyIds == Ids(<<>>) = {}
BY DEF Ids

LEMMA IdsOfBoth ==
  ASSUME NEW s \in Seq(AnyFeature), NEW t \in Seq(AnyFeature)
  PROVE  Ids(s \o t) = Ids(s) \union Ids(t)
<1> DEFINE u == s \o t
<1>1. /\ u \in Seq(AnyFeature) /\ Len(u) = Len(s) + Len(t)
      /\ \A i \in 1..Len(s) + Len(t) : u[i] = IF i <= Len(s) THEN s[i] ELSE t[i - Len(s)]
  BY ConcatProperties
<1>2. Len(s) \in Nat /\ Len(t) \in Nat
  OBVIOUS
<1> HIDE DEF u
<1>3. ASSUME NEW i \in 1..Len(s)  PROVE i \in 1..Len(u) /\ u[i] = s[i]
  BY <1>1, <1>2
<1>4. ASSUME NEW i \in 1..Len(t)  PROVE i + Len(s) \in 1..Len(u) /\ u[i + Len(s)] = t[i]
  <2>1. i + Len(s) \in 1..Len(s) + Len(t) /\ ~(i + Len(s) <= Len(s)) /\ (i + Len(s)) - Len(s) = i
    BY <1>2
  <2> QED
    BY <1>1, <2>1
<1>5. ASSUME NEW i \in 1..Len(u)
      PROVE  (i \in 1..Len(s) /\ u[i] = s[i]) \/ (i - Len(s) \in 1..Len(t) /\ u[i] = t[i - Len(s)])
  BY <1>1, <1>2
<1>6. Ids(u) \subseteq Ids(s) \union Ids(t)
  BY <1>5 DEF Ids
<1>7. Ids(s) \subseteq Ids(u)
  BY <1>3 DEF Ids
<1>8. Ids(t) \subseteq Ids(u)
  BY <1>4 DEF Ids
<1> QED
  BY <1>6, <1>7, <1>8 DEF u

LEMMA MembersOfBoth ==
  ASSUME NEW s \in Seq(AnyFeature), NEW t \in Seq(AnyFeature), NEW pixels,
         \A i \in 1..Len(s) : StandsFor(s[i], pixels),
         \A i \in 1..Len(t) : StandsFor(t[i], pixels)
  PROVE  /\ s \o t \in Seq(AnyFeature)
         /\ \A i \in 1..Len(s \o t) : StandsFor((s \o t)[i], pixels)
         /\ StartsWith(s \o t, s)
<1> DEFINE u == s \o t
<1>1. /\ u \in Seq(AnyFeature) /\ Len(u) = Len(s) + Len(t)
      /\ \A i \in 1..Len(s) + Len(t) : u[i] = IF i <= Len(s) THEN s[i] ELSE t[i - Len(s)]
  BY ConcatProperties
<1>2. Len(s) \in Nat /\ Len(t) \in Nat
  OBVIOUS
<1> HIDE DEF u
<1>3. ASSUME NEW i \in 1..Len(u)  PROVE StandsFor(u[i], pixels)
  <2>1. CASE i <= Len(s)
    <3>1. i \in 1..Len(s) /\ u[i] = s[i]
      BY <1>1, <1>2, <2>1
    <3> QED
      BY <3>1
  <2>2. CASE ~(i <= Len(s))
    <3>1. i - Len(s) \in 1..Len(t) /\ u[i] = t[i - Len(s)]
      BY <1>1, <1>2, <2>2
    <3> QED
      BY <3>1
  <2> QED
    BY <2>1, <2>2
<1>4. StartsWith(u, s)
  <2>1. Len(s) <= Len(u) /\ \A i \in 1..Len(s) : u[i] = s[i]
    BY <1>1, <1>2
  <2> QED
    BY <2>1 DEF StartsWith
<1> QED
  BY <1>1, <1>3, <1>4 DEF u

(* Identifiers that are added change nothing about the others.              *)
LEMMA StandsForMore ==
  ASSUME NEW f, NEW pixels, NEW more, StandsFor(f, pixels),
         DOMAIN pixels \subseteq DOMAIN more, \A id \in DOMAIN pixels : more[id] = pixels[id]
  PROVE  StandsFor(f, more)
BY DEF StandsFor

(* The least of some numbers.                                               *)
LEMMA LeastOf ==
  ASSUME NEW S \in SUBSET Nat, S # {}
  PROVE  Min(S) \in S /\ \A n \in S : Min(S) <= n
<1>1. \E m \in S : \A n \in S : m <= n
  BY LeastNumber
<1> QED
  BY <1>1 DEF Min

(* The blob of pixels that a user adds has the box that they span.          *)
LEMMA BlobOfSpans ==
  ASSUME NEW S \in SUBSET (Nat \X Nat), S # {}, IsFiniteSet(S)
  PROVE  BlobOf(S).pixels = S /\ Spans(BoxOf(BlobOf(S)), S)
<1> DEFINE R == {p[1] : p \in S}
           C == {p[2] : p \in S}
           box == BoxOf(BlobOf(S))
<1>1. R \in SUBSET Nat /\ C \in SUBSET Nat /\ R # {} /\ C # {}
  OBVIOUS
<1>2. IsFiniteSet(R) /\ IsFiniteSet(C)
  <2>1. [p \in S |-> p[1]] \in Surjection(S, R) /\ [p \in S |-> p[2]] \in Surjection(S, C)
    BY DEF Surjection
  <2> QED
    BY <2>1, FS_Surjection
<1> HIDE DEF R, C
<1>3. /\ Min(R) \in R /\ \A n \in R : Min(R) <= n
      /\ Max(R) \in R /\ \A n \in R : n <= Max(R)
      /\ Min(C) \in C /\ \A n \in C : Min(C) <= n
      /\ Max(C) \in C /\ \A n \in C : n <= Max(C)
  BY <1>1, <1>2, LeastOf, GreatestNumber
<1>4. /\ box.ulRow = Min(R) /\ box.brRow = Max(R) + 1
      /\ box.ulCol = Min(C) /\ box.brCol = Max(C) + 1
      /\ box = [ulRow |-> box.ulRow, ulCol |-> box.ulCol, brRow |-> box.brRow, brCol |-> box.brCol]
  BY DEF BoxOf, BlobOf, BoundingBox, R, C
<1>5. BlobOf(S).pixels = S
  BY DEF BlobOf
<1> HIDE DEF box
<1>6. box \in NatBox
  BY <1>1, <1>3, <1>4 DEF NatBox
<1>7. ASSUME NEW p \in S
      PROVE  /\ box.ulRow <= p[1] /\ p[1] + 1 <= box.brRow
             /\ box.ulCol <= p[2] /\ p[2] + 1 <= box.brCol
  <2>1. p[1] \in R /\ p[2] \in C
    BY DEF R, C
  <2> QED
    BY <1>1, <1>3, <1>4, <2>1
<1>8. \E p, q \in S : p[1] = box.ulRow /\ q[1] + 1 = box.brRow
  <2>1. (\E p \in S : p[1] = Min(R)) /\ \E q \in S : q[1] = Max(R)
    BY <1>3 DEF R
  <2> QED
    BY <1>4, <2>1
<1>9. \E p, q \in S : p[2] = box.ulCol /\ q[2] + 1 = box.brCol
  <2>1. (\E p \in S : p[2] = Min(C)) /\ \E q \in S : q[2] = Max(C)
    BY <1>3 DEF C
  <2> QED
    BY <1>4, <2>1
<1> QED
  BY <1>5, <1>6, <1>7, <1>8, <1>9 DEF Spans, box

(* A feature made from a blob stands for its pixels.                        *)
LEMMA BlobStandsFor ==
  ASSUME NEW b, Spans(BoxOf(b), b.pixels), NEW id \in Nat, NEW pixels,
         id \in DOMAIN pixels, pixels[id] = b.pixels
  PROVE  /\ StandsFor(NewFeature(id, BoxOf(b), BitMaskOf(b)), pixels)
         /\ NewFeature(id, BoxOf(b), BitMaskOf(b)).id = id
<1> DEFINE S == b.pixels
           box == BoxOf(b)
           f == NewFeature(id, box, BitMaskOf(b))
<1>1. f.id = id /\ f.box = box /\ f = NewFeature(f.id, f.box, BitMaskOf(b))
  BY DEF NewFeature
<1>2. {p \in (b.rowMin..b.rowMax - 1) \X (b.colMin..b.colMax - 1) : IsPixelInFeature(b, p)} = S
  <2>1. box \in NatBox /\ \A p \in S : InBox(box, p)
    BY SpanSizes DEF Spans
  <2>2. /\ b.rowMin \in Nat /\ b.rowMax \in Nat /\ b.colMin \in Nat /\ b.colMax \in Nat
    BY <2>1 DEF NatBox, BoxOf, BoundingBox
  <2>3. ASSUME NEW p \in S
        PROVE  /\ p = <<p[1], p[2]>>
               /\ p[1] \in b.rowMin..b.rowMax - 1 /\ p[2] \in b.colMin..b.colMax - 1
    BY <2>1, <2>2 DEF InBox, BoxOf, BoundingBox
  <2>4. ASSUME NEW p \in S
        PROVE  p \in (b.rowMin..b.rowMax - 1) \X (b.colMin..b.colMax - 1) /\ IsPixelInFeature(b, p)
    BY <2>3 DEF IsPixelInFeature
  <2> QED
    BY <2>4 DEF IsPixelInFeature
<1>3. BitMaskOf(b) = BitMask(box, S)
  BY <1>2 DEF BitMaskOf
<1> HIDE DEF f
<1> QED
  BY <1>1, <1>3 DEF StandsFor, f

-----------------------------------------------------------------------------
(* What the steps do to the contents.                                       *)

(* A vector that a tree is built for is the one that the tree stands for.   *)
LEMMA Rebuilt ==
  ASSUME NEW vector \in Seq(AnyFeature), Preprocess(vector)
  PROVE  /\ features' = vector
         /\ {features[i].id : i \in Indexed}' = Ids(vector)
<1>1. features' = vector
  BY DEF Preprocess
<1>2. Indexed' = 1..Len(vector)
  <2>1. CASE vector = <<>>
    <3>1. tree' = <<>> /\ Len(vector) = 0
      BY <2>1 DEF Preprocess
    <3> QED
      BY <3>1 DEF Indexed
  <2>2. CASE vector # <<>>
    <3>1. tree' = [n \in {0} |-> NodeOf(0, Len(vector))]
      BY <2>2 DEF Preprocess
    <3>2. tree' # <<>> /\ tree'[0].objects = 0 + 1..Len(vector)
      BY <3>1 DEF NodeOf
    <3> QED
      BY <3>2 DEF Indexed
  <2> QED
    BY <2>1, <2>2
<1> QED
  BY <1>1, <1>2 DEF Ids

(* The contents are right again when a tree is built for a vector that      *)
(* holds what it should.                                                    *)
LEMMA RebuiltContents ==
  ASSUME NEW vector \in Seq(AnyFeature), Preprocess(vector),
         \A i \in 1..Len(vector) : StandsFor(vector[i], truth'.pixels),
         truth'.here = Ids(vector), truth'.indexed = Ids(vector)
  PROVE  VectorInv'
BY Rebuilt DEF VectorInv

(* The tree is built again.                                                 *)
LEMMA BuildsTree ==
  ASSUME call = "none", NEW vector \in Seq(AnyFeature), Preprocess(vector)
  PROVE  BuildTree
BY DEF BuildTree, Preprocess

(* Features added behind the others leave those that the tree stands for.   *)
LEMMA AddedBehind ==
  ASSUME LookupInv, NEW vector \in Seq(AnyFeature), features' = vector, tree' = tree,
         StartsWith(vector, features)
  PROVE  {features[i].id : i \in Indexed}' = {features[i].id : i \in Indexed}
<1>1. Indexed' = Indexed
  BY DEF Indexed
<1>2. Indexed \subseteq 1..Len(features)
  <2>1. CASE tree = <<>>
    BY <2>1 DEF Indexed
  <2>2. CASE tree # <<>>
    BY <2>2 DEF LookupInv, TreeTypeOK, RangeInv, Indexed
  <2> QED
    BY <2>1, <2>2
<1>3. \A i \in Indexed : vector[i] = features[i]
  BY <1>2 DEF StartsWith
<1> QED
  BY <1>1, <1>3

(* The pixels of a new identifier leave those of the others as they are.    *)
LEMMA OneMore ==
  ASSUME TruthInv, NEW S \in SUBSET (Nat \X Nat)
  PROVE  LET id == Cardinality(DOMAIN truth.pixels)
             more == [i \in DOMAIN truth.pixels \union {id} |-> IF i = id THEN S ELSE truth.pixels[i]]
         IN  /\ id \in Nat /\ id \notin DOMAIN truth.pixels
             /\ more \in UNION {[0..n - 1 -> SUBSET (Nat \X Nat)] : n \in Nat}
             /\ \A i \in DOMAIN truth.pixels : more[i] = truth.pixels[i]
<1> DEFINE pixels == truth.pixels
           id == Cardinality(DOMAIN pixels)
           more == [i \in DOMAIN pixels \union {id} |-> IF i = id THEN S ELSE pixels[i]]
<1>1. PICK n \in Nat : pixels \in [0..n - 1 -> SUBSET (Nat \X Nat)]
  BY DEF TruthInv
<1>2. DOMAIN pixels = 0..n - 1
  BY <1>1
<1>3. id = n
  BY <1>2, IntervalCount
<1> HIDE DEF pixels, id
<1>4. 0..n - 1 \union {n} = 0..(n + 1) - 1 /\ n \notin 0..n - 1
  OBVIOUS
<1>5. more = [i \in 0..(n + 1) - 1 |-> IF i = n THEN S ELSE pixels[i]]
  BY <1>2, <1>3, <1>4
<1>6. \A i \in 0..(n + 1) - 1 : (IF i = n THEN S ELSE pixels[i]) \in SUBSET (Nat \X Nat)
  BY <1>1
<1>7. more \in [0..(n + 1) - 1 -> SUBSET (Nat \X Nat)]
  BY <1>5, <1>6
<1>8. \A i \in DOMAIN pixels : more[i] = pixels[i]
  BY <1>2, <1>3, <1>4
<1>9. n + 1 \in Nat
  OBVIOUS
<1> HIDE DEF more
<1>10. more \in UNION {[0..m - 1 -> SUBSET (Nat \X Nat)] : m \in Nat}
  BY <1>7, <1>9
<1> QED
  BY <1>2, <1>3, <1>4, <1>8, <1>10 DEF more, id, pixels

(* The file has what it should, however many identifiers are added.         *)
LEMMA FileStays ==
  ASSUME FileInv, file' = file, truth'.saved = truth.saved,
         DOMAIN truth.pixels \subseteq DOMAIN truth'.pixels,
         \A id \in DOMAIN truth.pixels : truth'.pixels[id] = truth.pixels[id]
  PROVE  FileInv'
<1>1. CASE file = NoFile
  BY <1>1 DEF FileInv
<1>2. CASE file # NoFile
  <2>1. PICK vector \in Seq(AnyFeature), height \in Nat, width \in Nat :
          /\ file = FileOf(height, width, vector)
          /\ \A i \in 1..Len(vector) : StandsFor(vector[i], truth.pixels)
          /\ truth.saved = Ids(vector)
    BY <1>2 DEF FileInv
  <2>2. \A i \in 1..Len(vector) : StandsFor(vector[i], truth'.pixels)
    BY <2>1, StandsForMore
  <2> QED
    BY <2>1, <2>2 DEF FileInv
<1> QED
  BY <1>1, <1>2

(* Nothing of the contents changes.                                         *)
LEMMA ContentsStay ==
  ASSUME ContentsInv, UNCHANGED <<features, tree, truth, file, imageHeight, imageWidth>>
  PROVE  ContentsInv'
<1>1. TruthInv' /\ ImageInv'
  BY DEF ContentsInv, TruthInv, ImageInv
<1>2. FileInv'
  BY FileStays DEF ContentsInv
<1>3. Indexed' = Indexed
  BY DEF Indexed
<1>4. VectorInv'
  BY <1>3 DEF ContentsInv, VectorInv
<1> QED
  BY <1>1, <1>2, <1>4 DEF ContentsInv

(* Sorting a range moves features about and loses none.                     *)
LEMMA SortedIds ==
  ASSUME features \in Seq(AnyFeature), NEW S, S \subseteq 1..Len(features), NEW dim,
         NEW s \in Sorted(S, dim)
  PROVE  Ids(s) = Ids(features)
<1>1. PICK f \in Permutation(S) :
        s = [i \in 1..Len(features) |-> features[IF i \in S THEN f[i] ELSE i]]
  BY DEF Sorted
<1>2. f \in [S -> S] /\ \A i \in S : \E j \in S : f[j] = i
  BY DEF Permutation
<1>3. Len(s) = Len(features)
  BY SortedRange
<1>4. ASSUME NEW i \in 1..Len(features)
      PROVE  /\ \E j \in 1..Len(features) : s[i] = features[j]
             /\ \E j \in 1..Len(features) : features[i] = s[j]
  <2>1. CASE i \in S
    <3>1. s[i] = features[f[i]] /\ f[i] \in S
      BY <1>1, <1>2, <2>1
    <3>2. PICK j \in S : f[j] = i
      BY <1>2, <2>1
    <3>3. s[j] = features[i]
      BY <1>1, <3>2
    <3> QED
      BY <3>1, <3>3
  <2>2. CASE i \notin S
    BY <1>1, <2>2
  <2> QED
    BY <2>1, <2>2
<1>5. ASSUME NEW x \in Ids(s)  PROVE x \in Ids(features)
  <2>1. PICK i \in 1..Len(features) : x = s[i].id
    BY <1>3 DEF Ids
  <2>2. PICK j \in 1..Len(features) : s[i] = features[j]
    BY <1>4
  <2> QED
    BY <2>1, <2>2 DEF Ids
<1>6. ASSUME NEW x \in Ids(features)  PROVE x \in Ids(s)
  <2>1. PICK i \in 1..Len(features) : x = features[i].id
    BY DEF Ids
  <2>2. PICK j \in 1..Len(features) : features[i] = s[j]
    BY <1>4
  <2> QED
    BY <1>3, <2>1, <2>2 DEF Ids
<1> QED
  BY <1>5, <1>6

(* While the tree is built it stands for all the features.                  *)
LEMMA IndexedAll ==
  LookupInv /\ call = "preprocess" => Indexed = 1..Len(features)
<1> SUFFICES ASSUME LookupInv, call = "preprocess" PROVE Indexed = 1..Len(features)
  OBVIOUS
<1>1. /\ tree[0].objects = 1..Len(features) /\ loop.nodesEnd \in Nat /\ loop.nodesEnd > 0
      /\ DOMAIN tree = 0..(IF loop.splitOccurred THEN 2 * loop.nodesEnd ELSE loop.nodesEnd - 1)
  BY DEF LookupInv, TreeTypeOK, LevelInv
<1>2. 0 \in DOMAIN tree
  BY <1>1
<1>3. tree # <<>>
  BY <1>2
<1> QED
  BY <1>1, <1>3 DEF Indexed

LEMMA IndexedAllNext ==
  (LookupInv /\ call = "preprocess" => Indexed = 1..Len(features))'
BY IndexedAll, PTL

LEMMA PreprocessStepKeepsContents ==
  ASSUME LookupInv, ContentsInv, LookupInv', PreprocessStep,
         UNCHANGED <<truth, file, imageHeight, imageWidth>>
  PROVE  ContentsInv'
<1>1. CASE UNCHANGED <<features, tree>>
  BY <1>1, ContentsStay
<1>2. ASSUME call = "preprocess", call' = "preprocess", Ids(features') = Ids(features),
             \A i \in 1..Len(features') : StandsFor(features'[i], truth.pixels)
      PROVE  ContentsInv'
  <2>1. Indexed = 1..Len(features) /\ Indexed' = 1..Len(features')
    BY <1>2, IndexedAll, IndexedAllNext
  <2>2. truth.here = Ids(features) /\ truth.indexed = Ids(features)
    BY <2>1 DEF ContentsInv, VectorInv, Ids
  <2>3. {features[i].id : i \in Indexed}' = Ids(features')
    BY <2>1 DEF Ids
  <2>4. VectorInv'
    BY <1>2, <2>2, <2>3 DEF VectorInv
  <2>5. FileInv' /\ TruthInv' /\ ImageInv'
    BY FileStays DEF ContentsInv, TruthInv, ImageInv
  <2> QED
    BY <2>4, <2>5 DEF ContentsInv
<1>3. CASE KeepNode
  <2>1. call = "preprocess" /\ call' = "preprocess" /\ features' = features
    BY <1>3 DEF KeepNode, InLevel
  <2> QED
    BY <1>2, <2>1 DEF ContentsInv, VectorInv
<1>4. CASE SplitNode
  <2> DEFINE S == tree[loop.node].begin + 1..tree[loop.node].end
  <2>1. /\ call = "preprocess" /\ call' = "preprocess" /\ InLevel
        /\ features' \in Sorted(S, loop.splitDim)
    BY <1>4 DEF SplitNode, InLevel
  <2>2. features \in Seq(AnyFeature)
    BY DEF LookupInv, TreeTypeOK
  <2>3. S \subseteq 1..Len(features)
    <3>1. loop.node \in DOMAIN tree /\ ~Built(loop.node)
      <4>1. /\ DOMAIN tree = 0..(IF loop.splitOccurred THEN 2 * loop.nodesEnd ELSE loop.nodesEnd - 1)
            /\ loop.node \in Nat /\ loop.nodesEnd \in Nat /\ loop.node < loop.nodesEnd
        BY <2>1 DEF LookupInv, TreeTypeOK, LevelInv, InLevel
      <4> QED
        BY <2>1, <4>1 DEF Built
    <3> QED
      BY <3>1 DEF LookupInv, RangeInv
  <2> HIDE DEF S
  <2>4. Ids(features') = Ids(features)
    BY <2>1, <2>2, <2>3, SortedIds
  <2>5. /\ Len(features') = Len(features)
        /\ \A i \in S : \E j \in S : features'[i] = features[j]
        /\ \A i \in 1..Len(features) : i \notin S => features'[i] = features[i]
    <3>1. PICK dim : dim = loop.splitDim
      OBVIOUS
    <3>2. PICK s \in Sorted(S, dim) : s = features'
      BY <2>1, <3>1
    <3>3. /\ s \in Seq(AnyFeature) /\ Len(s) = Len(features)
          /\ \A i \in S : \E j \in S : s[i] = features[j]
          /\ \A i \in 1..Len(features) : i \notin S => s[i] = features[i]
      BY <2>2, <2>3, <3>2, SortedRange
    <3> QED
      BY <3>2, <3>3
  <2>6. \A i \in 1..Len(features') : StandsFor(features'[i], truth.pixels)
    BY <2>3, <2>5 DEF ContentsInv, VectorInv
  <2> QED
    BY <1>2, <2>1, <2>4, <2>6
<1>5. CASE EndLevel
  BY <1>5, <1>1 DEF EndLevel
<1> QED
  BY <1>3, <1>4, <1>5 DEF PreprocessStep

-----------------------------------------------------------------------------
(* The calls that change the collection are steps of the tree's user, and   *)
(* keep the contents right.                                                 *)

(* A vector of features that stand for pixels.                              *)
LEMMA VectorType ==
  ASSUME NEW vector, NEW n \in Nat, NEW pixels, DOMAIN vector = 1..n,
         vector = [i \in 1..n |-> vector[i]],
         \A i \in 1..n : StandsFor(vector[i], pixels)
  PROVE  vector \in Seq(AnyFeature) /\ Len(vector) = n
<1>1. \A i \in 1..n : vector[i] \in AnyFeature
  BY FeatureType
<1> QED
  BY <1>1

LEMMA CreateIsGood ==
  ASSUME NEW list, NEW n \in Nat, Len(list) = n,
         \A i \in 1..n : Spans(BoxOf(list[i]), list[i].pixels),
         NEW height \in Nat, NEW width \in Nat,
         CreateFCFromListBlobs(list, height, width), file = NoFile, LookupInv
  PROVE  BuildTree /\ ContentsInv'
<1> DEFINE vector == [i \in 1..n |-> NewFeature(i - 1, BoxOf(list[i]), BitMaskOf(list[i]))]
           ids == 0..n - 1
           pixels == [i \in ids |-> list[i + 1].pixels]
<1>1. /\ call = "none" /\ file' = NoFile /\ imageHeight' = height /\ imageWidth' = width
      /\ Preprocess(vector)
      /\ truth' = [pixels |-> pixels, here |-> ids, indexed |-> ids, saved |-> {}]
  BY DEF CreateFCFromListBlobs, Begins
<1>2. pixels \in [0..n - 1 -> SUBSET (Nat \X Nat)]
  <2>1. \A i \in ids : i + 1 \in 1..n
    OBVIOUS
  <2>2. \A i \in 1..n : list[i].pixels \in SUBSET (Nat \X Nat)
    BY DEF Spans
  <2> QED
    BY <2>1, <2>2
<1>3. ASSUME NEW i \in 1..n
      PROVE  StandsFor(vector[i], pixels) /\ vector[i].id = i - 1
  <2>1. i - 1 \in ids /\ (i - 1) + 1 = i /\ i - 1 \in Nat
    OBVIOUS
  <2>2. i - 1 \in DOMAIN pixels /\ pixels[i - 1] = list[i].pixels
    BY <2>1
  <2>3. vector[i] = NewFeature(i - 1, BoxOf(list[i]), BitMaskOf(list[i]))
    OBVIOUS
  <2>4. Spans(BoxOf(list[i]), list[i].pixels)
    OBVIOUS
  <2> HIDE DEF vector, pixels
  <2> QED
    BY <2>1, <2>2, <2>3, <2>4, BlobStandsFor
<1>4. DOMAIN vector = 1..n /\ vector = [i \in 1..n |-> vector[i]]
  OBVIOUS
<1> HIDE DEF vector, pixels
<1>5. vector \in Seq(AnyFeature) /\ Len(vector) = n
  BY <1>3, <1>4, VectorType
<1>6. Ids(vector) = ids
  <2>1. \A i \in 1..n : i - 1 \in ids
    OBVIOUS
  <2>2. \A j \in ids : j + 1 \in 1..n /\ (j + 1) - 1 = j
    OBVIOUS
  <2>3. ASSUME NEW x \in Ids(vector)  PROVE x \in ids
    <3>1. PICK i \in 1..n : x = vector[i].id
      BY <1>5 DEF Ids
    <3> QED
      BY <1>3, <2>1, <3>1
  <2>4. ASSUME NEW j \in ids  PROVE j \in Ids(vector)
    <3>1. vector[j + 1].id = j /\ j + 1 \in 1..n
      BY <1>3, <2>2
    <3> QED
      BY <1>5, <3>1 DEF Ids
  <2> QED
    BY <2>3, <2>4
<1>7. TruthInv'
  <2>1. truth'.pixels = pixels /\ ids \in SUBSET Nat
    BY <1>1
  <2>2. pixels \in UNION {[0..m - 1 -> SUBSET (Nat \X Nat)] : m \in Nat}
    BY <1>2
  <2> HIDE DEF ids
  <2> QED
    BY <1>1, <2>1, <2>2 DEF TruthInv
<1>8. VectorInv'
  <2>1. /\ truth'.here = Ids(vector) /\ truth'.indexed = Ids(vector)
        /\ \A i \in 1..Len(vector) : StandsFor(vector[i], truth'.pixels)
    BY <1>1, <1>3, <1>5, <1>6
  <2> QED
    BY <1>1, <1>5, <2>1, RebuiltContents
<1>9. FileInv' /\ ImageInv'
  BY <1>1 DEF FileInv, ImageInv
<1>10. BuildTree
  BY <1>1, <1>5, BuildsTree
<1> QED
  BY <1>7, <1>8, <1>9, <1>10 DEF ContentsInv

LEMMA NewCollectionIsGood ==
  ASSUME CollectionInv, NewCollection
  PROVE  ChangeVector /\ ContentsInv'
<1>1. /\ call = "none" /\ features' = <<>> /\ tree' = <<>> /\ file' = file
      /\ imageHeight' = 0 /\ imageWidth' = 0
      /\ truth' = [truth EXCEPT !.here = {}, !.indexed = {}]
      /\ UNCHANGED <<call, loop, queryVars>>
  BY DEF NewCollection, Begins
<1>2. /\ TruthInv' /\ truth'.pixels = truth.pixels /\ truth'.saved = truth.saved
      /\ truth'.here = {} /\ truth'.indexed = {}
  BY <1>1 DEF CollectionInv, ContentsInv, TruthInv
<1>3. VectorInv'
  <2>1. Indexed' = {} /\ Len(features') = 0
    BY <1>1 DEF Indexed
  <2> QED
    BY <1>2, <2>1 DEF VectorInv, Ids
<1>4. FileInv' /\ ImageInv'
  BY <1>1, <1>2, FileStays DEF CollectionInv, ContentsInv, ImageInv
<1>5. ChangeVector
  BY <1>1 DEF ChangeVector
<1> QED
  BY <1>2, <1>3, <1>4, <1>5 DEF ContentsInv

LEMMA AddFeatureIsGood ==
  ASSUME CollectionInv, NEW S \in HandMade,
         AddFeature(Cardinality(DOMAIN truth.pixels), BlobOf(S))
  PROVE  ChangeVector /\ ContentsInv'
<1> DEFINE id == Cardinality(DOMAIN truth.pixels)
           b == BlobOf(S)
           f == NewFeature(id, BoxOf(b), BitMaskOf(b))
           more == [i \in DOMAIN truth.pixels \union {id} |-> IF i = id THEN S ELSE truth.pixels[i]]
           vector == Append(features, f)
<1>1. S \in SUBSET (Nat \X Nat) /\ b.pixels = S /\ Spans(BoxOf(b), S)
  BY CollectionAssumption, BlobOfSpans
<1>2. /\ call = "none" /\ features' = vector /\ tree' = tree /\ file' = file
      /\ UNCHANGED <<call, loop, queryVars, imageHeight, imageWidth>>
      /\ truth' = [truth EXCEPT !.here = @ \union {id}, !.pixels = more]
  <2>1. /\ call = "none" /\ features' = vector /\ tree' = tree /\ file' = file
        /\ UNCHANGED <<call, loop, queryVars, imageHeight, imageWidth>>
    BY DEF AddFeature, Begins
  <2>2. truth' = [truth EXCEPT !.here = @ \union {id},
                               !.pixels = [i \in DOMAIN @ \union {id} |->
                                             IF i = id THEN b.pixels ELSE @[i]]]
    BY DEF AddFeature
  <2> QED
    BY <1>1, <2>1, <2>2
<1>3. /\ id \in Nat /\ id \notin DOMAIN truth.pixels
      /\ more \in UNION {[0..n - 1 -> SUBSET (Nat \X Nat)] : n \in Nat}
      /\ \A i \in DOMAIN truth.pixels : more[i] = truth.pixels[i]
  BY <1>1, OneMore DEF CollectionInv, ContentsInv
<1>4. DOMAIN more = DOMAIN truth.pixels \union {id} /\ more[id] = S
  OBVIOUS
<1> HIDE DEF more, id, b
<1>5. StandsFor(f, more) /\ f.id = id
  BY <1>1, <1>3, <1>4, BlobStandsFor
<1> HIDE DEF f
<1>6. /\ truth'.pixels = more /\ truth'.here = truth.here \union {id}
      /\ truth'.indexed = truth.indexed /\ truth'.saved = truth.saved
      /\ TruthInv'
  BY <1>2, <1>3 DEF CollectionInv, ContentsInv, TruthInv
<1>7. features \in Seq(AnyFeature) /\ f \in AnyFeature
  BY <1>5, FeatureType DEF CollectionInv, LookupInv, TreeTypeOK
<1>8. \A i \in 1..Len(features) : StandsFor(features[i], more)
  BY <1>3, <1>4, StandsForMore DEF CollectionInv, ContentsInv, VectorInv
<1>9. /\ vector \in Seq(AnyFeature) /\ StartsWith(vector, features)
      /\ \A i \in 1..Len(vector) : StandsFor(vector[i], more)
      /\ Ids(vector) = Ids(features) \union {id}
  <2>1. vector = features \o <<f>> /\ <<f>> \in Seq(AnyFeature)
    BY <1>7, AppendIsConcat
  <2>2. Len(<<f>>) = 1 /\ <<f>>[1] = f
    OBVIOUS
  <2>3. \A i \in 1..Len(<<f>>) : StandsFor(<<f>>[i], more)
    BY <1>5, <2>2
  <2>4. Ids(<<f>>) = {id}
    BY <1>5, <2>2 DEF Ids
  <2> QED
    BY <1>7, <1>8, <2>1, <2>3, <2>4, MembersOfBoth, IdsOfBoth
<1> HIDE DEF vector
<1>10. VectorInv'
  <2>1. {features[i].id : i \in Indexed}' = {features[i].id : i \in Indexed}
    BY <1>2, <1>9, AddedBehind DEF CollectionInv
  <2>2. truth'.here = Ids(vector)
    BY <1>6, <1>9 DEF CollectionInv, ContentsInv, VectorInv
  <2>3. truth'.indexed = {features[i].id : i \in Indexed}'
    BY <1>6, <2>1 DEF CollectionInv, ContentsInv, VectorInv
  <2> QED
    BY <1>2, <1>6, <1>9, <2>2, <2>3 DEF VectorInv
<1>11. FileInv' /\ ImageInv'
  BY <1>2, <1>3, <1>4, <1>6, FileStays DEF CollectionInv, ContentsInv, ImageInv
<1>12. ChangeVector
  BY <1>2, <1>9 DEF ChangeVector
<1> QED
  BY <1>6, <1>10, <1>11, <1>12 DEF ContentsInv

LEMMA PreProcessingIsGood ==
  ASSUME CollectionInv, PreProcessing
  PROVE  BuildTree /\ ContentsInv'
<1>1. /\ call = "none" /\ Preprocess(features)
      /\ truth' = [truth EXCEPT !.indexed = truth.here]
      /\ UNCHANGED <<imageHeight, imageWidth, file>>
  BY DEF PreProcessing, Begins
<1>2. features \in Seq(AnyFeature)
  BY DEF CollectionInv, LookupInv, TreeTypeOK
<1>3. /\ TruthInv' /\ truth'.pixels = truth.pixels /\ truth'.saved = truth.saved
      /\ truth'.here = truth.here /\ truth'.indexed = truth.here
  BY <1>1 DEF CollectionInv, ContentsInv, TruthInv
<1>4. VectorInv'
  BY <1>1, <1>2, <1>3, RebuiltContents DEF CollectionInv, ContentsInv, VectorInv
<1>5. FileInv' /\ ImageInv'
  BY <1>1, <1>3, FileStays DEF CollectionInv, ContentsInv, ImageInv
<1> QED
  BY <1>1, <1>2, <1>3, <1>4, <1>5, BuildsTree DEF ContentsInv

LEMMA SerializeIsGood ==
  ASSUME CollectionInv, Serialize
  PROVE  UNCHANGED treeVars /\ ContentsInv'
<1>1. /\ file' = FileOf(imageHeight, imageWidth, features)
      /\ truth' = [truth EXCEPT !.saved = truth.here]
      /\ UNCHANGED <<treeVars, imageHeight, imageWidth>>
  BY DEF Serialize, FileOf
<1>2. features' = features /\ tree' = tree
  BY <1>1 DEF treeVars
<1>3. features \in Seq(AnyFeature)
  BY DEF CollectionInv, LookupInv, TreeTypeOK
<1>4. /\ TruthInv' /\ truth'.pixels = truth.pixels /\ truth'.saved = truth.here
      /\ truth'.here = truth.here /\ truth'.indexed = truth.indexed
  BY <1>1 DEF CollectionInv, ContentsInv, TruthInv
<1>5. VectorInv'
  <2>1. Indexed' = Indexed
    BY <1>2 DEF Indexed
  <2> QED
    BY <1>2, <1>4, <2>1 DEF CollectionInv, ContentsInv, VectorInv
<1>6. FileInv'
  <2>1. /\ \A i \in 1..Len(features) : StandsFor(features[i], truth'.pixels)
        /\ truth'.saved = Ids(features)
        /\ imageHeight \in Nat /\ imageWidth \in Nat
    BY <1>4 DEF CollectionInv, ContentsInv, VectorInv, ImageInv
  <2> QED
    BY <1>1, <1>3, <2>1 DEF FileInv
<1>7. ImageInv'
  BY <1>1 DEF CollectionInv, ContentsInv, ImageInv
<1> QED
  BY <1>1, <1>4, <1>5, <1>6, <1>7 DEF ContentsInv

LEMMA DeserializeIsGood ==
  ASSUME CollectionInv, Deserialize
  PROVE  (BuildTree \/ ChangeVector) /\ ContentsInv'
<1>1. PICK read \in Seq(AnyFeature), height \in Nat, width \in Nat :
        /\ file = FileOf(height, width, read)
        /\ \A i \in 1..Len(read) : StandsFor(read[i], truth.pixels)
        /\ truth.saved = Ids(read)
  BY DEF Deserialize, CollectionInv, ContentsInv, FileInv
<1>2. file[1] = height /\ file[2] = width /\ FeaturesRead(file[3]) = read
  BY <1>1, ReadsWhatIsWritten
<1> DEFINE vector == features \o read
<1>3. /\ call = "none" /\ file' = file /\ imageHeight' = height /\ imageWidth' = width
      /\ IF height > 0 /\ width > 0
           THEN /\ Preprocess(vector)
                /\ truth' = [truth EXCEPT !.here = @ \union truth.saved,
                                          !.indexed = truth.here \union truth.saved]
           ELSE /\ features' = vector
                /\ truth' = [truth EXCEPT !.here = @ \union truth.saved]
                /\ UNCHANGED <<tree, call, loop, queryVars>>
  BY <1>2 DEF Deserialize, Begins
<1>4. /\ features \in Seq(AnyFeature) /\ Ids(features) = truth.here
      /\ \A i \in 1..Len(features) : StandsFor(features[i], truth.pixels)
  BY DEF CollectionInv, LookupInv, TreeTypeOK, ContentsInv, VectorInv
<1>5. /\ vector \in Seq(AnyFeature) /\ StartsWith(vector, features)
      /\ \A i \in 1..Len(vector) : StandsFor(vector[i], truth.pixels)
      /\ Ids(vector) = truth.here \union truth.saved
  BY <1>1, <1>4, MembersOfBoth, IdsOfBoth
<1> HIDE DEF vector
<1>6. /\ TruthInv' /\ truth'.pixels = truth.pixels /\ truth'.saved = truth.saved
      /\ truth'.here = truth.here \union truth.saved
  BY <1>3 DEF CollectionInv, ContentsInv, TruthInv
<1>7. FileInv' /\ ImageInv'
  BY <1>3, <1>6, FileStays DEF CollectionInv, ContentsInv, ImageInv
<1>8. CASE height > 0 /\ width > 0
  <2>1. Preprocess(vector) /\ truth'.indexed = truth.here \union truth.saved
    BY <1>3, <1>8 DEF CollectionInv, ContentsInv, TruthInv
  <2>2. VectorInv'
    BY <1>5, <1>6, <2>1, RebuiltContents
  <2>3. BuildTree
    BY <1>3, <1>5, <2>1, BuildsTree
  <2> QED
    BY <1>6, <1>7, <2>2, <2>3 DEF ContentsInv
<1>9. CASE ~(height > 0 /\ width > 0)
  <2>1. /\ features' = vector /\ truth'.indexed = truth.indexed
        /\ UNCHANGED <<tree, call, loop, queryVars>>
    BY <1>3, <1>9 DEF CollectionInv, ContentsInv, TruthInv
  <2>2. {features[i].id : i \in Indexed}' = {features[i].id : i \in Indexed}
    BY <1>5, <2>1, AddedBehind DEF CollectionInv
  <2>3. truth'.indexed = {features[i].id : i \in Indexed}'
    BY <2>1, <2>2 DEF CollectionInv, ContentsInv, VectorInv
  <2>4. VectorInv'
    BY <1>5, <1>6, <2>1, <2>3 DEF VectorInv
  <2>5. ChangeVector
    BY <1>3, <1>5, <2>1 DEF ChangeVector
  <2> QED
    BY <1>6, <1>7, <2>4, <2>5 DEF ContentsInv
<1> QED
  BY <1>8, <1>9

-----------------------------------------------------------------------------
(* The calls that return something, or write it.                            *)

(* The lookup by pixel.                                                     *)
LEMMA ReturnFeatureIsGood ==
  ASSUME CollectionInv, ReturnFeature
  PROVE  ReturnObjects /\ ContentsInv' /\ AnswerInv'
<1> DEFINE found == {k \in 1..Len(vObj) : IsInBitMask(features[vObj[k]], point)}
           position == IF found = {} THEN 0 ELSE vObj[Min(found)]
           owners == Owners(point, truth.indexed)
<1>1. /\ ReturnObjects
      /\ result' = [of |-> "pixel", pixel |-> point, position |-> position]
      /\ UNCHANGED <<imageHeight, imageWidth, file, truth>>
  BY DEF ReturnFeature
<1>2. /\ call = "objectsContain" /\ nodesToCheck = <<>> /\ ~InLeaf
      /\ call' = "none" /\ features' = features /\ tree' = tree
  BY <1>1 DEF ReturnObjects
<1>3. ContentsInv'
  BY <1>1, <1>2, ContentsStay DEF CollectionInv
<1>4. Listed = Found
  BY <1>2, SearchEnds DEF CollectionInv
<1>5. point \in Nat \X Nat /\ vObj \in Seq(Nat)
  BY <1>2 DEF CollectionInv, LookupInv, SearchInv
<1>6. Indexed \subseteq 1..Len(features)
  BY DEF CollectionInv, LookupInv, RangeInv, TreeTypeOK, Indexed
<1>7. ASSUME NEW i \in Indexed
      PROVE  /\ i \in 1..Len(features) /\ features[i].id \in truth.indexed
             /\ IsInBitMask(features[i], point) <=> features[i].id \in owners
  <2>1. i \in 1..Len(features) /\ StandsFor(features[i], truth.pixels)
    BY <1>6 DEF CollectionInv, ContentsInv, VectorInv
  <2>2. features[i].id \in truth.indexed
    BY DEF CollectionInv, ContentsInv, VectorInv
  <2>3. IsInBitMask(features[i], point) <=> point \in truth.pixels[features[i].id]
    BY <1>5, <2>1, PixelsOfFeature
  <2> QED
    BY <2>1, <2>2, <2>3 DEF Owners
<1>8. CASE found = {}
  <2>1. ASSUME NEW id \in owners  PROVE FALSE
    <3>1. id \in truth.indexed /\ point \in truth.pixels[id]
      BY DEF Owners
    <3>2. PICK i \in Indexed : id = features[i].id
      BY <3>1 DEF CollectionInv, ContentsInv, VectorInv
    <3>3. IsInBitMask(features[i], point)
      BY <1>7, <3>2
    <3>4. i \in Found
      BY <3>3 DEF Found, IsInBitMask
    <3>5. PICK k \in 1..Len(vObj) : vObj[k] = i
      BY <1>4, <3>4 DEF Listed
    <3> QED
      BY <1>8, <3>3, <3>5
  <2>2. position = 0
    BY <1>8
  <2> QED
    BY <1>1, <1>2, <1>3, <2>1, <2>2
       DEF AnswerInv, LookupIsRight, WritingsShowFeatures, ReachedTilesShowFeatures,
           MaskKinds, FileShowsFeatures, Owners
<1>9. CASE found # {}
  <2>1. found \in SUBSET Nat
    BY <1>5
  <2>2. Min(found) \in found
    BY <1>9, <2>1, LeastOf
  <2>3. /\ Min(found) \in 1..Len(vObj)
        /\ IsInBitMask(features[vObj[Min(found)]], point)
    BY <2>2
  <2>4. vObj[Min(found)] \in Indexed
    BY <1>4, <2>3 DEF Listed, Found
  <2>5. position = vObj[Min(found)]
    BY <1>9
  <2> HIDE DEF position, found
  <2>6. position # 0 /\ features[position].id \in owners
    BY <1>5, <1>7, <2>3, <2>4, <2>5
  <2> HIDE DEF owners
  <2>7. LookupIsRight'
    BY <1>1, <1>2, <2>6 DEF LookupIsRight, Owners, owners
  <2>8. WritingsShowFeatures'
    BY <1>1 DEF WritingsShowFeatures, ReachedTilesShowFeatures, MaskKinds, FileShowsFeatures
  <2> QED
    BY <1>1, <1>2, <1>3, <2>7, <2>8 DEF AnswerInv
<1> QED
  BY <1>8, <1>9

(* The lookup by identifier.                                                *)
LEMMA GetFeatureFromIdIsGood ==
  ASSUME CollectionInv, NEW id \in Nat, GetFeatureFromId(id)
  PROVE  UNCHANGED treeVars /\ ContentsInv' /\ AnswerInv'
<1> DEFINE found == {i \in 1..Len(features) : features[i].id = id}
           position == IF found = {} THEN 0 ELSE Min(found)
<1>1. /\ call = "none"
      /\ result' = [of |-> "id", id |-> id, position |-> position]
      /\ UNCHANGED <<treeVars, imageHeight, imageWidth, file, truth>>
  BY DEF GetFeatureFromId
<1>2. features' = features /\ tree' = tree /\ call' = "none"
  BY <1>1 DEF treeVars
<1>3. ContentsInv'
  BY <1>1, <1>2, ContentsStay DEF CollectionInv
<1>4. IF position = 0 THEN id \notin truth.here
      ELSE id \in truth.here /\ PixelsIn(features[position]) = truth.pixels[id]
  <2>1. truth.here = {features[i].id : i \in 1..Len(features)}
    BY DEF CollectionInv, ContentsInv, VectorInv, Ids
  <2>2. CASE found = {}
    BY <2>1, <2>2
  <2>3. CASE found # {}
    <3>1. Min(found) \in found
      <4>1. found \in SUBSET Nat
        OBVIOUS
      <4> QED
        BY <2>3, <4>1, LeastOf
    <3>2. position = Min(found) /\ position \in 1..Len(features) /\ features[position].id = id
      BY <2>3, <3>1
    <3> HIDE DEF position, found
    <3>3. StandsFor(features[position], truth.pixels)
      BY <3>2 DEF CollectionInv, ContentsInv, VectorInv
    <3>4. PixelsIn(features[position]) = truth.pixels[id]
      BY <3>2, <3>3, PixelsOfFeature
    <3> QED
      BY <2>1, <3>2, <3>4
  <2> QED
    BY <2>2, <2>3
<1> HIDE DEF position
<1>6. LookupIsRight'
  BY <1>1, <1>2, <1>4 DEF LookupIsRight, PixelsIn
<1>7. WritingsShowFeatures'
  BY <1>1 DEF WritingsShowFeatures, ReachedTilesShowFeatures, MaskKinds, FileShowsFeatures
<1> QED
  BY <1>1, <1>2, <1>3, <1>6, <1>7 DEF AnswerInv

-----------------------------------------------------------------------------
(* The shapes of the features of a vector: no more than it has.             *)
LEMMA ShapesOfVector ==
  ASSUME TruthInv, NEW vector \in Seq(AnyFeature),
         \A i \in 1..Len(vector) : StandsFor(vector[i], truth.pixels)
  PROVE  /\ IsFiniteSet(Shapes(Ids(vector)))
         /\ Shapes(Ids(vector)) = {truth.pixels[vector[i].id] : i \in 1..Len(vector)}
<1> DEFINE n == Len(vector)
           A == {truth.pixels[vector[i].id] : i \in 1..n}
           f == [i \in 1..n |-> truth.pixels[vector[i].id]]
<1>1. n \in Nat /\ IsFiniteSet(1..n)
  BY FS_Interval
<1>2. Shapes(Ids(vector)) = A
  <2>1. ASSUME NEW x \in Shapes(Ids(vector))  PROVE x \in A
    <3>1. PICK id \in Ids(vector) : x = truth.pixels[id]
      BY DEF Shapes
    <3> QED
      BY <3>1 DEF Ids
  <2>2. ASSUME NEW x \in A  PROVE x \in Shapes(Ids(vector))
    <3>1. PICK i \in 1..n : x = truth.pixels[vector[i].id]
      OBVIOUS
    <3>2. vector[i].id \in Ids(vector)
      BY DEF Ids
    <3> QED
      BY <3>1, <3>2 DEF Shapes
  <2> HIDE DEF A
  <2> QED
    BY <2>1, <2>2
<1>3. f \in Surjection(1..n, A)
  BY DEF Surjection
<1>4. IsFiniteSet(A)
  <2> HIDE DEF f, A, n
  <2> QED
    BY <1>1, <1>3, FS_Surjection
<1> QED
  BY <1>2, <1>4

(* The comparison with what the file shows.                                 *)
LEMMA CompareWithFileIsGood ==
  ASSUME CollectionInv, CompareWithFile
  PROVE  UNCHANGED treeVars /\ ContentsInv' /\ AnswerInv'
<1>1. /\ call = "none" /\ file # NoFile
      /\ result' = [of |-> "equality", equal |-> Equal(features, FeaturesRead(file[3]))]
      /\ UNCHANGED <<treeVars, imageHeight, imageWidth, file, truth>>
  BY DEF CompareWithFile
<1>2. features' = features /\ tree' = tree /\ call' = "none"
  BY <1>1 DEF treeVars
<1>3. ContentsInv'
  BY <1>1, <1>2, ContentsStay DEF CollectionInv
<1>4. PICK vector \in Seq(AnyFeature), height \in Nat, width \in Nat :
        /\ file = FileOf(height, width, vector)
        /\ \A i \in 1..Len(vector) : StandsFor(vector[i], truth.pixels)
        /\ truth.saved = Ids(vector)
  BY <1>1 DEF CollectionInv, ContentsInv, FileInv
<1>5. file[3] = Len(vector) /\ FeaturesRead(file[3]) = vector
  BY <1>4, ReadsWhatIsWritten
<1>6. /\ features \in Seq(AnyFeature) /\ truth.here = Ids(features) /\ TruthInv
      /\ \A i \in 1..Len(features) : StandsFor(features[i], truth.pixels)
  BY DEF CollectionInv, ContentsInv, VectorInv, LookupInv, TreeTypeOK
<1> DEFINE A == Shapes(truth.here)
           B == Shapes(truth.saved)
           n == Len(features)
           m == Len(vector)
<1>7. /\ A = {truth.pixels[features[i].id] : i \in 1..n}
      /\ B = {truth.pixels[vector[i].id] : i \in 1..m}
      /\ IsFiniteSet(B)
  BY <1>4, <1>6, ShapesOfVector
<1>8. ASSUME NEW i \in 1..n, NEW j \in 1..m
      PROVE  EqualFeatures(features[i], vector[j])
               <=> truth.pixels[features[i].id] = truth.pixels[vector[j].id]
  BY <1>4, <1>6, EqualByPixels
<1> HIDE DEF A, B
<1>9. ASSUME Cardinality(A) = n, Cardinality(B) = m
      PROVE  Equal(features, vector) <=> A = B
  <2>1. ASSUME Equal(features, vector)  PROVE A = B
    <3>1. n = m /\ \A i \in 1..n : \E j \in 1..m : EqualFeatures(features[i], vector[j])
      BY <2>1 DEF Equal
    <3>2. ASSUME NEW x \in A  PROVE x \in B
      <4>1. PICK i \in 1..n : x = truth.pixels[features[i].id]
        BY <1>7
      <4>2. PICK j \in 1..m : EqualFeatures(features[i], vector[j])
        BY <3>1
      <4>3. x = truth.pixels[vector[j].id]
        BY <1>8, <4>1, <4>2
      <4> QED
        BY <1>7, <4>3
    <3> QED
      BY <1>7, <1>9, <3>1, <3>2, FS_Subset
  <2>2. ASSUME A = B  PROVE Equal(features, vector)
    <3>1. n = m
      BY <1>9, <2>2
    <3>2. ASSUME NEW i \in 1..n
          PROVE  \E j \in 1..m : EqualFeatures(features[i], vector[j])
      <4>1. truth.pixels[features[i].id] \in B
        BY <1>7, <2>2
      <4>2. PICK j \in 1..m : truth.pixels[features[i].id] = truth.pixels[vector[j].id]
        BY <1>7, <4>1
      <4> QED
        BY <1>8, <4>2
    <3> QED
      BY <3>1, <3>2 DEF Equal
  <2> QED
    BY <2>1, <2>2
<1>10. FileShowsFeatures'
  <2>1. ASSUME Cardinality(A) = n, Cardinality(B) = file[3]
        PROVE  result'.equal <=> A = B
    <3>1. Equal(features, vector) <=> A = B
      BY <1>5, <1>9, <2>1
    <3>2. result'.equal <=> Equal(features, vector)
      BY <1>1, <1>5
    <3> QED
      BY <3>1, <3>2
  <2>2. A = Shapes(truth.here)' /\ B = Shapes(truth.saved)' /\ n = Len(features)' /\ file' = file
    BY <1>1, <1>2 DEF Shapes, A, B
  <2> HIDE DEF n, m
  <2> QED
    BY <2>1, <2>2 DEF FileShowsFeatures
<1>11. LookupIsRight' /\ ReachedTilesShowFeatures'
  BY <1>1 DEF LookupIsRight, ReachedTilesShowFeatures, MaskKinds
<1> QED
  BY <1>1, <1>2, <1>3, <1>10, <1>11 DEF AnswerInv, WritingsShowFeatures

(* A pixel of a feature lies in a tile that its box reaches, among the      *)
(* pixels that the feature sets there.                                      *)
LEMMA TilesHavePixels ==
  ASSUME NEW f, NEW pixels, StandsFor(f, pixels), NEW s \in Nat \ {0},
         NEW p \in pixels[f.id]
  PROVE  LET t == <<p[1] \div s, p[2] \div s>>
         IN  t \in TilesOfBox(f.box, s) /\ p \in PixelsSet(f, t, s)
<1> DEFINE a == p[1] \div s
           b == p[2] \div s
           t == <<a, b>>
           box == f.box
<1>1. /\ p \in Nat \X Nat /\ p = <<p[1], p[2]>>
      /\ box.ulRow <= p[1] /\ p[1] < box.brRow
      /\ box.ulCol <= p[2] /\ p[2] < box.brCol
      /\ IsInBitMask(f, p)
  <2>1. InBox(box, p) /\ p \in Nat \X Nat /\ (IsInBitMask(f, p) <=> p \in pixels[f.id])
    BY PixelsOfFeature DEF InBox
  <2> QED
    BY <2>1 DEF InBox
<1>2. /\ box.ulRow \in Nat /\ box.ulCol \in Nat /\ box.brRow \in Nat /\ box.brCol \in Nat
      /\ p[1] \in Nat /\ p[2] \in Nat
  BY <1>1 DEF StandsFor, Spans, NatBox
<1> HIDE DEF box
<1>3. /\ p[1] <= box.brRow - 1 /\ box.brRow - 1 \in Nat
      /\ p[2] <= box.brCol - 1 /\ box.brCol - 1 \in Nat
  BY <1>1, <1>2
<1>4. /\ box.ulRow \div s <= a /\ a <= (box.brRow - 1) \div s
      /\ box.ulCol \div s <= b /\ b <= (box.brCol - 1) \div s
  BY <1>1, <1>2, <1>3, DivMonotone
<1>5. /\ a \in Int /\ b \in Int
      /\ box.ulRow \div s \in Int /\ (box.brRow - 1) \div s \in Int
      /\ box.ulCol \div s \in Int /\ (box.brCol - 1) \div s \in Int
  BY <1>2, <1>3, Division
<1>6. /\ p[1] % s \in 0..s - 1 /\ p[1] = s * a + (p[1] % s)
      /\ p[2] % s \in 0..s - 1 /\ p[2] = s * b + (p[2] % s)
  BY <1>2, Division
<1> HIDE DEF a, b
<1>7. t \in TilesOfBox(box, s)
  BY <1>4, <1>5 DEF TilesOfBox
<1>8. /\ a * s <= p[1] /\ p[1] < (a + 1) * s
      /\ b * s <= p[2] /\ p[2] < (b + 1) * s
      /\ a * s \in Int /\ (a + 1) * s \in Int /\ b * s \in Int /\ (b + 1) * s \in Int
  <2>1. /\ a * s = s * a /\ (a + 1) * s = s * a + s /\ s * a \in Int
        /\ b * s = s * b /\ (b + 1) * s = s * b + s /\ s * b \in Int
    BY <1>5
  <2> DEFINE r == p[1] % s
             c == p[2] % s
  <2> HIDE DEF r, c
  <2>2. r \in 0..s - 1 /\ c \in 0..s - 1 /\ p[1] = s * a + r /\ p[2] = s * b + c
    BY <1>6 DEF r, c
  <2> QED
    BY <1>2, <2>1, <2>2
<1>9. /\ p[1] \in Larger(a * s, box.ulRow)..Smaller(box.brRow, (a + 1) * s) - 1
      /\ p[2] \in Larger(b * s, box.ulCol)..Smaller(box.brCol, (b + 1) * s) - 1
  BY <1>1, <1>2, <1>8 DEF Larger, Smaller
<1>10. p \in PixelsSet(f, t, s)
  BY <1>1, <1>9 DEF PixelsSet, box
<1> QED
  BY <1>7, <1>10 DEF box, a, b

(* A mask.                                                                  *)
LEMMA WriteMaskIsGood ==
  ASSUME CollectionInv, NEW kind \in MaskKinds, NEW s \in TileSizes, WriteMask(kind, s)
  PROVE  UNCHANGED treeVars /\ ContentsInv' /\ AnswerInv'
<1> DEFINE Tile(p) == <<p[1] \div s, p[2] \div s>>
           Image == (0..imageHeight - 1) \X (0..imageWidth - 1)
<1>1. /\ call = "none"
      /\ UNCHANGED <<treeVars, imageHeight, imageWidth, file, truth>>
      /\ \E blank \in {0, Unknown} :
           result' = [of |-> kind,
                      pixel |-> [p \in Image |-> IF Tile(p) \in LoadedTiles(s)
                                                   THEN WrittenFromData(kind, p, Tile(p), s)
                                                   ELSE blank]]
  BY DEF WriteMask
<1>2. features' = features /\ tree' = tree /\ call' = "none"
  BY <1>1 DEF treeVars
<1>3. ContentsInv'
  BY <1>1, <1>2, ContentsStay DEF CollectionInv
<1>4. PICK blank \in {0, Unknown} :
        /\ result'.of = kind /\ DOMAIN result'.pixel = Image
        /\ \A p \in Image : result'.pixel[p] = IF Tile(p) \in LoadedTiles(s)
                                                 THEN WrittenFromData(kind, p, Tile(p), s)
                                                 ELSE blank
  BY <1>1
<1> HIDE DEF Image
<1>5. /\ s \in Nat \ {0} /\ Len(features) \in Nat
      /\ \A i \in 1..Len(features) : StandsFor(features[i], truth.pixels)
      /\ truth.here = {features[i].id : i \in 1..Len(features)}
  <2>1. features \in Seq(AnyFeature)
    BY DEF CollectionInv, LookupInv, TreeTypeOK
  <2> QED
    BY <2>1, CollectionAssumption DEF CollectionInv, ContentsInv, VectorInv, Ids
<1>6. ASSUME NEW p \in Image
      PROVE  /\ \A i \in SetBy(p, Tile(p), s) : features[i].id \in Owners(p, truth.here)
             /\ \A id \in Owners(p, truth.here) :
                  \E i \in SetBy(p, Tile(p), s) : features[i].id = id
             /\ SetBy(p, Tile(p), s) # {} => Tile(p) \in LoadedTiles(s)
             /\ SetBy(p, Tile(p), s) \in SUBSET (1..Len(features))
  <2> DEFINE t == Tile(p)
             setters == SetBy(p, t, s)
  <2>1. p \in Nat \X Nat
    BY DEF Image, CollectionInv, ContentsInv, ImageInv
  <2> HIDE DEF t
  <2>2. ASSUME NEW i \in setters  PROVE features[i].id \in Owners(p, truth.here)
    <3>1. i \in 1..Len(features) /\ IsInBitMask(features[i], p)
      BY DEF SetBy, PixelsSet
    <3>2. p \in truth.pixels[features[i].id]
      BY <1>5, <2>1, <3>1, PixelsOfFeature
    <3> QED
      BY <1>5, <3>1, <3>2 DEF Owners
  <2>3. ASSUME NEW id \in Owners(p, truth.here)
        PROVE  \E i \in setters : features[i].id = id
    <3>1. PICK i \in 1..Len(features) : features[i].id = id /\ p \in truth.pixels[id]
      BY <1>5 DEF Owners
    <3>2. t \in TilesOfBox(features[i].box, s) /\ p \in PixelsSet(features[i], t, s)
      BY <1>5, <3>1, TilesHavePixels DEF t
    <3> QED
      BY <3>1, <3>2 DEF SetBy
  <2>4. setters # {} => t \in LoadedTiles(s)
    BY DEF SetBy, LoadedTiles
  <2>5. setters \in SUBSET (1..Len(features))
    BY DEF SetBy
  <2> QED
    BY <2>2, <2>3, <2>4, <2>5 DEF t
<1>7. ASSUME NEW p \in Image, result'.pixel[p] # Unknown \/ Owners(p, truth.here) # {}
      PROVE  IF Owners(p, truth.here) = {} THEN result'.pixel[p] = 0
             ELSE result'.pixel[p] \in (IF kind = "labels" THEN {id + 1 : id \in Owners(p, truth.here)}
                                        ELSE {1})
  <2> DEFINE setters == SetBy(p, Tile(p), s)
             owners == Owners(p, truth.here)
  <2>1. CASE setters = {}
    <3>1. owners = {}
      BY <1>6, <2>1
    <3>2. WrittenFromData(kind, p, Tile(p), s) = 0
      BY <2>1 DEF WrittenFromData
    <3>3. result'.pixel[p] = 0
      BY <1>4, <1>7, <3>1, <3>2
    <3> QED
      BY <3>1, <3>3
  <2>2. CASE setters # {}
    <3>1. Tile(p) \in LoadedTiles(s) /\ setters \in SUBSET (1..Len(features))
      BY <1>6, <2>2
    <3>2. Max(setters) \in setters
      <4>1. setters \in SUBSET Nat
        BY <1>5, <3>1
      <4>2. IsFiniteSet(setters)
        <5>1. IsFiniteSet(1..Len(features))
          BY <1>5, FS_Interval
        <5> HIDE DEF setters
        <5> QED
          BY <3>1, <5>1, FS_Subset
      <4> HIDE DEF setters
      <4> QED
        BY <2>2, <4>1, <4>2, GreatestNumber
    <3>3. features[Max(setters)].id \in owners
      BY <1>6, <3>2
    <3>4. result'.pixel[p] = Label(kind, Max(setters))
      BY <1>4, <2>2, <3>1 DEF WrittenFromData
    <3> QED
      BY <3>3, <3>4 DEF Label
  <2> QED
    BY <2>1, <2>2
<1>8. ReachedTilesShowFeatures'
  <2>1. truth' = truth
    BY <1>1
  <2>2. ASSUME NEW p \in Image,
               (result.pixel[p] # Unknown \/ Owners(p, truth.here) # {})'
        PROVE  Shows(p)'
    <3>1. Owners(p, truth.here)' = Owners(p, truth.here)
      BY <2>1 DEF Owners
    <3>2. result'.pixel[p] # Unknown \/ Owners(p, truth.here) # {}
      BY <2>2, <3>1
    <3>3. IF Owners(p, truth.here)' = {} THEN result'.pixel[p] = 0
          ELSE result'.pixel[p] \in (IF result'.of = "labels"
                                       THEN {id + 1 : id \in Owners(p, truth.here)'} ELSE {1})
      BY <1>4, <1>7, <3>1, <3>2
    <3> QED
      BY <3>3 DEF Shows
  <2> QED
    BY <1>4, <2>2 DEF ReachedTilesShowFeatures
<1>9. LookupIsRight' /\ FileShowsFeatures'
  <2>1. kind # "pixel" /\ kind # "id" /\ kind # "equality"
    BY DEF MaskKinds
  <2> QED
    BY <1>4, <2>1 DEF LookupIsRight, FileShowsFeatures
<1> QED
  BY <1>1, <1>2, <1>3, <1>8, <1>9 DEF AnswerInv, WritingsShowFeatures

-----------------------------------------------------------------------------
(* A new call forgets what the one before has returned.                     *)
LEMMA BeginsAnew ==
  ASSUME Begins PROVE AnswerInv'
BY NoAnswerNext DEF Begins

(* While a call goes on nothing has been returned.                          *)
LEMMA NoAnswerYet ==
  ASSUME AnswerInv, call # "none", result' = result PROVE AnswerInv'
BY NoAnswerNext DEF AnswerInv

LEMMA SetImageSizeIsGood ==
  ASSUME CollectionInv, NEW height \in Nat, NEW width \in Nat, SetImageSize(height, width)
  PROVE  UNCHANGED treeVars /\ ContentsInv'
<1>1. /\ features' = features /\ tree' = tree /\ UNCHANGED <<treeVars, file, truth>>
      /\ imageHeight' = height /\ imageWidth' = width
  BY DEF SetImageSize, treeVars
<1>2. TruthInv' /\ ImageInv'
  BY <1>1 DEF CollectionInv, ContentsInv, TruthInv, ImageInv
<1>3. FileInv'
  BY <1>1, FileStays DEF CollectionInv, ContentsInv
<1>4. VectorInv'
  BY <1>1 DEF CollectionInv, ContentsInv, VectorInv, Ids, Indexed
<1> QED
  BY <1>1, <1>2, <1>3, <1>4 DEF ContentsInv

LEMMA GetFeatureFromPixelIsGood ==
  ASSUME CollectionInv, NEW p \in Nat \X Nat, GetFeatureFromPixel(p)
  PROVE  Query /\ ContentsInv'
<1>1. /\ call = "none" /\ ObjectsContain(p)
      /\ UNCHANGED <<imageHeight, imageWidth, file, truth>>
  BY DEF GetFeatureFromPixel, Begins
<1>2. features' = features /\ tree' = tree /\ point' = p
  BY <1>1 DEF ObjectsContain
<1>3. Query
  BY <1>1, <1>2 DEF Query
<1> QED
  BY <1>1, <1>2, <1>3, ContentsStay DEF CollectionInv

LEMMA TreeStepIsGood ==
  ASSUME CollectionInv, TreeStep,
         UNCHANGED <<imageHeight, imageWidth, file, result, truth>>
  PROVE  TreeNext /\ CollectionInv'
<1>1. TreeNext
  BY DEF TreeNext
<1>2. LookupInv'
  BY <1>1, TreeNextKeepsInv DEF CollectionInv
<1>3. call # "none"
  BY DEF TreeStep, PreprocessStep, KeepNode, SplitNode, InLevel, EndLevel,
         CheckNode, CheckInnerNode, CheckLeaf, Checking, CheckObject
<1>4. AnswerInv'
  BY <1>3, NoAnswerYet DEF CollectionInv
<1>5. ContentsInv'
  <2>1. CASE PreprocessStep
    BY <1>2, <2>1, PreprocessStepKeepsContents DEF CollectionInv
  <2>2. CASE CheckNode
    <3>1. features' = features /\ tree' = tree
      BY <2>2 DEF CheckNode, CheckInnerNode, CheckLeaf, CheckObject
    <3> QED
      BY <3>1, ContentsStay DEF CollectionInv
  <2> QED
    BY <2>1, <2>2 DEF TreeStep
<1> QED
  BY <1>1, <1>2, <1>4, <1>5 DEF CollectionInv

(* Whatever the user calls, it is one of the steps that the tree is         *)
(* promised, and what the call returns is right.                            *)
LEMMA CallIsGood ==
  ASSUME CollectionInv, NEW Pixels \in SUBSET (Nat \X Nat), NEW height \in Nat, NEW width \in Nat,
         UserCalls(Pixels, height, width)
  PROVE  [TreeNext]_treeVars /\ CollectionInv'
<1>1. ASSUME [TreeNext]_treeVars, ContentsInv', AnswerInv'
      PROVE  [TreeNext]_treeVars /\ CollectionInv'
  BY <1>1, TreeNextKeepsInv DEF CollectionInv
<1>2. ASSUME ChangeVector \/ BuildTree \/ Query \/ UNCHANGED treeVars
      PROVE  [TreeNext]_treeVars
  BY <1>2 DEF TreeNext
<1>3. CASE NewCollection
  <2>1. AnswerInv'
    BY <1>3, BeginsAnew DEF NewCollection
  <2> QED
    BY <1>1, <1>2, <1>3, <2>1, NewCollectionIsGood
<1>4. CASE SetImageSize(height, width)
  <2>1. AnswerInv'
    BY <1>4, BeginsAnew DEF SetImageSize
  <2> QED
    BY <1>1, <1>2, <1>4, <2>1, SetImageSizeIsGood
<1>5. ASSUME NEW S \in HandMade, AddFeature(Cardinality(DOMAIN truth.pixels), BlobOf(S))
      PROVE  [TreeNext]_treeVars /\ CollectionInv'
  <2>1. AnswerInv'
    BY <1>5, BeginsAnew DEF AddFeature
  <2> QED
    BY <1>1, <1>2, <1>5, <2>1, AddFeatureIsGood
<1>6. CASE PreProcessing
  <2>1. AnswerInv'
    BY <1>6, BeginsAnew DEF PreProcessing
  <2> QED
    BY <1>1, <1>2, <1>6, <2>1, PreProcessingIsGood
<1>7. CASE Serialize
  <2>1. AnswerInv'
    BY <1>7, BeginsAnew DEF Serialize
  <2> QED
    BY <1>1, <1>2, <1>7, <2>1, SerializeIsGood
<1>8. CASE Deserialize
  <2>1. AnswerInv'
    BY <1>8, BeginsAnew DEF Deserialize
  <2> QED
    BY <1>1, <1>2, <1>8, <2>1, DeserializeIsGood
<1>9. CASE CompareWithFile
  BY <1>1, <1>2, <1>9, CompareWithFileIsGood
<1>10. ASSUME NEW p \in Pixels, GetFeatureFromPixel(p)
       PROVE  [TreeNext]_treeVars /\ CollectionInv'
  <2>1. AnswerInv'
    BY <1>10, BeginsAnew DEF GetFeatureFromPixel
  <2>2. p \in Nat \X Nat
    OBVIOUS
  <2> QED
    BY <1>1, <1>2, <1>10, <2>1, <2>2, GetFeatureFromPixelIsGood
<1>11. ASSUME NEW id \in 0..MaxFeatures, GetFeatureFromId(id)
       PROVE  [TreeNext]_treeVars /\ CollectionInv'
  <2>1. id \in Nat
    OBVIOUS
  <2> QED
    BY <1>1, <1>2, <1>11, <2>1, GetFeatureFromIdIsGood
<1>12. ASSUME NEW s \in TileSizes, CreateLabeledMask(s) \/ CreateBlackWhiteMask(s)
       PROVE  [TreeNext]_treeVars /\ CollectionInv'
  <2>1. \E kind \in MaskKinds : WriteMask(kind, s)
    BY <1>12 DEF CreateLabeledMask, CreateBlackWhiteMask, MaskKinds
  <2> QED
    BY <1>1, <1>2, <2>1, WriteMaskIsGood
<1> QED
  BY <1>3, <1>4, <1>5, <1>6, <1>7, <1>8, <1>9, <1>10, <1>11, <1>12 DEF UserCalls

LEMMA GoesOnIsGood ==
  ASSUME CollectionInv, CollectionGoesOn
  PROVE  [TreeNext]_treeVars /\ CollectionInv'
<1>1. CASE TreeStep /\ UNCHANGED <<imageHeight, imageWidth, file, result, callsLeft, truth>>
  BY <1>1, TreeStepIsGood
<1>2. CASE ReturnFeature
  <2>1. ReturnObjects /\ ContentsInv' /\ AnswerInv'
    BY <1>2, ReturnFeatureIsGood
  <2>2. TreeNext
    BY <2>1 DEF TreeNext
  <2> QED
    BY <2>1, <2>2, TreeNextKeepsInv DEF CollectionInv
<1> QED
  BY <1>1, <1>2 DEF CollectionGoesOn

LEMMA CollectionStutters ==
  ASSUME CollectionInv, UNCHANGED collectionVars
  PROVE  CollectionInv'
<1>1. /\ UNCHANGED <<treeVars, features, tree, call>>
      /\ UNCHANGED <<imageHeight, imageWidth, file, result, truth>>
  BY DEF collectionVars, treeVars
<1>2. LookupInv' /\ ContentsInv'
  BY <1>1, StutterKeepsInv, ContentsStay DEF CollectionInv
<1>3. AnswerInv'
  <2>1. CASE result = Nothing
    BY <1>1, <2>1, NoAnswerNext
  <2>2. CASE result # Nothing
    <3>1. call = "none" /\ LookupIsRight /\ WritingsShowFeatures
      BY <2>2 DEF CollectionInv, AnswerInv
    <3>2. LookupIsRight'
      BY <1>1, <3>1 DEF LookupIsRight, Owners, PixelsIn
    <3>3. ReachedTilesShowFeatures'
      BY <1>1, <3>1 DEF WritingsShowFeatures, ReachedTilesShowFeatures, Shows, Owners
    <3>4. FileShowsFeatures'
      BY <1>1, <3>1 DEF WritingsShowFeatures, FileShowsFeatures, Shapes
    <3> QED
      BY <1>1, <3>1, <3>2, <3>3, <3>4 DEF AnswerInv, WritingsShowFeatures
  <2> QED
    BY <2>1, <2>2
<1> QED
  BY <1>2, <1>3 DEF CollectionInv

LEMMA CollectionBegins ==
  ASSUME CollectionInit PROVE CollectionInv
<1>1. TreeInit /\ file = NoFile /\ result = Nothing /\ imageHeight = 0 /\ imageWidth = 0
  BY DEF CollectionInit
<1>2. LookupInv /\ AnswerInv /\ FileInv /\ ImageInv
  BY <1>1, InitInv, NoAnswer DEF FileInv, ImageInv
<1>3. VectorInv
  <2>1. features = <<>> /\ Indexed = {}
    BY <1>1 DEF TreeInit, Indexed
  <2>2. truth.here = {} /\ truth.indexed = {}
    BY DEF CollectionInit
  <2> QED
    BY <2>1, <2>2 DEF VectorInv, Ids
<1>4. TruthInv
  <2>1. <<>> \in [0..0 - 1 -> SUBSET (Nat \X Nat)]
    OBVIOUS
  <2>2. <<>> \in UNION {[0..n - 1 -> SUBSET (Nat \X Nat)] : n \in Nat}
    BY <2>1
  <2> QED
    BY <2>2 DEF CollectionInit, TruthInv
<1> QED
  BY <1>2, <1>3, <1>4 DEF CollectionInv, ContentsInv

LEMMA RightAnswers ==
  CollectionInv => LookupIsRight /\ WritingsShowFeatures
BY NoAnswer DEF CollectionInv, AnswerInv
=============================================================================
