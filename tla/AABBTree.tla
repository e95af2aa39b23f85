------------------------------ MODULE AABBTree ------------------------------
(***************************************************************************)
(* The tree that finds the features whose bounding boxes contain a pixel    *)
(* (FeatureCollection/tools/AABBTree.h).  It keeps no feature of its own:   *)
(* a node stands for the positions from begin + 1 to end of the            *)
(* collection's vector, which the tree sorts to its needs.                  *)
(*                                                                         *)
(* One thread uses a collection.  The loops of preprocess and of            *)
(* objectsContain are taken turn by turn.                                   *)
(***************************************************************************)
EXTENDS Feature, FiniteSets

CONSTANT MaxNodeSize  (* maxNodeSize: 4 in the code.                        *)

ASSUME NodeAssumption == MaxNodeSize \in Nat \ {0}

VARIABLES
  features,       (* The vector of features, sortedObjects.                *)
  tree,           (* aabbTree: the nodes, from 0 on.                       *)
  call,           (* The call that is going on.                            *)
  loop,           (* preprocess: the node it has come to, where the level  *)
                  (* ends, if a node of it was split, and in which         *)
                  (* dimension.                                            *)
  point,          (* objectsContain: the pixel asked for, ...              *)
  nodesToCheck,   (* ... the stack of nodes, its top first, the rest of    *)
  leaf,           (* the leaf it goes through, ...                         *)
  vObj            (* ... and the positions of the features found.          *)

queryVars == <<point, nodesToCheck, leaf, vObj>>
treeVars == <<features, tree, call, loop, queryVars>>

NoPixel == <<>>
NoLeaf == [objectIndex |-> 0, objectsEnd |-> 0]
FirstLevel == [node |-> 0, nodesEnd |-> 1, splitOccurred |-> FALSE, splitDim |-> 0]

(* A node for a range of positions, and one that resize adds.  A split      *)
(* empties the range of a node: `objects' remembers it, for the properties. *)
NodeOf(begin, end) ==
  [begin |-> begin, end |-> end, aabb |-> [dim \in Dim |-> {0}], objects |-> begin + 1..end]
NewNode == NodeOf(0, 0)

TreeInit ==
  /\ features = <<>>
  /\ tree = <<>>
  /\ call = "none"
  /\ loop = FirstLevel
  /\ point = NoPixel
  /\ nodesToCheck = <<>>
  /\ leaf = NoLeaf
  /\ vObj = <<>>

-----------------------------------------------------------------------------
(* preprocess, for a vector of features.                                    *)
Preprocess(vector) ==
  /\ features' = vector
  /\ tree' = IF vector = <<>> THEN <<>> ELSE [n \in {0} |-> NodeOf(0, Len(vector))]
  /\ call' = IF vector = <<>> THEN "none" ELSE "preprocess"
  /\ loop' = FirstLevel
  /\ UNCHANGED queryVars

(* The interval of a box in one dimension, from the least to the greatest   *)
(* coordinate; of no feature, nothing.                                      *)
Bounds(objects, dim) ==
  UNION {MinCoord(features[i], dim)..MaxCoord(features[j], dim) : i, j \in objects}

ComputeAABBBounds(n) ==
  [tree EXCEPT ![n].aabb = [dim \in Dim |-> Bounds(tree[n].begin + 1..tree[n].end, dim)]]

Size(n) == tree[n].end - tree[n].begin

InLevel == call = "preprocess" /\ loop.node < loop.nodesEnd

KeepNode ==
  /\ InLevel
  /\ Size(loop.node) <= MaxNodeSize
  /\ tree' = ComputeAABBBounds(loop.node)
  /\ loop' = [loop EXCEPT !.node = @ + 1]
  /\ UNCHANGED <<features, call, queryVars>>

(* std::sort of a range of the vector by the middle coordinate, which does  *)
(* not keep the order of equal ones.                                        *)
Permutation(objects) ==
  {f \in [objects -> objects] : \A i \in objects : \E j \in objects : f[j] = i}

MidCoordX2(f, dim) == MaxCoord(f, dim) + MinCoord(f, dim)

Sorted(objects, dim) ==
  {s \in {[i \in 1..Len(features) |-> features[IF i \in objects THEN f[i] ELSE i]] :
            f \in Permutation(objects)} :
     \A i, j \in objects : i < j => MidCoordX2(s[i], dim) <= MidCoordX2(s[j], dim)}

Resized == 0..(IF loop.splitOccurred THEN Cardinality(DOMAIN tree) - 1 ELSE 2 * Cardinality(DOMAIN tree))

LowChild(n) == 2 * n + 1
HighChild(n) == 2 * n + 2

(* A slip the properties must notice: the second half starts one too late.  *)
SplitAABBNodeSkips(n) ==
  LET middle == tree[n].begin + Size(n) \div 2
  IN  [m \in Resized |->
         IF m = n THEN [ComputeAABBBounds(n)[n] EXCEPT !.begin = 0, !.end = 0]
         ELSE IF m = LowChild(n) THEN NodeOf(tree[n].begin, middle)
         ELSE IF m = HighChild(n) THEN NodeOf(middle + 1, tree[n].end)
         ELSE IF m \in DOMAIN tree THEN tree[m] ELSE NewNode]

SplitAABBNode(n) ==
  LET middle == tree[n].begin + Size(n) \div 2
  IN  [m \in Resized |->
         IF m = n THEN [ComputeAABBBounds(n)[n] EXCEPT !.begin = 0, !.end = 0]
         ELSE IF m = LowChild(n) THEN NodeOf(tree[n].begin, middle)
         ELSE IF m = HighChild(n) THEN NodeOf(middle, tree[n].end)
         ELSE IF m \in DOMAIN tree THEN tree[m] ELSE NewNode]

SplitNode ==
  /\ InLevel
  /\ Size(loop.node) > MaxNodeSize
  /\ features' \in Sorted(tree[loop.node].begin + 1..tree[loop.node].end, loop.splitDim)
  /\ tree' = SplitAABBNode(loop.node)
  /\ loop' = [loop EXCEPT !.node = @ + 1, !.splitOccurred = TRUE]
  /\ UNCHANGED <<call, queryVars>>

(* The end of a level: there is another one if a node was split.            *)
EndLevel ==
  /\ call = "preprocess"
  /\ loop.node = loop.nodesEnd
  /\ IF loop.splitOccurred
       THEN /\ loop' = [node |-> loop.node, nodesEnd |-> 2 * loop.nodesEnd + 1,
                        splitOccurred |-> FALSE, splitDim |-> 1 - loop.splitDim]
            /\ call' = call
       ELSE loop' = FirstLevel /\ call' = "none"
  /\ UNCHANGED <<features, tree, queryVars>>

PreprocessStep == KeepNode \/ SplitNode \/ EndLevel

-----------------------------------------------------------------------------
(* objectsContain, for the pixel p.                                         *)
ObjectsContain(p) ==
  /\ call' = "objectsContain"
  /\ point' = p
  /\ nodesToCheck' = IF tree = <<>> THEN <<>> ELSE <<0>>
  /\ leaf' = NoLeaf
  /\ vObj' = <<>>
  /\ UNCHANGED <<features, tree, loop>>

(* Cuboid::contains, both bounds included.                                  *)
BoxContains(n, p) == \A dim \in Dim : Coord(p, dim) \in tree[n].aabb[dim]

(* An inner node is known by its empty range.                               *)
IsLeaf(n) == tree[n].begin # tree[n].end

InLeaf == leaf.objectIndex < leaf.objectsEnd
Checking == call = "objectsContain" /\ nodesToCheck # <<>> /\ ~InLeaf

(* A slip the properties must notice: the high child only if not the low.   *)
CheckInnerNodeElse ==
  /\ Checking
  /\ LET n == Head(nodesToCheck)
         m == IF BoxContains(LowChild(n), point) THEN LowChild(n) ELSE HighChild(n)
     IN  /\ ~IsLeaf(n)
         /\ nodesToCheck' = <<m>> \o Tail(nodesToCheck)
  /\ UNCHANGED <<features, tree, call, loop, point, leaf, vObj>>

Pushed(m) == IF BoxContains(m, point) THEN <<m>> ELSE <<>>

CheckInnerNode ==
  /\ Checking
  /\ LET n == Head(nodesToCheck)
     IN  /\ ~IsLeaf(n)
         /\ nodesToCheck' = Pushed(LowChild(n)) \o Pushed(HighChild(n)) \o Tail(nodesToCheck)
  /\ UNCHANGED <<features, tree, call, loop, point, leaf, vObj>>

CheckLeaf ==
  /\ Checking
  /\ LET n == Head(nodesToCheck)
     IN  /\ IsLeaf(n)
         /\ leaf' = [objectIndex |-> tree[n].begin, objectsEnd |-> tree[n].end]
  /\ nodesToCheck' = Tail(nodesToCheck)
  /\ UNCHANGED <<features, tree, call, loop, point, vObj>>

CheckObject ==
  /\ call = "objectsContain" /\ InLeaf
  /\ LET i == leaf.objectIndex + 1
     IN  /\ vObj' = IF ContainsPixel(features[i], point) THEN Append(vObj, i) ELSE vObj
         /\ leaf' = [leaf EXCEPT !.objectIndex = i]
  /\ UNCHANGED <<features, tree, call, loop, point, nodesToCheck>>

CheckNode == CheckInnerNode \/ CheckLeaf \/ CheckObject

ReturnObjects ==
  /\ call = "objectsContain"
  /\ nodesToCheck = <<>> /\ ~InLeaf
  /\ call' = "none"
  /\ point' = NoPixel
  /\ leaf' = NoLeaf
  /\ vObj' = <<>>
  /\ UNCHANGED <<features, tree, loop, nodesToCheck>>

TreeStep == PreprocessStep \/ CheckNode
-----------------------------------------------------------------------------
(* What the tree is promised by the collection whose vector it has sorted:  *)
(* between two calls the vector may only get new features at its end, or    *)
(* else the tree goes too.  A tree is built again for any vector.           *)

AnyFeature ==
  [id : Nat, bitMask : Seq(SUBSET Nat),
   box : [ulRow : Nat, ulCol : Nat, brRow : Nat, brCol : Nat]]

StartsWith(s, t) == Len(t) <= Len(s) /\ \A i \in 1..Len(t) : s[i] = t[i]

ChangeVector ==
  /\ call = "none"
  /\ features' \in Seq(AnyFeature)
  /\ tree' = <<>> \/ (tree' = tree /\ StartsWith(features', features))
  /\ UNCHANGED <<call, loop, queryVars>>

BuildTree ==
  /\ call = "none"
  /\ features' \in Seq(AnyFeature)
  /\ Preprocess(features')

Query ==
  /\ call = "none"
  /\ point' \in Nat \X Nat
  /\ ObjectsContain(point')

TreeNext == ChangeVector \/ BuildTree \/ Query \/ TreeStep \/ ReturnObjects

TreeSpec == TreeInit /\ [][TreeNext]_treeVars
-----------------------------------------------------------------------------
(* The children of a node share out its features, no two nodes of a level   *)
(* have one in common, and no feature sticks out of the box of a node that  *)
(* it lies below: whatever the features and the order that sorting leaves   *)
(* them in, each is in one leaf, and no box hides it.                       *)
Built(n) == call # "preprocess" \/ n < loop.node

EveryFeatureHasItsLeaf ==
  tree # <<>> =>
    /\ tree[0].objects = 1..Len(features) \/ call # "preprocess"
    /\ \A n \in DOMAIN tree :
         /\ IsLeaf(n) => tree[n].objects = tree[n].begin + 1..tree[n].end
         /\ Built(n) => \A i \in tree[n].objects, dim \in Dim :
              MinCoord(features[i], dim)..MaxCoord(features[i], dim) \subseteq tree[n].aabb[dim]
         /\ Built(n) /\ ~IsLeaf(n) /\ tree[n].objects # {} =>
              /\ {LowChild(n), HighChild(n)} \subseteq DOMAIN tree
              /\ tree[LowChild(n)].objects # {} /\ tree[HighChild(n)].objects # {}
              /\ tree[LowChild(n)].objects \union tree[HighChild(n)].objects = tree[n].objects
              /\ tree[LowChild(n)].objects \intersect tree[HighChild(n)].objects = {}

(* objectsContain returns the features whose boxes contain the pixel, of    *)
(* those there were when the tree was built: no subtree is passed over, and *)
(* features added since do not disturb it.                                  *)
Indexed == IF tree = <<>> THEN {} ELSE tree[0].objects

SearchFindsAll ==
  call = "objectsContain" /\ nodesToCheck = <<>> /\ ~InLeaf =>
    {vObj[k] : k \in 1..Len(vObj)} = {i \in Indexed : ContainsPixel(features[i], point)}
=============================================================================
