----------------------------- MODULE UnionFind ------------------------------
(***************************************************************************)
(* The union-find forest of FeatureCollection/tools/UnionFind.h, as the     *)
(* parent and the rank of each element.                                     *)
(***************************************************************************)
EXTENDS Integers

(* The elements that `find' visits from e on: the least set with e and the  *)
(* parents of its elements.                                                 *)
Path(parent, e) ==
  {x \in DOMAIN parent :
     \A S \in SUBSET DOMAIN parent :
       e \in S /\ (\A y \in S : parent[y] \in S) => x \in S}

Root(parent, e) == CHOOSE r \in Path(parent, e) : parent[r] = r

(* find: the root becomes the parent of all that were visited.              *)
Find(parent, e) ==
  LET path == Path(parent, e)
      root == Root(parent, e)
  IN  [x \in DOMAIN parent |-> IF x \in path THEN root ELSE parent[x]]

(* A slip the properties must notice: the ranks are not compared.           *)
LinkFirstToSecond(f, root1, root2) == [f EXCEPT !.parent[root1] = root2]

(* The root of lower rank goes below the other one.                         *)
Link(f, root1, root2) ==
  IF f.rank[root1] < f.rank[root2] THEN [f EXCEPT !.parent[root1] = root2]
  ELSE IF f.rank[root1] = f.rank[root2]
         THEN [f EXCEPT !.parent[root2] = root1, !.rank[root1] = @ + 1]
  ELSE [f EXCEPT !.parent[root2] = root1]

UnionElements(f, e1, e2) ==
  LET found1 == Find(f.parent, e1)
      found2 == Find(found1, e2)
      root1 == found1[e1]
      root2 == found2[e2]
      g == [f EXCEPT !.parent = found2]
  IN  IF root1 = root2 THEN g ELSE Link(g, root1, root2)
=============================================================================
