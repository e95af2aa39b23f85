-------------------------- MODULE FastImageProofs ---------------------------
(***************************************************************************)
(* Proofs about the views of a FastImage object, for any pyramid, any      *)
(* number of views, users and requests, and any radius: each view is in    *)
(* one place and counted right (Inv), what is promised balances what is on *)
(* its way (ServiceInv), nothing is left behind, and the whole implements  *)
(* the view service.                                                       *)
(***************************************************************************)
EXTENDS FastImageService, CommonLemmas

-----------------------------------------------------------------------------
(* The sizes.                                                              *)

(* A view overlaps at least one tile of each row and column, and only one  *)
(* when there is no radius.                                                *)
LEMMA OverlapSize ==
  ASSUME NEW n \in Nat \ {0}, NEW i \in 0..n - 1, NEW reach \in Nat
  PROVE  /\ Overlap(i, reach, n) \in Nat \ {0}
         /\ reach = 0 => Overlap(i, reach, n) = 1
<1> DEFINE first == IF i > reach THEN i - reach ELSE 0
           last == IF i + reach + 1 < n THEN i + reach + 1 ELSE n
<1>1. first \in Nat /\ first <= i /\ (reach = 0 => first = i)
  OBVIOUS
<1>2. last \in Nat /\ last > i /\ (reach = 0 => last = i + 1)
  OBVIOUS
<1>3. Overlap(i, reach, n) = last - first
  BY DEF Overlap
<1> HIDE DEF first, last
<1> QED BY <1>1, <1>2, <1>3

LEMMA SomeTiles ==
  ASSUME NEW p \in Level, NEW t \in Tile(p)
  PROVE  /\ NumberTilesToLoad(p, t) \in Nat \ {0}
         /\ ReachHeight[p] = 0 => NumberTilesToLoad(p, t) = 1
<1> DEFINE a == Overlap(t[1], ReachHeight[p], NumberTilesHeight[p])
           b == Overlap(t[2], ReachWidth[p], NumberTilesWidth[p])
<1>1. /\ NumberTilesHeight[p] \in Nat \ {0} /\ t[1] \in 0..NumberTilesHeight[p] - 1
      /\ NumberTilesWidth[p] \in Nat \ {0} /\ t[2] \in 0..NumberTilesWidth[p] - 1
      /\ ReachHeight[p] \in Nat /\ ReachWidth[p] \in Nat
      /\ ReachHeight[p] = 0 => ReachWidth[p] = 0
  BY ViewSizesAssumption DEF Tile
<1>2. /\ a \in Nat \ {0} /\ b \in Nat \ {0}
      /\ ReachHeight[p] = 0 => a = 1 /\ b = 1
  BY <1>1, OverlapSize
<1>3. NumberTilesToLoad(p, t) = a * b
  BY DEF NumberTilesToLoad
<1> HIDE DEF a, b
<1>4. a * b \in Nat \ {0}
  BY <1>2
<1> QED BY <1>2, <1>3, <1>4

(* The levels and the views.                                               *)
LEMMA Views ==
  /\ 0 \in Level
  /\ \A v \in View : LevelOf(v) \in Level
  /\ \A p \in Level : MemoryPoolSize(p) \in Nat
  /\ \A p \in Level : \A i \in 1..MemoryPoolSize(p) :
       <<p, i>> \in View /\ LevelOf(<<p, i>>) = p
  /\ \A v \in View : \E i \in 1..MemoryPoolSize(LevelOf(v)) : v = <<LevelOf(v), i>>
  /\ \A p \in Level : Origin \in Tile(p) /\ Tile(p) \subseteq AnyTile
<1>1. 0 \in Level
  BY ViewSizesAssumption DEF Level
<1>2. ASSUME NEW p \in Level PROVE MemoryPoolSize(p) \in Nat
  <2>1. NumberTilesWidth[p] \in Nat /\ NumberTilesHeight[p] \in Nat
    BY ViewSizesAssumption
  <2>2. NumberTilesWidth[p] * NumberTilesHeight[p] \in Nat
    BY <2>1
  <2> QED BY <2>2, ViewSizesAssumption DEF MemoryPoolSize
<1>3. \A p \in Level : \A i \in 1..MemoryPoolSize(p) :
        <<p, i>> \in View /\ LevelOf(<<p, i>>) = p
  BY DEF View, LevelOf
<1>4. ASSUME NEW v \in View
      PROVE  /\ LevelOf(v) \in Level
             /\ \E i \in 1..MemoryPoolSize(LevelOf(v)) : v = <<LevelOf(v), i>>
  <2>1. PICK p \in Level : v \in {p} \X (1..MemoryPoolSize(p))
    BY DEF View
  <2>2. PICK i \in 1..MemoryPoolSize(p) : v = <<p, i>>
    BY <2>1
  <2> QED BY <2>2 DEF LevelOf
<1>5. ASSUME NEW p \in Level PROVE Origin \in Tile(p) /\ Tile(p) \subseteq AnyTile
  BY ViewSizesAssumption DEF Origin, Tile, AnyTile
<1> QED BY <1>1, <1>2, <1>3, <1>4, <1>5

-----------------------------------------------------------------------------
(* The invariant, view by view.                                            *)

OnePlace(v) ==
  /\ IsFree(v) \/ IsMade(v) \/ IsStored(v) \/ IsReady(v) \/ IsLent(v)
  /\ IsFree(v) => ~IsMade(v) /\ ~IsStored(v) /\ ~IsReady(v) /\ ~IsLent(v)
  /\ IsMade(v) => ~IsStored(v) /\ ~IsReady(v) /\ ~IsLent(v)
  /\ IsStored(v) => ~IsReady(v) /\ ~IsLent(v)
  /\ IsReady(v) => ~IsLent(v)

Counted(v) ==
  IsMade(v) => TilesUnderWay(v) = NumberTilesToLoad(LevelOf(v), tile[v])

CountsAgree(v) ==
  /\ IsFree(v) => releaseCount[v] = 0
  /\ IsLent(v) => releaseCount[v] = uses[v]
  /\ IsMade(v) \/ IsStored(v) \/ IsReady(v) =>
       releaseCount[v] = NbReleasePyramid[LevelOf(v)] /\ releaseCount[v] # 0

ViewOK(v) == OnePlace(v) /\ Counted(v) /\ CountsAgree(v)

ListsOK ==
  /\ NoRepeat(output)
  /\ \A p \in Level : NoRepeat(pool[p]) /\ \A v \in Elems(pool[p]) : LevelOf(v) = p

LEMMA InvByView == Inv <=> TypeOK /\ ListsOK /\ \A v \in View : ViewOK(v)
<1>1. OnePlacePerView <=> ListsOK /\ \A v \in View : OnePlace(v)
  BY Zenon DEF OnePlacePerView, ListsOK, OnePlace
<1>2. EveryTileIsCounted <=> \A v \in View : Counted(v)
  BY Zenon DEF EveryTileIsCounted, Counted
<1>3. ReleaseCountsAgree <=> \A v \in View : CountsAgree(v)
  BY Zenon DEF ReleaseCountsAgree, CountsAgree
<1> QED BY Zenon, <1>1, <1>2, <1>3 DEF Inv, ViewOK

LEMMA InvByViewNext == Inv' <=> (TypeOK /\ ListsOK /\ \A v \in View : ViewOK(v))'
<1>1. (OnePlacePerView <=> ListsOK /\ \A v \in View : OnePlace(v))'
  BY Zenon DEF OnePlacePerView, ListsOK, OnePlace
<1>2. (EveryTileIsCounted <=> \A v \in View : Counted(v))'
  BY Zenon DEF EveryTileIsCounted, Counted
<1>3. (ReleaseCountsAgree <=> \A v \in View : CountsAgree(v))'
  BY Zenon DEF ReleaseCountsAgree, CountsAgree
<1> QED BY Zenon, <1>1, <1>2, <1>3 DEF Inv, ViewOK

(* A view that a step does not concern.                                    *)
Untouched(v) ==
  /\ IsFree(v)' = IsFree(v) /\ IsStored(v)' = IsStored(v) /\ IsReady(v)' = IsReady(v)
  /\ toSend'[v] = toSend[v] /\ asked'[v] = asked[v]
  /\ loaded'[v] = loaded[v] /\ countMap'[v] = countMap[v]
  /\ tile'[v] = tile[v] /\ releaseCount'[v] = releaseCount[v] /\ uses'[v] = uses[v]

LEMMA UntouchedKeepsOK ==
  ASSUME NEW v \in View, ViewOK(v), Untouched(v)
  PROVE  ViewOK(v)'
<1>1. IsMade(v)' = IsMade(v) /\ TilesUnderWay(v)' = TilesUnderWay(v) /\ IsLent(v)' = IsLent(v)
  BY DEF Untouched, IsMade, TilesUnderWay, IsLent
<1>2. OnePlace(v)'
  BY <1>1 DEF ViewOK, OnePlace, Untouched
<1>3. Counted(v)'
  BY <1>1 DEF ViewOK, Counted, Untouched
<1>4. CountsAgree(v)'
  BY <1>1 DEF ViewOK, CountsAgree, Untouched
<1> QED BY <1>2, <1>3, <1>4 DEF ViewOK

-----------------------------------------------------------------------------
(* The start.                                                              *)
LEMMA InvInit == Init => Inv
<1> SUFFICES ASSUME Init PROVE Inv
  OBVIOUS
<1> USE DEF Init, MemoryInit, CounterInit
<1>1. /\ pool \in [Level -> Seq(View)]
      /\ \A p \in Level : NoRepeat(pool[p])
      /\ \A p \in Level : \A v \in Elems(pool[p]) : LevelOf(v) = p
      /\ \A v \in View : IsFree(v)
  <2>1. ASSUME NEW p \in Level
        PROVE  /\ pool[p] \in Seq(View) /\ Len(pool[p]) = MemoryPoolSize(p)
               /\ \A i \in 1..MemoryPoolSize(p) : pool[p][i] = <<p, i>>
    <3> DEFINE n == MemoryPoolSize(p)
    <3>1. pool[p] = [i \in 1..n |-> <<p, i>>]
      OBVIOUS
    <3>2. n \in Nat /\ \A i \in 1..n : <<p, i>> \in View
      BY Views
    <3> HIDE DEF n, Init, MemoryInit, CounterInit
    <3>3. pool[p] \in [1..n -> View]
      BY <3>1, <3>2
    <3>4. pool[p] \in Seq(View) /\ Len(pool[p]) = n
      <4> DEFINE q == pool[p]
      <4>1. q \in [1..n -> View]
        BY <3>3
      <4> HIDE DEF q
      <4>2. q \in Seq(View) /\ Len(q) = n
        BY <4>1, <3>2
      <4> QED BY <4>2 DEF q
    <3> QED BY <3>1, <3>4 DEF n
  <2>2. \A p \in Level : NoRepeat(pool[p])
    BY <2>1 DEF NoRepeat
  <2>3. \A p \in Level : \A v \in Elems(pool[p]) : LevelOf(v) = p
    BY <2>1, Views DEF Elems
  <2>4. ASSUME NEW v \in View PROVE IsFree(v)
    <3>1. PICK i \in 1..MemoryPoolSize(LevelOf(v)) : v = <<LevelOf(v), i>>
      BY Views
    <3>2. LevelOf(v) \in Level
      BY Views
    <3>3. i \in 1..Len(pool[LevelOf(v)]) /\ pool[LevelOf(v)][i] = v
      BY <3>1, <3>2, <2>1
    <3> QED BY <3>3 DEF IsFree, Elems
  <2> QED BY <2>1, <2>2, <2>3, <2>4
<1>2. TypeOK
  <2>1. \A v \in View : Origin \in AnyTile /\ Origin \in Tile(LevelOf(v))
    BY Views
  <2>2. \A p \in Level : <<>> \in Seq(Tile(p)) /\ <<>> \in Seq(AnyTile)
    OBVIOUS
  <2>3. /\ tile \in [View -> AnyTile] /\ \A v \in View : tile[v] \in Tile(LevelOf(v))
        /\ requests \in [Level -> Seq(AnyTile)]
        /\ \A p \in Level : requests[p] \in Seq(Tile(p))
    BY <2>1, <2>2
  <2>4. /\ calls \in [User -> Nat] /\ sending \in [User -> Seq(AnyTile)]
        /\ sendingTo \in [User -> Level]
        /\ \A u \in User : sending[u] \in Seq(Tile(sendingTo[u]))
    BY <2>2, Views, UsersAssumption
  <2>5. /\ queueTraversals \in Seq(Seq(AnyTile)) /\ currentTraversal \in Seq(AnyTile)
        /\ output \in Seq(View) /\ waitingList \subseteq View /\ storing \subseteq Level
    OBVIOUS
  <2>6. /\ releaseCount \in [View -> Nat] /\ loaded \in [View -> Nat]
        /\ countMap \in [View -> Nat] /\ toSend \in [View -> Nat]
        /\ asked \in [View -> Nat] /\ uses \in [View -> Nat] /\ finished \in BOOLEAN
    OBVIOUS
  <2> HIDE DEF Init, MemoryInit, CounterInit
  <2> QED BY <1>1, <2>3, <2>4, <2>5, <2>6 DEF TypeOK
<1>3. ListsOK
  <2>1. NoRepeat(output)
    BY DEF NoRepeat
  <2> QED BY <1>1, <2>1 DEF ListsOK
<1>4. ASSUME NEW v \in View PROVE ViewOK(v)
  <2>1. IsFree(v) /\ ~IsMade(v) /\ ~IsStored(v) /\ ~IsReady(v) /\ ~IsLent(v)
    BY <1>1 DEF IsMade, TilesUnderWay, IsStored, IsReady, IsLent, Elems
  <2>2. releaseCount[v] = 0
    OBVIOUS
  <2> QED BY <2>1, <2>2 DEF ViewOK, OnePlace, Counted, CountsAgree
<1> QED BY <1>2, <1>3, <1>4, InvByView

-----------------------------------------------------------------------------
(* Steps that touch no view.                                               *)
LEMMA QuietKeepsInv ==
  ASSUME Inv, TypeOK',
         UNCHANGED <<memoryVars, loaded, countMap, waitingList, output, toSend, asked, uses>>
  PROVE  Inv'
<1>1. ListsOK'
  BY InvByView DEF memoryVars, ListsOK
<1>2. ASSUME NEW v \in View PROVE ViewOK(v)'
  <2>1. ViewOK(v)
    BY InvByView
  <2>2. Untouched(v)
    BY DEF memoryVars, Untouched, IsFree, IsStored, IsReady
  <2> QED BY <2>1, <2>2, UntouchedKeepsOK
<1> QED BY <1>1, <1>2, InvByViewNext

(* Where the traversals are after updateCurrentTraversal.                  *)
LEMMA TraversalTypes ==
  ASSUME TypeOK
  PROVE  /\ Current \in Seq(AnyTile)
         /\ Queued \in Seq(Seq(AnyTile))
         /\ Popped \in Seq(AnyTile)
<1>1. MovesOn => Head(queueTraversals) \in Seq(AnyTile)
                   /\ Tail(queueTraversals) \in Seq(Seq(AnyTile))
  BY DEF TypeOK, MovesOn
<1>2. Current \in Seq(AnyTile) /\ Queued \in Seq(Seq(AnyTile))
  BY <1>1 DEF TypeOK, Current, Queued
<1> HIDE DEF Current
<1>3. Popped \in Seq(AnyTile)
  BY <1>2 DEF Popped
<1> QED BY <1>2, <1>3

LEMMA RequestKeepsInv ==
  ASSUME Inv, NEW u \in User, NEW c \in Traversals, Request(u, c[1], c[2])
  PROVE  Inv'
<1> USE DEF Request
<1>1. TypeOK
  BY DEF Inv
<1>2. c[1] \in Level /\ c[2] \in Seq(Tile(c[1])) /\ c[2] \in Seq(AnyTile)
  BY UsersAssumption, Views
<1>3. TypeOK'
  <2>1. queueTraversals' \in Seq(Seq(AnyTile))
    BY <1>1, <1>2 DEF TypeOK, AddTraversal
  <2>2. calls' \in [User -> Nat]
    BY <1>1 DEF TypeOK
  <2>3. sending' \in [User -> Seq(AnyTile)] /\ sendingTo' \in [User -> Level]
    BY <1>1, <1>2 DEF TypeOK
  <2>4. \A w \in User : sending'[w] \in Seq(Tile(sendingTo'[w]))
    BY <1>1, <1>2 DEF TypeOK
  <2> QED BY <1>1, <2>1, <2>2, <2>3, <2>4 DEF TypeOK, memoryVars
<1> QED BY <1>3, QuietKeepsInv

LEMMA SendRequestKeepsInv ==
  ASSUME Inv, NEW u \in User, SendRequest(u)
  PROVE  Inv'
<1> USE DEF SendRequest
<1> DEFINE p == sendingTo[u]
<1>1. TypeOK
  BY DEF Inv
<1>2. p \in Level /\ sending[u] \in Seq(Tile(p)) /\ sending[u] # <<>>
  BY <1>1 DEF TypeOK
<1> HIDE DEF p
<1>3. Head(sending[u]) \in Tile(p) /\ Tail(sending[u]) \in Seq(Tile(p))
  <2> DEFINE q == sending[u]
             S == Tile(p)
  <2>1. q \in Seq(S) /\ q # <<>>
    BY <1>2
  <2> HIDE DEF q, S
  <2>2. Head(q) \in S /\ Tail(q) \in Seq(S)
    BY <2>1
  <2> QED BY <2>2 DEF q, S
<1> USE DEF p
<1>4. Head(sending[u]) \in AnyTile /\ Tail(sending[u]) \in Seq(AnyTile)
  BY <1>2, <1>3, Views
<1>5. TypeOK'
  <2>1. requests' \in [Level -> Seq(AnyTile)]
    BY <1>1, <1>2, <1>4 DEF TypeOK
  <2>2. \A q \in Level : requests'[q] \in Seq(Tile(q))
    BY <1>1, <1>2, <1>3 DEF TypeOK
  <2>3. sending' \in [User -> Seq(AnyTile)]
    BY <1>1, <1>4 DEF TypeOK
  <2>4. \A w \in User : sending'[w] \in Seq(Tile(sendingTo'[w]))
    BY <1>1, <1>3 DEF TypeOK
  <2> QED BY <1>1, <2>1, <2>2, <2>3, <2>4 DEF TypeOK, memoryVars, counterVars, orderVars
<1> QED BY <1>5, QuietKeepsInv DEF counterVars, orderVars

LEMMA FinishedKeepsInv ==
  ASSUME Inv, FinishedRequestingTiles
  PROVE  Inv'
<1> USE DEF FinishedRequestingTiles
<1>1. TypeOK'
  BY DEF Inv, TypeOK, memoryVars, counterVars, orderVars
<1> QED BY <1>1, QuietKeepsInv DEF counterVars, orderVars

LEMMA DropRequestKeepsInv ==
  ASSUME Inv, NEW p \in Level, DropRequest(p)
  PROVE  Inv'
<1> USE DEF DropRequest
<1>1. TypeOK /\ requests[p] # <<>>
  BY DEF Inv
<1>2. Tail(requests[p]) \in Seq(Tile(p)) /\ Tail(requests[p]) \in Seq(AnyTile)
  BY <1>1 DEF TypeOK
<1>3. TypeOK'
  BY <1>1, <1>2 DEF TypeOK, memoryVars, counterVars, orderVars, userVars
<1> QED BY <1>3, QuietKeepsInv DEF counterVars, orderVars

-----------------------------------------------------------------------------
(* Steps that move one view.                                               *)

(* A user takes the first view that is ready.                              *)
LEMMA GetAvailableViewKeepsInv ==
  ASSUME Inv, GetAvailableView
  PROVE  Inv'
<1>1. /\ TypeOK /\ ListsOK /\ \A w \in View : ViewOK(w)
      /\ output # <<>> /\ output \in Seq(View) /\ NoRepeat(output)
  BY InvByView DEF TypeOK, ListsOK, GetAvailableView
<1>2. PICK v \in View :
        /\ v = Head(output) /\ v \in Elems(output)
        /\ Tail(output) \in Seq(View) /\ NoRepeat(Tail(output))
        /\ Elems(Tail(output)) = Elems(output) \ {v}
  BY <1>1, PopFront
<1>3. /\ output' = Tail(output)
      /\ uses' = [uses EXCEPT ![v] = NbReleasePyramid[LevelOf(v)]]
      /\ UNCHANGED <<pool, releaseCount, tile, loaded, countMap, storing, waitingList,
                     queueTraversals, currentTraversal, calls, sending, sendingTo,
                     finished, requests, toSend, asked>>
  BY <1>2 DEF GetAvailableView, memoryVars, orderVars, userVars
<1>4. /\ releaseCount[v] = NbReleasePyramid[LevelOf(v)] /\ releaseCount[v] # 0
      /\ ~IsFree(v) /\ ~IsMade(v) /\ ~IsStored(v) /\ IsReady(v)
  BY <1>1, <1>2 DEF ViewOK, OnePlace, CountsAgree, IsReady
<1>5. /\ releaseCount[v] \in Nat /\ uses \in [View -> Nat]
      /\ uses' = [uses EXCEPT ![v] = releaseCount[v]]
  BY <1>1, <1>2, <1>3, <1>4 DEF TypeOK
<1>6. TypeOK'
  BY <1>1, <1>2, <1>3, <1>5 DEF TypeOK
<1>7. ListsOK'
  BY <1>1, <1>2, <1>3 DEF ListsOK
<1>8. ViewOK(v)'
  <2>1. uses'[v] = releaseCount[v] /\ releaseCount' = releaseCount
    BY <1>2, <1>3, <1>5
  <2>2. IsLent(v)'
    BY <1>4, <1>5, <2>1 DEF IsLent
  <2>3. ~IsFree(v)' /\ ~IsStored(v)' /\ ~IsReady(v)'
    BY <1>2, <1>3, <1>4 DEF IsFree, IsStored, IsReady
  <2>4. ~IsMade(v)'
    BY <1>3, <1>4 DEF IsMade, TilesUnderWay
  <2> QED BY <2>1, <2>2, <2>3, <2>4 DEF ViewOK, OnePlace, Counted, CountsAgree
<1>9. ASSUME NEW w \in View, w # v PROVE ViewOK(w)'
  <2>1. IsReady(w)' = IsReady(w)
    BY <1>2, <1>3, <1>9 DEF IsReady
  <2>2. uses'[w] = uses[w]
    BY <1>5, <1>9
  <2>3. Untouched(w)
    BY <1>3, <2>1, <2>2 DEF Untouched, IsFree, IsStored
  <2> QED BY <1>1, <2>3, UntouchedKeepsOK
<1> QED
  <2>1. \A w \in View : ViewOK(w)'
    BY <1>8, <1>9
  <2> QED BY <1>6, <1>7, <2>1, InvByViewNext

(* A user releases a view: it stays with the users, or goes back.          *)
LEMMA ReleaseViewKeepsInv ==
  ASSUME Inv, NEW v \in View, ReleaseView(v)
  PROVE  Inv'
<1> DEFINE p == LevelOf(v)
           left == releaseCount[v] - 1
<1>1. /\ TypeOK /\ ListsOK /\ \A w \in View : ViewOK(w)
      /\ uses \in [View -> Nat] /\ releaseCount \in [View -> Nat]
      /\ uses[v] > 0
  BY InvByView DEF TypeOK, ReleaseView
<1>2. /\ p \in Level /\ pool[p] \in Seq(View) /\ NoRepeat(pool[p])
      /\ pool \in [Level -> Seq(View)]
  BY <1>1, Views DEF TypeOK, ListsOK
<1>3. /\ releaseCount[v] = uses[v]
      /\ ~IsFree(v) /\ ~IsMade(v) /\ ~IsStored(v) /\ ~IsReady(v)
  BY <1>1 DEF ViewOK, OnePlace, CountsAgree, IsLent
<1>4. /\ releaseCount' = [releaseCount EXCEPT ![v] = left]
      /\ uses' = [uses EXCEPT ![v] = left]
      /\ left = 0 => pool' = [pool EXCEPT ![p] = Append(@, v)]
      /\ left # 0 => pool' = pool
      /\ UNCHANGED <<tile, loaded, countMap, storing, waitingList,
                     queueTraversals, currentTraversal, output, calls, sending,
                     sendingTo, finished, requests, toSend, asked>>
  BY <1>3 DEF ReleaseView, ReleaseMemory, counterVars, orderVars, userVars
<1>5. left \in Nat
  BY <1>1, <1>3
<1> HIDE DEF left
<1>6. releaseCount'[v] = left /\ uses'[v] = left
  BY <1>1, <1>4
<1>7. /\ pool' \in [Level -> Seq(View)]
      /\ NoRepeat(pool'[p])
      /\ \A w \in Elems(pool'[p]) : LevelOf(w) = p
      /\ \A q \in Level : q # p => pool'[q] = pool[q]
      /\ left = 0 => Elems(pool'[p]) = Elems(pool[p]) \union {v}
      /\ left # 0 => Elems(pool'[p]) = Elems(pool[p])
  <2>1. CASE left = 0
    <3>1. /\ Append(pool[p], v) \in Seq(View) /\ NoRepeat(Append(pool[p], v))
          /\ Elems(Append(pool[p], v)) = Elems(pool[p]) \union {v}
      BY <1>2, <1>3, PushBack DEF IsFree
    <3>2. /\ pool'[p] = Append(pool[p], v) /\ pool' \in [Level -> Seq(View)]
          /\ \A q \in Level : q # p => pool'[q] = pool[q]
      BY <1>2, <1>4, <2>1, <3>1
    <3>3. \A w \in Elems(pool[p]) : LevelOf(w) = p
      BY <1>1, <1>2 DEF ListsOK
    <3> QED BY <2>1, <3>1, <3>2, <3>3
  <2>2. CASE left # 0
    <3>1. pool' = pool
      BY <1>4, <2>2
    <3>2. \A w \in Elems(pool[p]) : LevelOf(w) = p
      BY <1>1, <1>2 DEF ListsOK
    <3> QED BY <1>2, <2>2, <3>1, <3>2
  <2> QED BY <2>1, <2>2
<1>8. TypeOK'
  <2>1. releaseCount' \in [View -> Nat] /\ uses' \in [View -> Nat]
    BY <1>1, <1>4, <1>5
  <2> QED BY <1>1, <1>4, <1>7, <2>1 DEF TypeOK
<1>9. ListsOK'
  BY <1>1, <1>4, <1>7 DEF ListsOK
<1>10. ViewOK(v)'
  <2>1. ~IsStored(v)' /\ ~IsReady(v)'
    BY <1>3, <1>4 DEF IsStored, IsReady
  <2>2. ~IsMade(v)'
    BY <1>3, <1>4 DEF IsMade, TilesUnderWay
  <2>3. IsFree(v)' <=> left = 0
    BY <1>2, <1>3, <1>7 DEF IsFree
  <2>4. IsLent(v)' <=> left # 0
    <3>1. IsLent(v)' <=> left > 0
      BY <1>6 DEF IsLent
    <3> QED BY <3>1, <1>5
  <2> QED BY <1>6, <2>1, <2>2, <2>3, <2>4 DEF ViewOK, OnePlace, Counted, CountsAgree
<1>11. ASSUME NEW w \in View, w # v PROVE ViewOK(w)'
  <2>1. IsFree(w)' = IsFree(w)
    <3>1. CASE LevelOf(w) = p
      BY <1>7, <1>11, <3>1, <1>5 DEF IsFree
    <3>2. CASE LevelOf(w) # p
      BY Views, <1>7, <3>2 DEF IsFree
    <3> QED BY <3>1, <3>2
  <2>2. releaseCount'[w] = releaseCount[w] /\ uses'[w] = uses[w]
    BY <1>1, <1>4, <1>11
  <2>3. Untouched(w)
    BY <1>4, <2>1, <2>2 DEF Untouched, IsStored, IsReady
  <2> QED BY <1>1, <2>3, UntouchedKeepsOK
<1> QED
  <2>1. \A w \in View : ViewOK(w)'
    BY <1>10, <1>11
  <2> QED BY <1>8, <1>9, <2>1, InvByViewNext

(* The view loader takes a free view for a request.                        *)
LEMMA LoadViewKeepsInv ==
  ASSUME Inv, NEW p \in Level, NEW v \in View, LoadView(p, v)
  PROVE  Inv'
<1> DEFINE t == Head(requests[p])
           n == NumberTilesToLoad(p, t)
<1>1. /\ TypeOK /\ ListsOK /\ \A w \in View : ViewOK(w)
      /\ pool \in [Level -> Seq(View)] /\ NoRepeat(pool[p])
      /\ requests \in [Level -> Seq(AnyTile)] /\ requests[p] \in Seq(Tile(p))
      /\ releaseCount \in [View -> Nat] /\ tile \in [View -> AnyTile]
      /\ toSend \in [View -> Nat]
  BY InvByView DEF TypeOK, ListsOK
<1>2. /\ LevelOf(v) = p /\ NbReleasePyramid[p] # 0
      /\ requests[p] # <<>> /\ pool[p] # <<>> /\ v = Head(pool[p])
      /\ pool' = [pool EXCEPT ![p] = Tail(@)]
      /\ releaseCount' = [releaseCount EXCEPT ![v] = NbReleasePyramid[p]]
      /\ tile' = [tile EXCEPT ![v] = t]
      /\ toSend' = [toSend EXCEPT ![v] = n]
      /\ requests' = [requests EXCEPT ![p] = Tail(@)]
      /\ UNCHANGED <<loaded, countMap, storing, waitingList, queueTraversals,
                     currentTraversal, output, calls, sending, sendingTo, finished,
                     asked, uses>>
  BY DEF LoadView, GetMemory, counterVars, orderVars, userVars
<1>3. /\ t \in Tile(p) /\ Tail(requests[p]) \in Seq(Tile(p))
      /\ Tail(requests[p]) \in Seq(AnyTile)
  <2>1. requests[p] \in Seq(AnyTile)
    BY <1>1
  <2> QED BY <1>1, <1>2, <2>1, HeadTailProperties
<1>4. t \in AnyTile /\ n \in Nat \ {0}
  BY <1>3, Views, SomeTiles
<1> HIDE DEF t, n
<1>5. /\ v \in Elems(pool[p]) /\ Tail(pool[p]) \in Seq(View)
      /\ NoRepeat(Tail(pool[p])) /\ Elems(Tail(pool[p])) = Elems(pool[p]) \ {v}
  BY <1>1, <1>2, PopFront
<1>6. /\ pool' \in [Level -> Seq(View)] /\ pool'[p] = Tail(pool[p])
      /\ \A q \in Level : q # p => pool'[q] = pool[q]
  BY <1>1, <1>2, <1>5
<1>7. NbReleasePyramid[p] \in Nat
  BY ViewSizesAssumption
<1>8. TypeOK'
  <2>1. /\ releaseCount' \in [View -> Nat] /\ toSend' \in [View -> Nat]
        /\ tile' \in [View -> AnyTile] /\ requests' \in [Level -> Seq(AnyTile)]
    BY <1>1, <1>2, <1>3, <1>4, <1>7
  <2>2. \A w \in View : tile'[w] \in Tile(LevelOf(w))
    BY <1>1, <1>2, <1>3 DEF TypeOK
  <2>3. \A q \in Level : requests'[q] \in Seq(Tile(q))
    BY <1>1, <1>2, <1>3 DEF TypeOK
  <2> QED BY <1>1, <1>2, <1>6, <2>1, <2>2, <2>3 DEF TypeOK
<1>9. ListsOK'
  <2>1. NoRepeat(output)'
    BY <1>1, <1>2 DEF ListsOK
  <2>2. ASSUME NEW q \in Level
        PROVE NoRepeat(pool'[q]) /\ \A w \in Elems(pool'[q]) : LevelOf(w) = q
    <3>1. CASE q = p
      BY <1>1, <1>5, <1>6, <3>1 DEF ListsOK
    <3>2. CASE q # p
      BY <1>1, <1>6, <3>2 DEF ListsOK
    <3> QED BY <3>1, <3>2
  <2> QED BY <2>1, <2>2 DEF ListsOK
<1>10. ViewOK(v)'
  <2>1. ~IsMade(v) /\ ~IsStored(v) /\ ~IsReady(v) /\ ~IsLent(v)
    BY <1>1, <1>2, <1>5 DEF ViewOK, OnePlace, IsFree
  <2>2. toSend'[v] = n /\ tile'[v] = t /\ releaseCount'[v] = NbReleasePyramid[p]
    BY <1>1, <1>2
  <2>3. /\ toSend[v] \in Nat /\ asked[v] \in Nat /\ loaded[v] \in Nat
        /\ countMap[v] \in Nat
    BY <1>1 DEF TypeOK
  <2>4. asked[v] = 0 /\ loaded[v] = 0 /\ countMap[v] = 0
    BY <2>1, <2>3 DEF IsMade, TilesUnderWay
  <2>5. IsMade(v)' /\ TilesUnderWay(v)' = NumberTilesToLoad(p, t)
    BY <1>2, <1>4, <2>2, <2>4 DEF IsMade, TilesUnderWay, n
  <2>6. ~IsFree(v)' /\ ~IsStored(v)' /\ ~IsReady(v)' /\ ~IsLent(v)'
    BY <1>2, <1>5, <1>6, <2>1 DEF IsFree, IsStored, IsReady, IsLent
  <2> QED BY <1>2, <2>2, <2>5, <2>6 DEF ViewOK, OnePlace, Counted, CountsAgree
<1>11. ASSUME NEW w \in View, w # v PROVE ViewOK(w)'
  <2>1. IsFree(w)' = IsFree(w)
    <3>1. CASE LevelOf(w) = p
      <4>1. Elems(pool'[p]) = Elems(pool[p]) \ {v}
        BY <1>5, <1>6
      <4> QED BY <4>1, <1>11, <3>1 DEF IsFree
    <3>2. CASE LevelOf(w) # p
      BY Views, <1>6, <3>2 DEF IsFree
    <3> QED BY <3>1, <3>2
  <2>2. /\ releaseCount'[w] = releaseCount[w] /\ tile'[w] = tile[w]
        /\ toSend'[w] = toSend[w]
    BY <1>1, <1>2, <1>11
  <2>3. Untouched(w)
    BY <1>2, <2>1, <2>2 DEF Untouched, IsStored, IsReady
  <2> QED BY <1>1, <2>3, UntouchedKeepsOK
<1> QED
  <2>1. \A w \in View : ViewOK(w)'
    BY <1>10, <1>11
  <2> QED BY <1>8, <1>9, <2>1, InvByViewNext

(* A tile of a view that is being made goes from one task to the next.     *)
OnlyTilesOf(v) ==
  /\ UNCHANGED <<pool, releaseCount, tile, waitingList, output, uses>>
  /\ \A w \in View \ {v} : /\ toSend'[w] = toSend[w] /\ asked'[w] = asked[w]
                           /\ loaded'[w] = loaded[w] /\ countMap'[w] = countMap[w]

LEMMA TileMovesKeepsInv ==
  ASSUME Inv, NEW v \in View, TypeOK', OnlyTilesOf(v),
         IsMade(v), TilesUnderWay(v)' = TilesUnderWay(v)
  PROVE  Inv'
<1>1. ListsOK /\ \A w \in View : ViewOK(w)
  BY InvByView
<1>2. ListsOK'
  BY <1>1 DEF ListsOK, OnlyTilesOf
<1>3. ViewOK(v)'
  <2>1. /\ IsFree(v)' = IsFree(v) /\ IsStored(v)' = IsStored(v)
        /\ IsReady(v)' = IsReady(v) /\ IsLent(v)' = IsLent(v)
        /\ releaseCount'[v] = releaseCount[v] /\ tile'[v] = tile[v]
    BY DEF OnlyTilesOf, IsFree, IsStored, IsReady, IsLent
  <2>2. IsMade(v)'
    BY DEF IsMade
  <2>3. OnePlace(v) /\ Counted(v) /\ CountsAgree(v)
    BY <1>1 DEF ViewOK
  <2>4. OnePlace(v)'
    BY <2>1, <2>2, <2>3 DEF OnePlace
  <2>5. Counted(v)'
    BY <2>1, <2>3 DEF Counted
  <2>6. CountsAgree(v)'
    BY <2>1, <2>2, <2>3, <2>4 DEF CountsAgree, OnePlace
  <2> QED BY <2>4, <2>5, <2>6 DEF ViewOK
<1>4. ASSUME NEW w \in View, w # v PROVE ViewOK(w)'
  <2>1. Untouched(w)
    BY <1>4 DEF OnlyTilesOf, Untouched, IsFree, IsStored, IsReady
  <2> QED BY <1>1, <2>1, UntouchedKeepsOK
<1> QED
  <2>1. \A w \in View : ViewOK(w)'
    BY <1>3, <1>4
  <2> QED BY <1>2, <2>1, InvByViewNext

LEMMA SendTileRequestKeepsInv ==
  ASSUME Inv, NEW v \in View, SendTileRequest(v)
  PROVE  Inv'
<1>1. /\ TypeOK /\ toSend \in [View -> Nat] /\ asked \in [View -> Nat]
      /\ loaded[v] \in Nat /\ countMap[v] \in Nat
  BY DEF Inv, TypeOK
<1>2. /\ toSend[v] > 0
      /\ toSend' = [toSend EXCEPT ![v] = @ - 1]
      /\ asked' = [asked EXCEPT ![v] = @ + 1]
      /\ UNCHANGED <<pool, releaseCount, tile, loaded, countMap, storing, waitingList,
                     queueTraversals, currentTraversal, output, calls, sending,
                     sendingTo, finished, requests, uses>>
  BY DEF SendTileRequest, memoryVars, counterVars, orderVars, userVars
<1>3. toSend' \in [View -> Nat] /\ asked' \in [View -> Nat]
  BY <1>1, <1>2
<1>4. TypeOK'
  BY <1>1, <1>2, <1>3 DEF TypeOK
<1>5. OnlyTilesOf(v)
  BY <1>1, <1>2 DEF OnlyTilesOf
<1>6. toSend'[v] = toSend[v] - 1 /\ asked'[v] = asked[v] + 1
  BY <1>1, <1>2
<1>7. IsMade(v) /\ TilesUnderWay(v)' = TilesUnderWay(v)
  BY <1>1, <1>2, <1>6 DEF IsMade, TilesUnderWay
<1> QED BY <1>4, <1>5, <1>7, TileMovesKeepsInv

LEMMA TileLoaderStepKeepsInv ==
  ASSUME Inv, NEW v \in View, TileLoaderStep(v)
  PROVE  Inv'
<1>1. /\ TypeOK /\ asked \in [View -> Nat] /\ loaded \in [View -> Nat]
      /\ toSend[v] \in Nat /\ countMap[v] \in Nat
  BY DEF Inv, TypeOK
<1>2. /\ asked[v] > 0
      /\ asked' = [asked EXCEPT ![v] = @ - 1]
      /\ loaded' = [loaded EXCEPT ![v] = @ + 1]
      /\ UNCHANGED <<pool, releaseCount, tile, toSend, countMap, storing, waitingList,
                     queueTraversals, currentTraversal, output, calls, sending,
                     sendingTo, finished, requests, uses>>
  BY DEF TileLoaderStep, memoryVars, orderVars, userVars
<1>3. asked' \in [View -> Nat] /\ loaded' \in [View -> Nat]
  BY <1>1, <1>2
<1>4. TypeOK'
  BY <1>1, <1>2, <1>3 DEF TypeOK
<1>5. OnlyTilesOf(v)
  BY <1>1, <1>2 DEF OnlyTilesOf
<1>6. asked'[v] = asked[v] - 1 /\ loaded'[v] = loaded[v] + 1
  BY <1>1, <1>2
<1>7. IsMade(v) /\ TilesUnderWay(v)' = TilesUnderWay(v)
  BY <1>1, <1>2, <1>6 DEF IsMade, TilesUnderWay
<1> QED BY <1>4, <1>5, <1>7, TileMovesKeepsInv

-----------------------------------------------------------------------------
(* The view counter.                                                       *)

(* A view leaves the making, or the store, for the output; or the making   *)
(* for the store.                                                          *)
LEMMA SentOutKeepsInv ==
  ASSUME Inv, NEW v \in View, TypeOK', IsMade(v) \/ IsStored(v),
         \/ output' = Append(output, v) /\ waitingList' = waitingList \ {v}
         \/ output' = output /\ waitingList' = waitingList \union {v},
         UNCHANGED <<pool, releaseCount, tile, uses>>,
         ~IsMade(v)',
         \A w \in View \ {v} : /\ toSend'[w] = toSend[w] /\ asked'[w] = asked[w]
                               /\ loaded'[w] = loaded[w] /\ countMap'[w] = countMap[w]
  PROVE  Inv'
<1>1. /\ ListsOK /\ \A w \in View : ViewOK(w)
      /\ output \in Seq(View) /\ NoRepeat(output)
  BY InvByView DEF TypeOK, ListsOK
<1>2. /\ ~IsFree(v) /\ ~IsReady(v) /\ ~IsLent(v)
      /\ releaseCount[v] = NbReleasePyramid[LevelOf(v)] /\ releaseCount[v] # 0
  BY <1>1 DEF ViewOK, OnePlace, CountsAgree
<1>3. /\ NoRepeat(Append(output, v))
      /\ Elems(Append(output, v)) = Elems(output) \union {v}
  BY <1>1, <1>2, PushBack DEF IsReady
<1>4. ListsOK'
  BY <1>1, <1>3 DEF ListsOK
<1>5. ViewOK(v)'
  <2>1. ~IsFree(v)' /\ ~IsLent(v)' /\ releaseCount'[v] = releaseCount[v]
    BY <1>2 DEF IsFree, IsLent
  <2>2. (IsStored(v)' /\ ~IsReady(v)') \/ (~IsStored(v)' /\ IsReady(v)')
    BY <1>2, <1>3 DEF IsStored, IsReady
  <2>3. OnePlace(v)' /\ Counted(v)'
    BY <2>1, <2>2 DEF OnePlace, Counted
  <2>4. CountsAgree(v)'
    BY <1>2, <2>1 DEF CountsAgree
  <2> QED BY <2>3, <2>4 DEF ViewOK
<1>6. ASSUME NEW w \in View, w # v PROVE ViewOK(w)'
  <2>1. IsStored(w)' = IsStored(w)
    BY <1>6 DEF IsStored
  <2>2. IsReady(w)' = IsReady(w)
    <3>1. Elems(output') = Elems(output) \/ Elems(output') = Elems(output) \union {v}
      BY <1>3
    <3> QED BY <1>6, <3>1 DEF IsReady
  <2>3. Untouched(w)
    BY <1>6, <2>1, <2>2 DEF Untouched, IsFree
  <2> QED BY <1>1, <2>3, UntouchedKeepsOK
<1> QED
  <2>1. \A w \in View : ViewOK(w)'
    BY <1>5, <1>6
  <2> QED BY <1>4, <2>1, InvByViewNext

(* What dataReady does to the traversals, the store and the output.        *)
LEMMA DataReadyTypes ==
  ASSUME TypeOK, NEW v \in View, DataReady(v), v \notin waitingList
  PROVE  /\ storing' \subseteq Level /\ waitingList' \subseteq View
         /\ queueTraversals' \in Seq(Seq(AnyTile))
         /\ currentTraversal' \in Seq(AnyTile)
         /\ output' \in Seq(View)
         /\ \/ output' = Append(output, v) /\ waitingList' = waitingList \ {v}
            \/ output' = output /\ waitingList' = waitingList \union {v}
<1>1. /\ Current \in Seq(AnyTile) /\ Queued \in Seq(Seq(AnyTile))
      /\ Popped \in Seq(AnyTile)
  BY TraversalTypes
<1>2. /\ storing \subseteq Level /\ waitingList \subseteq View /\ output \in Seq(View)
      /\ queueTraversals \in Seq(Seq(AnyTile)) /\ currentTraversal \in Seq(AnyTile)
  BY DEF TypeOK
<1>3. Append(output, v) \in Seq(View)
  BY <1>2
<1>4. waitingList \ {v} = waitingList
  OBVIOUS
<1>5. CASE SendUnordered(v)
  BY <1>2, <1>3, <1>4, <1>5 DEF SendUnordered, AddResult, orderVars
<1>6. CASE SendNext(v)
  <2>1. LevelOf(v) \in Level
    BY Views
  <2> QED BY <1>1, <1>2, <1>3, <1>4, <1>6, <2>1 DEF SendNext, AddResult
<1>7. CASE Store(v)
  BY <1>1, <1>2, <1>7 DEF Store
<1> QED BY <1>5, <1>6, <1>7 DEF DataReady

(* A tile is counted: the view is finished, or goes on being made.         *)
LEMMA CountTileCases ==
  ASSUME Inv, NEW v \in View, CountTile(v),
         UNCHANGED <<memoryVars, userVars, requests, toSend, asked, uses>>
  PROVE  /\ IsMade(v) /\ v \notin waitingList /\ LevelOf(v) \notin storing
         /\ loaded' \in [View -> Nat] /\ countMap' \in [View -> Nat]
         /\ \A w \in View \ {v} : /\ loaded'[w] = loaded[w] /\ countMap'[w] = countMap[w]
                                  /\ IsMade(w)' = IsMade(w)
         /\ \/ DataReady(v) /\ ~IsMade(v)' /\ countMap'[v] = 0
            \/ /\ UNCHANGED <<orderVars, output>>
               /\ IsMade(v)' /\ TilesUnderWay(v)' = TilesUnderWay(v)
               /\ countMap'[v] = countMap[v] + 1
               /\ countMap[v] + 1 # NumberTilesToLoad(LevelOf(v), tile[v])
<1> DEFINE n == NumberTilesToLoad(LevelOf(v), tile[v])
<1>1. /\ TypeOK /\ loaded \in [View -> Nat] /\ countMap \in [View -> Nat]
      /\ toSend[v] \in Nat /\ asked[v] \in Nat /\ loaded[v] \in Nat /\ countMap[v] \in Nat
  BY DEF Inv, TypeOK
<1>2. UNCHANGED <<toSend, asked, tile>>
  BY DEF memoryVars
<1>3. loaded[v] > 0 /\ loaded' = [loaded EXCEPT ![v] = @ - 1] /\ LevelOf(v) \notin storing
  BY DEF CountTile
<1>4. /\ loaded' \in [View -> Nat] /\ countMap' \in [View -> Nat]
      /\ loaded'[v] = loaded[v] - 1 /\ \A w \in View \ {v} : loaded'[w] = loaded[w]
  <2>1. loaded' \in [View -> Nat] /\ loaded'[v] = loaded[v] - 1
    BY <1>1, <1>3
  <2>2. countMap' \in [View -> Nat]
    BY <1>1 DEF CountTile
  <2> QED BY <1>1, <1>3, <2>1, <2>2
<1>5. IsMade(v) /\ TilesUnderWay(v) = n
  <2>1. IsMade(v)
    BY <1>1, <1>3 DEF IsMade, TilesUnderWay
  <2> QED BY <2>1 DEF Inv, EveryTileIsCounted
<1>6. v \notin waitingList
  BY <1>5 DEF Inv, OnePlacePerView, IsStored
<1>7. n \in Nat /\ (ReachHeight[LevelOf(v)] = 0 => n = 1)
  BY <1>1, Views, SomeTiles DEF TypeOK
<1> HIDE DEF n
<1>8. loaded[v] + countMap[v] <= n
  BY <1>1, <1>5 DEF TilesUnderWay
<1>9. \A w \in View \ {v} : countMap'[w] = countMap[w]
  BY <1>1 DEF CountTile
<1>10. \A w \in View \ {v} : IsMade(w)' = IsMade(w)
  BY <1>2, <1>4, <1>9 DEF IsMade, TilesUnderWay
<1>11. \/ DataReady(v) /\ ~IsMade(v)' /\ countMap'[v] = 0
       \/ /\ UNCHANGED <<orderVars, output>>
          /\ IsMade(v)' /\ TilesUnderWay(v)' = TilesUnderWay(v)
          /\ countMap'[v] = countMap[v] + 1
          /\ countMap[v] + 1 # n
  <2>1. ASSUME countMap'[v] = 0, countMap[v] + 1 = n PROVE ~IsMade(v)'
    <3>1. toSend[v] = 0 /\ asked[v] = 0 /\ loaded[v] = 1
      BY <1>1, <1>3, <1>5, <2>1 DEF TilesUnderWay
    <3> QED BY <1>2, <1>4, <2>1, <3>1 DEF IsMade, TilesUnderWay
  <2>2. ASSUME countMap'[v] = countMap[v] + 1 PROVE IsMade(v)' /\ TilesUnderWay(v)' = TilesUnderWay(v)
    BY <1>1, <1>2, <1>4, <1>3, <2>2 DEF IsMade, TilesUnderWay
  <2>3. CASE /\ n = 1 \/ ReachHeight[LevelOf(v)] = 0
             /\ DataReady(v) /\ UNCHANGED countMap
    <3>1. n = 1
      BY <1>7, <2>3
    <3>2. countMap[v] = 0 /\ countMap[v] + 1 = n
      BY <1>1, <1>3, <1>8, <3>1
    <3> QED BY <2>1, <2>3, <3>2
  <2>4. CASE /\ countMap[v] + 1 = n
             /\ countMap' = [countMap EXCEPT ![v] = 0]
             /\ DataReady(v)
    <3>1. countMap'[v] = 0
      BY <1>1, <2>4
    <3> QED BY <2>1, <2>4, <3>1
  <2>5. CASE /\ countMap[v] + 1 # n /\ countMap[v] > 0
             /\ countMap' = [countMap EXCEPT ![v] = @ + 1]
             /\ UNCHANGED <<orderVars, output>>
    <3>1. countMap'[v] = countMap[v] + 1
      BY <1>1, <2>5
    <3> QED BY <2>2, <2>5, <3>1
  <2>6. CASE /\ n # 1 /\ ~(countMap[v] > 0)
             /\ countMap' = [countMap EXCEPT ![v] = 1]
             /\ UNCHANGED <<orderVars, output>>
    <3>1. countMap'[v] = 1 /\ countMap[v] = 0
      BY <1>1, <2>6
    <3> QED BY <2>2, <2>6, <3>1
  <2> QED BY <1>1, <2>3, <2>4, <2>5, <2>6 DEF CountTile, n
<1> QED BY <1>3, <1>4, <1>5, <1>6, <1>9, <1>10, <1>11 DEF n

LEMMA CountTileKeepsInv ==
  ASSUME Inv, NEW v \in View, CountTile(v),
         UNCHANGED <<memoryVars, userVars, requests, toSend, asked, uses>>
  PROVE  Inv'
<1>1. UNCHANGED <<pool, releaseCount, tile, calls, sending, sendingTo, finished,
                  requests, toSend, asked, uses>>
  BY DEF memoryVars, userVars
<1>2. /\ IsMade(v) /\ v \notin waitingList
      /\ loaded' \in [View -> Nat] /\ countMap' \in [View -> Nat]
      /\ \A w \in View \ {v} : /\ toSend'[w] = toSend[w] /\ asked'[w] = asked[w]
                               /\ loaded'[w] = loaded[w] /\ countMap'[w] = countMap[w]
  BY <1>1, CountTileCases
<1>3. TypeOK
  BY DEF Inv
<1>4. CASE DataReady(v) /\ ~IsMade(v)'
  <2>1. /\ storing' \subseteq Level /\ waitingList' \subseteq View
        /\ queueTraversals' \in Seq(Seq(AnyTile))
        /\ currentTraversal' \in Seq(AnyTile)
        /\ output' \in Seq(View)
        /\ \/ output' = Append(output, v) /\ waitingList' = waitingList \ {v}
           \/ output' = output /\ waitingList' = waitingList \union {v}
    BY <1>2, <1>3, <1>4, DataReadyTypes
  <2>2. TypeOK'
    BY <1>1, <1>2, <1>3, <2>1 DEF TypeOK
  <2> QED BY <1>1, <1>2, <1>4, <2>1, <2>2, SentOutKeepsInv
<1>5. CASE UNCHANGED <<orderVars, output>> /\ TilesUnderWay(v)' = TilesUnderWay(v)
  <2>1. UNCHANGED <<storing, waitingList, queueTraversals, currentTraversal, output>>
    BY <1>5 DEF orderVars
  <2>2. TypeOK'
    BY <1>1, <1>2, <1>3, <2>1 DEF TypeOK
  <2>3. OnlyTilesOf(v)
    BY <1>1, <1>2, <2>1 DEF OnlyTilesOf
  <2> QED BY <1>2, <1>5, <2>2, <2>3, TileMovesKeepsInv
<1> QED BY <1>4, <1>5, CountTileCases

LEMMA HandleStoredViewKeepsInv ==
  ASSUME Inv, NEW p \in Level, NEW v \in View, HandleStoredView(p, v),
         UNCHANGED <<memoryVars, userVars, requests, toSend, asked, uses>>
  PROVE  Inv'
<1>1. /\ TypeOK /\ Current \in Seq(AnyTile) /\ Queued \in Seq(Seq(AnyTile))
      /\ Popped \in Seq(AnyTile)
  BY TraversalTypes DEF Inv
<1>2. /\ v \in waitingList
      /\ output' = Append(output, v) /\ waitingList' = waitingList \ {v}
      /\ currentTraversal' = Popped /\ queueTraversals' = Queued
      /\ UNCHANGED <<pool, releaseCount, tile, loaded, countMap, storing, calls, sending,
                     sendingTo, finished, requests, toSend, asked, uses>>
  BY DEF HandleStoredView, AddResult, memoryVars, userVars
<1>3. output' \in Seq(View)
  BY <1>1, <1>2 DEF TypeOK
<1>4. TypeOK'
  BY <1>1, <1>2, <1>3 DEF TypeOK
<1>5. IsStored(v)
  BY <1>2 DEF IsStored
<1>6. ~IsMade(v)'
  <2>1. ~IsMade(v)
    BY <1>5 DEF Inv, OnePlacePerView
  <2> QED BY <1>2, <2>1 DEF IsMade, TilesUnderWay
<1> QED BY <1>2, <1>4, <1>5, <1>6, SentOutKeepsInv

LEMMA NoStoredViewIsNextKeepsInv ==
  ASSUME Inv, NEW p \in Level, NoStoredViewIsNext(p),
         UNCHANGED <<memoryVars, userVars, requests, toSend, asked, uses>>
  PROVE  Inv'
<1>1. TypeOK /\ Current \in Seq(AnyTile) /\ Queued \in Seq(Seq(AnyTile))
  BY TraversalTypes DEF Inv
<1>2. TypeOK'
  BY <1>1 DEF TypeOK, NoStoredViewIsNext, memoryVars, userVars
<1> QED BY <1>2, QuietKeepsInv DEF NoStoredViewIsNext

-----------------------------------------------------------------------------
(* The theorems.                                                           *)

LEMMA NextKeepsInv == Inv /\ [Next]_vars => Inv'
<1> SUFFICES ASSUME Inv, [Next]_vars PROVE Inv'
  OBVIOUS
<1>1. CASE UNCHANGED vars
  <2>1. UNCHANGED <<memoryVars, counterVars, userVars, requests, toSend, asked, uses>>
    BY <1>1 DEF vars
  <2>2. TypeOK'
    BY <2>1 DEF Inv, TypeOK, memoryVars, counterVars, orderVars, userVars
  <2> QED BY <2>1, <2>2, QuietKeepsInv DEF counterVars, orderVars
<1>2. CASE Asks
  BY <1>2, RequestKeepsInv DEF Asks
<1>3. CASE Counts
  <2>1. PICK p \in Level : CounterStep(p)
    BY <1>3 DEF Counts
  <2>2. UNCHANGED <<memoryVars, userVars, requests, toSend, asked, uses>>
    BY <2>1 DEF CounterStep
  <2>3. CASE \E v \in View : LevelOf(v) = p /\ CountTile(v)
    BY <2>2, <2>3, CountTileKeepsInv
  <2>4. CASE \E v \in View : HandleStoredView(p, v)
    BY <2>2, <2>4, HandleStoredViewKeepsInv
  <2>5. CASE NoStoredViewIsNext(p)
    BY <2>2, <2>5, NoStoredViewIsNextKeepsInv
  <2> QED BY <2>1, <2>3, <2>4, <2>5 DEF CounterStep, ViewCounterStep
<1>4. CASE Moves
  <2>1. CASE \E u \in User : SendRequest(u)
    BY <2>1, SendRequestKeepsInv
  <2>2. CASE FinishedRequestingTiles
    BY <2>2, FinishedKeepsInv
  <2>3. CASE GetAvailableView
    BY <2>3, GetAvailableViewKeepsInv
  <2>4. CASE \E v \in View : ReleaseView(v)
    BY <2>4, ReleaseViewKeepsInv
  <2>5. CASE \E p \in Level : ViewLoaderStep(p)
    BY <2>5, DropRequestKeepsInv, LoadViewKeepsInv, SendTileRequestKeepsInv
       DEF ViewLoaderStep
  <2>6. CASE \E v \in View : TileLoaderStep(v)
    BY <2>6, TileLoaderStepKeepsInv
  <2> QED BY <1>4, <2>1, <2>2, <2>3, <2>4, <2>5, <2>6 DEF Moves
<1>5. CASE Done
  BY <1>1, <1>5 DEF Done
<1> QED BY <1>1, <1>2, <1>3, <1>4, <1>5 DEF Next

(* All the parts of the invariant hold in every state of the graph, for    *)
(* any pyramid, options, users and requests.                               *)
THEOREM Invariance == Spec => []Inv
<1>1. Init => Inv
  BY InvInit
<1>2. Inv /\ [Next]_vars => Inv'
  BY NextKeepsInv
<1> QED BY <1>1, <1>2, PTL DEF Spec

(* Every variable keeps its type: no release count wraps around below      *)
(* zero, whatever order the users release their views in.                  *)
THEOREM TypeCorrectness == Spec => []TypeOK
<1>1. Inv => TypeOK
  BY DEF Inv
<1> QED BY <1>1, Invariance, PTL

(* A view is never lost, never with two owners, and never written by a     *)
(* tile loader while a user has it or while it is free.                    *)
THEOREM ViewsHaveOnePlace == Spec => []OnePlacePerView
<1>1. Inv => OnePlacePerView
  BY DEF Inv
<1> QED BY <1>1, Invariance, PTL

(* A view is finished when all the tiles it overlaps have been copied into *)
(* it, each once, for any radius and any border.                           *)
THEOREM TilesAreCounted == Spec => []EveryTileIsCounted
<1>1. Inv => EveryTileIsCounted
  BY DEF Inv
<1> QED BY <1>1, Invariance, PTL

(* The rule of each view counts exactly the releases the users have still  *)
(* to do.                                                                  *)
THEOREM ReleasesAreCounted == Spec => []ReleaseCountsAgree
<1>1. Inv => ReleaseCountsAgree
  BY DEF Inv
<1> QED BY <1>1, Invariance, PTL

-----------------------------------------------------------------------------
(* Counting in sequences.                                                  *)

(* How often a sequence has an element.                                    *)
Places(q, t) == {i \in 1..Len(q) : q[i] = t}
Count(q, t) == Cardinality(Places(q, t))

LEMMA CountType ==
  ASSUME NEW S, NEW q \in Seq(S), NEW t
  PROVE  IsFiniteSet(Places(q, t)) /\ Count(q, t) \in Nat
<1>1. IsFiniteSet(1..Len(q)) /\ Places(q, t) \in SUBSET (1..Len(q))
  BY FS_Interval DEF Places
<1> QED BY <1>1, FS_Subset, FS_CardinalityType DEF Count

(* A set of numbers moved along.                                           *)
LEMMA ShiftedPlaces ==
  ASSUME NEW A \in SUBSET Int, NEW d \in Int, IsFiniteSet(A)
  PROVE  /\ IsFiniteSet({i + d : i \in A})
         /\ Cardinality({i + d : i \in A}) = Cardinality(A)
<1> DEFINE B == {i + d : i \in A}
           f == [i \in A |-> i + d]
<1>1. f \in Bijection(A, B)
  <2>1. /\ f \in [A -> B] /\ \A i \in A : f[i] = i + d
        /\ \A b \in B : \E i \in A : f[i] = b
    OBVIOUS
  <2> HIDE DEF f, B
  <2>2. \A i, j \in A : f[i] = f[j] => i = j
    BY <2>1
  <2> QED BY <2>1, <2>2 DEF Bijection, Injection, Surjection, IsInjective
<1> HIDE DEF B, f
<1>2. ExistsBijection(A, B)
  BY <1>1 DEF ExistsBijection
<1> QED BY <1>2, FS_Bijection DEF B

LEMMA CountConcat ==
  ASSUME NEW S, NEW q \in Seq(S), NEW r \in Seq(S), NEW t
  PROVE  Count(q \o r, t) = Count(q, t) + Count(r, t)
<1> DEFINE s == q \o r
           B == {i + Len(q) : i \in Places(r, t)}
<1>1. /\ Len(q) \in Nat /\ Len(r) \in Nat /\ Len(s) = Len(q) + Len(r)
      /\ \A i \in 1..Len(q) : s[i] = q[i]
      /\ \A i \in 1..Len(r) : s[i + Len(q)] = r[i]
      /\ \A i \in 1..Len(s) : i \notin 1..Len(q) => i - Len(q) \in 1..Len(r) /\ s[i] = r[i - Len(q)]
  OBVIOUS
<1> HIDE DEF s
<1>2. Places(s, t) = Places(q, t) \union B
  <2>1. ASSUME NEW i \in Places(s, t) PROVE i \in Places(q, t) \union B
    <3>1. CASE i \in 1..Len(q)
      BY <1>1, <2>1, <3>1 DEF Places
    <3>2. CASE i \notin 1..Len(q)
      <4>1. i - Len(q) \in Places(r, t) /\ i = (i - Len(q)) + Len(q)
        BY <1>1, <2>1, <3>2 DEF Places
      <4> QED BY <4>1
    <3> QED BY <3>1, <3>2
  <2>2. ASSUME NEW i \in Places(q, t) PROVE i \in Places(s, t)
    BY <1>1, <2>2 DEF Places
  <2>3. ASSUME NEW i \in Places(r, t) PROVE i + Len(q) \in Places(s, t)
    BY <1>1, <2>3 DEF Places
  <2> QED BY <2>1, <2>2, <2>3
<1>3. Places(q, t) \cap B = {}
  BY <1>1 DEF Places
<1>4. IsFiniteSet(Places(q, t)) /\ IsFiniteSet(Places(r, t)) /\ Places(r, t) \in SUBSET Int
  <2>1. IsFiniteSet(Places(q, t))
    BY CountType
  <2>2. IsFiniteSet(Places(r, t))
    BY CountType
  <2>3. Places(r, t) \in SUBSET Int
    BY DEF Places
  <2> QED BY <2>1, <2>2, <2>3
<1>5. IsFiniteSet(B) /\ Cardinality(B) = Cardinality(Places(r, t))
  <2>1. Len(q) \in Int
    BY <1>1
  <2> QED BY <1>4, <2>1, ShiftedPlaces
<1> HIDE DEF B
<1>6. Cardinality(Places(s, t)) = Cardinality(Places(q, t)) + Cardinality(B) - Cardinality({})
  BY <1>2, <1>3, <1>4, <1>5, FS_Union
<1> QED BY <1>4, <1>5, <1>6, FS_EmptySet, FS_CardinalityType DEF Count, s

LEMMA CountOne ==
  ASSUME NEW e, NEW t
  PROVE  Count(<<e>>, t) = IF e = t THEN 1 ELSE 0
<1>1. e = t => Places(<<e>>, t) = {1}
  BY DEF Places
<1>2. e # t => Places(<<e>>, t) = {}
  BY DEF Places
<1> QED BY <1>1, <1>2, FS_EmptySet, FS_Singleton DEF Count

LEMMA CountEmpty == \A t : Count(<<>>, t) = 0
<1>1. \A t : Places(<<>>, t) = {}
  BY DEF Places
<1> QED BY <1>1, FS_EmptySet DEF Count

LEMMA CountAppend ==
  ASSUME NEW S, NEW q \in Seq(S), NEW e \in S, NEW t
  PROVE  Count(Append(q, e), t) = Count(q, t) + (IF e = t THEN 1 ELSE 0)
<1>1. Append(q, e) = q \o <<e>> /\ <<e>> \in Seq(S)
  BY AppendIsConcat
<1>2. Count(q \o <<e>>, t) = Count(q, t) + Count(<<e>>, t)
  BY <1>1, CountConcat
<1> QED BY <1>1, <1>2, CountOne

LEMMA CountRemoveAt ==
  ASSUME NEW S, NEW q \in Seq(S), NEW i \in 1..Len(q), NEW t
  PROVE  /\ RemoveAt(q, i) \in Seq(S)
         /\ Count(q, t) = Count(RemoveAt(q, i), t) + (IF q[i] = t THEN 1 ELSE 0)
<1> DEFINE a == SubSeq(q, 1, i - 1)
           b == SubSeq(q, i + 1, Len(q))
           c == SubSeq(q, i, Len(q))
<1>1. Len(q) \in Nat /\ q[i] \in S /\ \A j \in 1..Len(q) : q[j] \in S
  OBVIOUS
<1>2. a \in Seq(S)
  BY <1>1, SubSeqProperties
<1>3. b \in Seq(S)
  BY <1>1, SubSeqProperties
<1>4. <<q[i]>> \in Seq(S)
  BY <1>1
<1>5. c = <<q[i]>> \o b
  BY <1>1, SubSeqRecursiveFirst
<1>6. q = a \o c
  <2>1. SubSeq(q, 1, Len(q)) = q
    BY SubSeqFull
  <2>2. a \o SubSeq(q, i - 1 + 1, Len(q)) = SubSeq(q, 1, Len(q))
    <3>1. /\ 1 \in 1..Len(q) + 1 /\ i - 1 \in 1 - 1..Len(q)
          /\ Len(q) \in i - 1..Len(q)
      BY <1>1
    <3> QED BY <3>1, ConcatAdjacentSubSeq
  <2>3. i - 1 + 1 = i
    OBVIOUS
  <2> QED BY <2>1, <2>2, <2>3
<1>7. RemoveAt(q, i) = a \o b
  BY DEF RemoveAt
<1> HIDE DEF a, b, c
<1>8. c \in Seq(S) /\ Count(c, t) = Count(<<q[i]>>, t) + Count(b, t)
  <2>1. c \in Seq(S)
    BY <1>3, <1>4, <1>5, ConcatProperties
  <2> QED BY <1>3, <1>4, <1>5, <2>1, CountConcat
<1>9. Count(q, t) = Count(a, t) + Count(c, t)
  BY <1>2, <1>6, <1>8, CountConcat
<1>10. a \o b \in Seq(S) /\ Count(a \o b, t) = Count(a, t) + Count(b, t)
  BY <1>2, <1>3, CountConcat
<1>11. Count(a, t) \in Nat
  BY <1>2, CountType
<1>12. Count(b, t) \in Nat
  BY <1>3, CountType
<1> QED BY <1>7, <1>8, <1>9, <1>10, <1>11, <1>12, CountOne

LEMMA CountTail ==
  ASSUME NEW S, NEW q \in Seq(S), q # <<>>, NEW t
  PROVE  /\ Tail(q) \in Seq(S) /\ Head(q) \in S
         /\ RemoveAt(q, 1) = Tail(q)
         /\ Count(q, t) = Count(Tail(q), t) + (IF Head(q) = t THEN 1 ELSE 0)
<1>1. 1 \in 1..Len(q) /\ Head(q) = q[1] /\ Tail(q) \in Seq(S) /\ Head(q) \in S
  OBVIOUS
<1>2. RemoveAt(q, 1) = Tail(q)
  <2>1. SubSeq(q, 1, 1 - 1) = <<>> /\ SubSeq(q, 1 + 1, Len(q)) = Tail(q)
    BY TailIsSubSeq, SubSeqEmpty
  <2>2. <<>> \o Tail(q) = Tail(q)
    BY <1>1, ConcatEmptySeq
  <2> QED BY <2>1, <2>2 DEF RemoveAt
<1>3. Count(q, t) = Count(RemoveAt(q, 1), t) + (IF q[1] = t THEN 1 ELSE 0)
  BY <1>1, CountRemoveAt
<1> QED BY <1>1, <1>2, <1>3

(* FirstOf finds what is there.                                            *)
LEMMA FirstOfFinds ==
  ASSUME NEW S, NEW q \in Seq(S), NEW t, Count(q, t) # 0
  PROVE  /\ FirstOf(q, t) \in 1..Len(q)
         /\ q[FirstOf(q, t)] = t
         /\ q[1] = t => FirstOf(q, t) = 1
<1> DEFINE First(i) == i \in 1..Len(q) /\ q[i] = t /\ \A j \in 1..i - 1 : q[j] # t
<1>1. Places(q, t) # {}
  BY FS_EmptySet DEF Count
<1>2. Places(q, t) \in SUBSET Nat /\ Len(q) \in Nat
  BY DEF Places
<1>3. PICK i \in Places(q, t) : \A j \in Places(q, t) : i <= j
  BY <1>1, <1>2, LeastNumber
<1>4. First(i)
  BY <1>2, <1>3 DEF Places
<1>5. First(FirstOf(q, t))
  BY <1>4 DEF FirstOf
<1>6. q[1] = t => FirstOf(q, t) = 1
  BY <1>2, <1>5
<1> QED BY <1>5, <1>6
-----------------------------------------------------------------------------
(* What is promised, and what is on its way.                               *)

(* The copies of the view counter for the other levels neither know the    *)
(* traversals nor keep their order, so that users who want the order ask   *)
(* for views of level 0 only.                                              *)
OrderIsOfLevelZero == PreserveOrder => \A c \in Traversals : c[1] = 0

(* The requests for tile t that calls have still to send, as the users and *)
(* the distances from the end of their lists.                              *)
Unsent(p, t) ==
  {w \in User \X Nat :
     /\ sendingTo[w[1]] = p /\ w[2] < Len(sending[w[1]])
     /\ sending[w[1]][Len(sending[w[1]]) - w[2]] = t}

IsAwaited(v) == IsMade(v) \/ IsStored(v)
InMaking(p, t) == {v \in View : LevelOf(v) = p /\ IsAwaited(v) /\ tile[v] = t}

(* A tile is promised as often as it is to be sent, requested or made.     *)
Balanced(p) ==
  \A t \in AnyTile :
    Count(promised[p], t) =
      Cardinality(Unsent(p, t)) + Count(requests[p], t) + Cardinality(InMaking(p, t))

BalanceInv == \A p \in Level : NbReleasePyramid[p] # 0 => Balanced(p)

(* q is the traversal cur and those of the queue, one after the other: from *)
(* where in q each of them starts.                                         *)
Flattened(cur, queue, q) ==
  \E starts \in [1..Len(queue) + 1 -> 0..Len(q)] :
    /\ starts[1] = Len(cur) /\ starts[Len(queue) + 1] = Len(q)
    /\ \A k, m \in 1..Len(queue) + 1 : k <= m => starts[k] <= starts[m]
    /\ \A i \in 1..Len(cur) : q[i] = cur[i]
    /\ \A k \in 1..Len(queue) :
         /\ starts[k + 1] = starts[k] + Len(queue[k])
         /\ \A i \in 1..Len(queue[k]) : q[starts[k] + i] = queue[k][i]

OrderInv ==
  PreserveOrder =>
    /\ \A p \in Level \ {0} : promised[p] = <<>>
    /\ \A k \in 1..Len(queueTraversals) : queueTraversals[k] # <<>>
    /\ NbReleasePyramid[0] # 0 =>
         Flattened(currentTraversal, queueTraversals, promised[0])

(* The traversals' next tile is that of view v.                            *)
IsNext(v) == Current # <<>> /\ Head(Current) = tile[v]

(* Only the counter of level 0 stores views, and a stored view is the next *)
(* one only while the counter looks through the store.                     *)
StoreInv ==
  /\ storing \subseteq {0} /\ (storing # {} => PreserveOrder)
  /\ \A v \in waitingList : PreserveOrder /\ LevelOf(v) = 0
  /\ 0 \in storing \/ \A v \in waitingList : ~IsNext(v)

(* A view's count is in the map as long as a tile is missing.              *)
MapInv ==
  \A v \in View :
    countMap[v] > 0 => countMap[v] < NumberTilesToLoad(LevelOf(v), tile[v])

EndInv == finished => \A u \in User : sending[u] = <<>>

ServiceInv ==
  /\ Inv
  /\ promised \in [Level -> Seq(AnyTile)]
  /\ BalanceInv
  /\ OrderInv
  /\ StoreInv
  /\ MapInv
  /\ EndInv

-----------------------------------------------------------------------------
(* The order of what is promised.                                          *)

LEMMA FlattenedEmpty ==
  ASSUME NEW S, NEW q \in Seq(S), Flattened(<<>>, <<>>, q)
  PROVE  q = <<>>
<1>1. PICK starts \in [1..Len(<<>>) + 1 -> 0..Len(q)] :
        starts[1] = Len(<<>>) /\ starts[Len(<<>>) + 1] = Len(q)
  BY DEF Flattened
<1>2. Len(<<>>) = 0 /\ 0 + 1 = 1
  OBVIOUS
<1>3. Len(q) = 0
  BY <1>1, <1>2
<1> QED BY <1>3, EmptySeq

(* Its first tile is taken from both.                                      *)
LEMMA FlattenedTail ==
  ASSUME NEW S, NEW cur \in Seq(S), NEW queue \in Seq(Seq(S)), NEW q \in Seq(S),
         Flattened(cur, queue, q), cur # <<>>
  PROVE  q # <<>> /\ Head(q) = Head(cur) /\ Flattened(Tail(cur), queue, Tail(q))
<1> DEFINE n == Len(queue)
<1>1. PICK starts \in [1..n + 1 -> 0..Len(q)] :
        /\ starts[1] = Len(cur) /\ starts[n + 1] = Len(q)
        /\ \A k, m \in 1..n + 1 : k <= m => starts[k] <= starts[m]
        /\ \A i \in 1..Len(cur) : q[i] = cur[i]
        /\ \A k \in 1..n :
             /\ starts[k + 1] = starts[k] + Len(queue[k])
             /\ \A i \in 1..Len(queue[k]) : q[starts[k] + i] = queue[k][i]
  BY DEF Flattened
<1>2. /\ n \in Nat /\ Len(q) \in Nat /\ Len(cur) \in Nat \ {0}
      /\ \A k \in 1..n : Len(queue[k]) \in Nat
      /\ \A k \in 1..n + 1 : starts[k] \in Nat /\ starts[k] <= Len(q)
  <2>1. Len(cur) \in Nat \ {0}
    BY EmptySeq
  <2>2. \A k \in 1..n : queue[k] \in Seq(S)
    BY ElementOfSeq
  <2>3. n \in Nat /\ Len(q) \in Nat /\ \A k \in 1..n : Len(queue[k]) \in Nat
    BY <2>2, LenProperties
  <2> HIDE DEF n
  <2>4. \A k \in 1..n + 1 : starts[k] \in 0..Len(q)
    OBVIOUS
  <2> QED BY <2>1, <2>3, <2>4
<1> HIDE DEF n
<1>3. \A k \in 1..n + 1 : starts[k] >= Len(cur)
  <2>1. 1 \in 1..n + 1 /\ starts[1] = Len(cur)
    BY <1>1, <1>2
  <2> TAKE k \in 1..n + 1
  <2>2. 1 <= k /\ starts[k] \in Nat /\ Len(cur) \in Nat
    BY <1>2
  <2>3. starts[1] <= starts[k]
    BY <1>1, <2>1, <2>2
  <2> QED BY <2>1, <2>2, <2>3
<1>4. q # <<>> /\ Head(q) = q[1] /\ Head(cur) = cur[1] /\ 1 \in 1..Len(cur)
  <2>1. 1 \in 1..n + 1 /\ Len(q) # 0
    BY <1>1, <1>2, <1>3
  <2> QED BY <1>2, <2>1
<1>5. /\ Tail(q) \in Seq(S) /\ Len(Tail(q)) = Len(q) - 1
      /\ \A i \in 1..Len(q) - 1 : Tail(q)[i] = q[i + 1]
  BY <1>4, HeadTailProperties
<1>6. /\ Tail(cur) \in Seq(S) /\ Len(Tail(cur)) = Len(cur) - 1
      /\ \A i \in 1..Len(cur) - 1 : Tail(cur)[i] = cur[i + 1]
  BY HeadTailProperties
<1> DEFINE after == [k \in 1..n + 1 |-> starts[k] - 1]
<1>7. after \in [1..n + 1 -> 0..Len(Tail(q))]
  BY <1>2, <1>3, <1>5
<1>8. after[1] = Len(Tail(cur)) /\ after[n + 1] = Len(Tail(q))
  BY <1>1, <1>2, <1>5, <1>6
<1>14. \A k \in 1..n + 1 : after[k] = starts[k] - 1
  OBVIOUS
<1> HIDE DEF after
<1>9. \A k, m \in 1..n + 1 : k <= m => after[k] <= after[m]
  BY <1>1, <1>2, <1>14
<1>10. \A i \in 1..Len(Tail(cur)) : Tail(q)[i] = Tail(cur)[i]
  <2> TAKE i \in 1..Len(Tail(cur))
  <2>1. i + 1 \in 1..Len(cur) /\ i \in 1..Len(cur) - 1
    BY <1>2, <1>6
  <2>2. Len(cur) <= Len(q)
    BY <1>2, <1>3
  <2>3. i \in 1..Len(q) - 1
    BY <1>2, <2>1, <2>2
  <2> QED BY <1>1, <1>5, <1>6, <2>1, <2>3
<1>11. ASSUME NEW k \in 1..n
       PROVE  /\ after[k + 1] = after[k] + Len(queue[k])
              /\ \A i \in 1..Len(queue[k]) : Tail(q)[after[k] + i] = queue[k][i]
  <2>1. k \in 1..n + 1 /\ k + 1 \in 1..n + 1
    BY <1>2
  <2>2. starts[k + 1] = starts[k] + Len(queue[k])
    BY <1>1
  <2>3. after[k] = starts[k] - 1 /\ after[k + 1] = starts[k + 1] - 1
    BY <1>14, <2>1
  <2>4. /\ starts[k] \in Nat /\ starts[k + 1] \in Nat /\ starts[k] >= 1
        /\ starts[k + 1] <= Len(q) /\ Len(queue[k]) \in Nat
    BY <1>2, <1>3, <2>1
  <2>5. ASSUME NEW i \in 1..Len(queue[k]) PROVE Tail(q)[after[k] + i] = queue[k][i]
    <3>1. after[k] + i \in 1..Len(q) - 1 /\ after[k] + i + 1 = starts[k] + i
      <4>1. i \in Nat /\ i >= 1 /\ i <= Len(queue[k])
        BY <2>4
      <4> DEFINE x == starts[k]
                 z == Len(queue[k])
                 m == Len(q)
      <4>2. x \in Nat /\ x >= 1 /\ z \in Nat /\ m \in Nat /\ x + z <= m /\ i \in Nat /\ i >= 1 /\ i <= z
        BY <1>2, <2>2, <2>4, <4>1
      <4>3. after[k] = x - 1
        BY <2>3
      <4> HIDE DEF x, z, m
      <4>4. x - 1 + i \in 1..m - 1 /\ x - 1 + i + 1 = x + i
        BY <4>2
      <4> QED BY <4>3, <4>4 DEF x, m
    <3>2. Tail(q)[after[k] + i] = q[after[k] + i + 1]
      BY <1>5, <3>1
    <3>3. q[starts[k] + i] = queue[k][i]
      BY <1>1
    <3> QED BY <3>1, <3>2, <3>3
  <2>6. after[k + 1] = after[k] + Len(queue[k])
    <3> DEFINE x == starts[k]
               z == Len(queue[k])
    <3>1. x \in Nat /\ z \in Nat /\ after[k] = x - 1 /\ after[k + 1] = x + z - 1
      BY <2>2, <2>3, <2>4
    <3> HIDE DEF x
    <3> QED BY <3>1
  <2> QED BY <2>5, <2>6
<1>12. Flattened(Tail(cur), queue, Tail(q))
  BY <1>7, <1>8, <1>9, <1>10, <1>11 DEF Flattened, n
<1> QED BY <1>1, <1>4, <1>12

(* The first traversal of the queue becomes the current one.               *)
LEMMA FlattenedMovesOn ==
  ASSUME NEW S, NEW queue \in Seq(Seq(S)), NEW q \in Seq(S), queue # <<>>,
         Flattened(<<>>, queue, q)
  PROVE  Flattened(Head(queue), Tail(queue), q)
<1> DEFINE n == Len(queue)
           rest == Tail(queue)
<1>1. PICK starts \in [1..n + 1 -> 0..Len(q)] :
        /\ starts[1] = Len(<<>>) /\ starts[n + 1] = Len(q)
        /\ \A k, m \in 1..n + 1 : k <= m => starts[k] <= starts[m]
        /\ \A k \in 1..n :
             /\ starts[k + 1] = starts[k] + Len(queue[k])
             /\ \A i \in 1..Len(queue[k]) : q[starts[k] + i] = queue[k][i]
  BY DEF Flattened
<1>2. /\ n \in Nat \ {0} /\ Head(queue) = queue[1]
      /\ Len(rest) = n - 1 /\ \A k \in 1..n - 1 : rest[k] = queue[k + 1]
      /\ Len(<<>>) = 0
  BY EmptySeq, HeadTailProperties
<1>3. \A k \in 1..n : Len(queue[k]) \in Nat
  BY ElementOfSeq, LenProperties
<1>4. starts[1] = 0 /\ starts[2] = Len(queue[1])
  <2>1. 1 \in 1..n /\ 1 + 1 = 2
    BY <1>2
  <2>2. starts[1] = 0 /\ Len(queue[1]) \in Nat
    BY <1>1, <1>2, <1>3, <2>1
  <2>3. starts[2] = starts[1] + Len(queue[1])
    BY <1>1, <2>1
  <2> QED BY <2>2, <2>3
<1> HIDE DEF n, rest
<1> DEFINE after == [k \in 1..Len(rest) + 1 |-> starts[k + 1]]
<1>5. Len(rest) + 1 = n /\ \A k \in 1..n : k + 1 \in 1..n + 1
  BY <1>2
<1>6. after \in [1..Len(rest) + 1 -> 0..Len(q)]
  BY <1>1, <1>5
<1>7. /\ after[1] = Len(Head(queue)) /\ after[Len(rest) + 1] = Len(q)
      /\ \A k, m \in 1..Len(rest) + 1 : k <= m => after[k] <= after[m]
  <2>1. 1 \in 1..n /\ n \in 1..n /\ 1 + 1 = 2
    BY <1>2
  <2>2. after[1] = starts[2] /\ after[n] = starts[n + 1]
    BY <1>5, <2>1
  <2>3. ASSUME NEW k \in 1..n, NEW m \in 1..n, k <= m PROVE after[k] <= after[m]
    <3>1. k + 1 \in 1..n + 1 /\ m + 1 \in 1..n + 1 /\ k + 1 <= m + 1
      BY <1>2, <2>3
    <3>2. starts[k + 1] <= starts[m + 1]
      BY <1>1, <3>1
    <3> QED BY <1>5, <3>2
  <2> QED BY <1>1, <1>2, <1>4, <1>5, <2>2, <2>3
<1>8. \A i \in 1..Len(Head(queue)) : q[i] = Head(queue)[i]
  <2> TAKE i \in 1..Len(Head(queue))
  <2>1. 1 \in 1..n /\ i \in 1..Len(queue[1]) /\ i \in Int
    BY <1>2, <1>3
  <2>2. q[starts[1] + i] = queue[1][i]
    BY <1>1, <2>1
  <2>3. starts[1] + i = i
    BY <1>4, <2>1
  <2> QED BY <1>2, <2>2, <2>3
<1>9. ASSUME NEW k \in 1..Len(rest)
      PROVE  /\ after[k + 1] = after[k] + Len(rest[k])
             /\ \A i \in 1..Len(rest[k]) : q[after[k] + i] = rest[k][i]
  <2>1. /\ k + 1 \in 1..n /\ k \in 1..Len(rest) + 1 /\ k + 1 \in 1..Len(rest) + 1
        /\ rest[k] = queue[k + 1]
    BY <1>2
  <2>2. after[k] = starts[k + 1] /\ after[k + 1] = starts[k + 1 + 1]
    BY <2>1
  <2>3. /\ starts[k + 1 + 1] = starts[k + 1] + Len(queue[k + 1])
        /\ \A i \in 1..Len(queue[k + 1]) : q[starts[k + 1] + i] = queue[k + 1][i]
    BY <1>1, <2>1
  <2> QED BY <2>1, <2>2, <2>3
<1> HIDE DEF after
<1> QED BY <1>6, <1>7, <1>8, <1>9 DEF Flattened, rest

(* A traversal goes to the end of both.                                    *)
LEMMA FlattenedAppend ==
  ASSUME NEW S, NEW cur \in Seq(S), NEW queue \in Seq(Seq(S)), NEW q \in Seq(S),
         NEW r \in Seq(S), Flattened(cur, queue, q)
  PROVE  Flattened(cur, Append(queue, r), q \o r)
<1> DEFINE n == Len(queue)
           more == Append(queue, r)
           all == q \o r
<1>1. PICK starts \in [1..n + 1 -> 0..Len(q)] :
        /\ starts[1] = Len(cur) /\ starts[n + 1] = Len(q)
        /\ \A k, m \in 1..n + 1 : k <= m => starts[k] <= starts[m]
        /\ \A i \in 1..Len(cur) : q[i] = cur[i]
        /\ \A k \in 1..n :
             /\ starts[k + 1] = starts[k] + Len(queue[k])
             /\ \A i \in 1..Len(queue[k]) : q[starts[k] + i] = queue[k][i]
  BY DEF Flattened
<1>2. /\ n \in Nat /\ Len(more) = n + 1 /\ more[n + 1] = r
      /\ \A k \in 1..n : more[k] = queue[k]
  BY AppendProperties, LenProperties
<1>3. /\ Len(q) \in Nat /\ Len(r) \in Nat /\ Len(all) = Len(q) + Len(r)
      /\ \A i \in 1..Len(q) : all[i] = q[i]
      /\ \A i \in 1..Len(r) : all[Len(q) + i] = r[i]
  OBVIOUS
<1>4. Len(cur) \in Nat /\ \A k \in 1..n : Len(queue[k]) \in Nat
  BY ElementOfSeq, LenProperties
<1> HIDE DEF n, more, all
<1>5. \A k \in 1..n + 1 : starts[k] \in Nat /\ starts[k] <= Len(q)
  <2>1. \A k \in 1..n + 1 : starts[k] \in 0..Len(q)
    OBVIOUS
  <2> QED BY <1>3, <2>1
<1> DEFINE after == [k \in 1..Len(more) + 1 |-> IF k = n + 2 THEN Len(all) ELSE starts[k]]
<1>6. /\ Len(more) + 1 = n + 2
      /\ \A k \in 1..n + 2 : k # n + 2 => k \in 1..n + 1
      /\ \A k \in 1..n + 1 : k \in 1..n + 2 /\ k # n + 2
  BY <1>2
<1>7. /\ after \in [1..Len(more) + 1 -> 0..Len(all)]
      /\ \A k \in 1..n + 1 : after[k] = starts[k]
      /\ after[n + 2] = Len(all)
  <2>1. Len(all) \in Nat /\ Len(q) <= Len(all)
    BY <1>3
  <2> QED BY <1>2, <1>3, <1>5, <1>6, <2>1
<1> HIDE DEF after
<1>8. /\ after[1] = Len(cur) /\ after[Len(more) + 1] = Len(all)
      /\ \A k, m \in 1..Len(more) + 1 : k <= m => after[k] <= after[m]
  <2>1. 1 \in 1..n + 1
    BY <1>2
  <2>2. ASSUME NEW k \in 1..n + 2, NEW m \in 1..n + 2, k <= m PROVE after[k] <= after[m]
    <3>1. CASE m = n + 2
      <4>1. after[k] \in 0..Len(all)
        BY <1>6, <1>7
      <4>2. after[m] = Len(all) /\ Len(all) \in Nat
        BY <1>3, <1>7, <3>1
      <4> QED BY <4>1, <4>2
    <3>2. CASE m # n + 2
      <4>1. k \in 1..n + 1 /\ m \in 1..n + 1
        BY <1>2, <2>2, <3>2
      <4> QED BY <1>1, <1>7, <2>2, <4>1
    <3> QED BY <3>1, <3>2
  <2> QED BY <1>1, <1>6, <1>7, <2>1, <2>2
<1>9. \A i \in 1..Len(cur) : all[i] = cur[i]
  <2>1. 1 \in 1..n + 1
    BY <1>2
  <2>2. Len(cur) <= Len(q)
    BY <1>1, <1>5, <2>1
  <2>3. \A i \in 1..Len(cur) : i \in 1..Len(q)
    BY <1>3, <1>4, <2>2
  <2> QED BY <1>1, <1>3, <2>3
<1>10. ASSUME NEW k \in 1..Len(more)
       PROVE  /\ after[k + 1] = after[k] + Len(more[k])
              /\ \A i \in 1..Len(more[k]) : all[after[k] + i] = more[k][i]
  <2>1. CASE k \in 1..n
    <3>1. k \in 1..n + 1 /\ k + 1 \in 1..n + 1
      BY <1>2, <2>1
    <3>2. after[k] = starts[k] /\ after[k + 1] = starts[k + 1] /\ more[k] = queue[k]
      BY <1>2, <1>7, <2>1, <3>1
    <3>3. /\ starts[k + 1] = starts[k] + Len(queue[k])
          /\ \A i \in 1..Len(queue[k]) : q[starts[k] + i] = queue[k][i]
      BY <1>1, <2>1
    <3>4. \A i \in 1..Len(queue[k]) : starts[k] + i \in 1..Len(q)
      BY <1>3, <1>4, <1>5, <2>1, <3>1, <3>3
    <3>5. \A i \in 1..Len(queue[k]) : all[starts[k] + i] = queue[k][i]
      BY <1>3, <3>3, <3>4
    <3> QED BY <3>2, <3>3, <3>5
  <2>2. CASE k \notin 1..n
    <3>1. k = n + 1 /\ k + 1 = n + 2 /\ k \in 1..n + 1
      BY <1>2, <2>2
    <3>2. after[k] = Len(q) /\ after[k + 1] = Len(all) /\ more[k] = r
      BY <1>1, <1>2, <1>7, <3>1
    <3> QED BY <1>3, <3>2
  <2> QED BY <2>1, <2>2
<1> QED BY <1>7, <1>8, <1>9, <1>10 DEF Flattened, more, all
-----------------------------------------------------------------------------
(* The sets that are counted.                                              *)

LEMMA ViewsFinite ==
  /\ IsFiniteSet(View)
  /\ \A p, t : IsFiniteSet(InMaking(p, t))
<1>1. ASSUME NEW v \in View PROVE v \in Level \X (1..NumberOfViewParallel)
  <2>1. PICK i \in 1..MemoryPoolSize(LevelOf(v)) : v = <<LevelOf(v), i>>
    BY Views
  <2>2. LevelOf(v) \in Level
    BY Views
  <2> DEFINE tiles == NumberTilesWidth[LevelOf(v)] * NumberTilesHeight[LevelOf(v)]
  <2>3. MemoryPoolSize(LevelOf(v)) = IF tiles < NumberOfViewParallel THEN tiles ELSE NumberOfViewParallel
    BY DEF MemoryPoolSize
  <2>4. tiles \in Nat /\ NumberOfViewParallel \in Nat
    <3>1. NumberTilesWidth[LevelOf(v)] \in Nat /\ NumberTilesHeight[LevelOf(v)] \in Nat
      BY <2>2, ViewSizesAssumption
    <3> QED BY <3>1, ViewSizesAssumption
  <2> HIDE DEF tiles
  <2>5. i \in 1..NumberOfViewParallel
    BY <2>3, <2>4
  <2> QED BY <2>1, <2>2, <2>5
<1>2. IsFiniteSet(Level) /\ IsFiniteSet(1..NumberOfViewParallel)
  BY ViewSizesAssumption, FS_Interval DEF Level
<1>3. IsFiniteSet(Level \X (1..NumberOfViewParallel))
  BY <1>2, FS_Product
<1>4. IsFiniteSet(View)
  <2>1. View \in SUBSET (Level \X (1..NumberOfViewParallel))
    BY <1>1
  <2> QED BY <1>3, <2>1, FS_Subset
<1>5. ASSUME NEW p, NEW t PROVE IsFiniteSet(InMaking(p, t))
  <2>1. InMaking(p, t) \in SUBSET View
    BY DEF InMaking
  <2> QED BY <1>4, <2>1, FS_Subset
<1> QED BY <1>4, <1>5

LEMMA UnsentFinite ==
  ASSUME TypeOK
  PROVE  \A p, t : IsFiniteSet(Unsent(p, t))
<1> DEFINE Places2(u) == {u} \X (0..Len(sending[u]))
           f == [u \in User |-> Places2(u)]
           T == {Places2(u) : u \in User}
<1>1. f \in Surjection(User, T)
  BY DEF Surjection
<1> HIDE DEF f
<1>2. IsFiniteSet(T)
  BY <1>1, FS_Surjection, UsersAssumption
<1>3. ASSUME NEW A \in T PROVE IsFiniteSet(A)
  <2>1. PICK u \in User : A = {u} \X (0..Len(sending[u]))
    OBVIOUS
  <2>2. Len(sending[u]) \in Nat
    BY LenProperties DEF TypeOK
  <2>3. IsFiniteSet({u})
    BY FS_Singleton
  <2>4. IsFiniteSet(0..Len(sending[u]))
    <3>1. 0 \in Int /\ Len(sending[u]) \in Int
      BY <2>2
    <3> QED BY <3>1, FS_Interval
  <2> QED BY <2>1, <2>3, <2>4, FS_Product
<1>4. IsFiniteSet(UNION T)
  BY <1>2, <1>3, FS_UNION
<1>5. ASSUME NEW p, NEW t PROVE IsFiniteSet(Unsent(p, t))
  <2>1. ASSUME NEW w \in Unsent(p, t) PROVE w \in UNION T
    <3>1. PICK u \in User, k \in Nat : w = <<u, k>>
      BY DEF Unsent
    <3>2. k < Len(sending[u])
      BY <3>1 DEF Unsent
    <3>3. Len(sending[u]) \in Nat
      BY LenProperties DEF TypeOK
    <3>4. w \in Places2(u)
      BY <3>1, <3>2, <3>3
    <3> QED BY <3>4
  <2>2. Unsent(p, t) \in SUBSET (UNION T)
    BY <2>1
  <2> QED BY <1>4, <2>2, FS_Subset
<1> QED BY <1>5

(* A call has all its tiles to send, ...                                   *)
LEMMA UnsentGrows ==
  ASSUME TypeOK, NEW u \in User, NEW p \in Level, NEW trav \in Seq(AnyTile),
         sending[u] = <<>>,
         sending' = [sending EXCEPT ![u] = trav],
         sendingTo' = [sendingTo EXCEPT ![u] = p]
  PROVE  \A q, t :
           /\ IsFiniteSet(Unsent(q, t)')
           /\ Cardinality(Unsent(q, t)') =
                Cardinality(Unsent(q, t)) + (IF q = p THEN Count(trav, t) ELSE 0)
<1>1. /\ Len(trav) \in Nat /\ Len(<<>>) = 0
      /\ sending'[u] = trav /\ sendingTo'[u] = p
      /\ \A w \in User \ {u} : sending'[w] = sending[w] /\ sendingTo'[w] = sendingTo[w]
  BY LenProperties DEF TypeOK
<1> SUFFICES ASSUME NEW q, NEW t
             PROVE  /\ IsFiniteSet(Unsent(q, t)')
                    /\ Cardinality(Unsent(q, t)') =
                         Cardinality(Unsent(q, t)) + (IF q = p THEN Count(trav, t) ELSE 0)
  OBVIOUS
<1>2. IsFiniteSet(Unsent(q, t)) /\ Cardinality(Unsent(q, t)) \in Nat
  BY UnsentFinite, FS_CardinalityType
<1>3. ASSUME NEW w \in Unsent(q, t) PROVE w \in User \X Nat /\ w[1] # u
  BY <1>1 DEF Unsent
<1>4. CASE q # p
  <2>1. Unsent(q, t)' = Unsent(q, t)
    <3>1. ASSUME NEW w \in Unsent(q, t) PROVE w \in Unsent(q, t)'
      BY <1>1, <1>3, <3>1 DEF Unsent
    <3>2. ASSUME NEW w \in Unsent(q, t)' PROVE w \in Unsent(q, t)
      BY <1>1, <1>4, <3>2 DEF Unsent
    <3> QED BY <3>1, <3>2
  <2> QED BY <1>2, <1>4, <2>1
<1>5. CASE q = p
  <2> DEFINE A == Places(trav, t)
             B == {<<u, Len(trav) - i>> : i \in A}
             f == [i \in A |-> <<u, Len(trav) - i>>]
  <2>1. A \in SUBSET Int /\ \A i \in A : i \in 1..Len(trav) /\ trav[i] = t
    BY DEF Places
  <2>2. f \in Bijection(A, B)
    <3> HIDE DEF A
    <3>1. f \in [A -> B] /\ \A i \in A : f[i] = <<u, Len(trav) - i>>
      OBVIOUS
    <3>2. \A b \in B : \E i \in A : f[i] = b
      OBVIOUS
    <3> HIDE DEF f, B
    <3>3. ASSUME NEW i \in A, NEW j \in A, f[i] = f[j] PROVE i = j
      <4>1. i \in Int /\ j \in Int /\ Len(trav) \in Int
        BY <1>1, <2>1
      <4> DEFINE x == Len(trav) - i
                 z == Len(trav) - j
      <4>2. <<u, x>> = <<u, z>>
        BY <3>1, <3>3
      <4>3. x = z
        <5> HIDE DEF x, z
        <5> QED BY <4>2
      <4> QED BY <4>1, <4>3
    <3> QED BY <3>1, <3>2, <3>3 DEF Bijection, Injection, Surjection, IsInjective
  <2>3. IsFiniteSet(A) /\ Cardinality(A) = Count(trav, t) /\ Count(trav, t) \in Nat
    BY CountType DEF Count
  <2> HIDE DEF f, A
  <2>4. IsFiniteSet(B) /\ Cardinality(B) = Count(trav, t)
    <3> HIDE DEF B
    <3>1. ExistsBijection(A, B)
      BY <2>2 DEF ExistsBijection
    <3> QED BY <2>3, <3>1, FS_Bijection
  <2>5. Unsent(q, t)' = Unsent(q, t) \union B
    <3>1. ASSUME NEW w \in Unsent(q, t) PROVE w \in Unsent(q, t)'
      BY <1>1, <1>3, <3>1 DEF Unsent
    <3>2. ASSUME NEW i \in A PROVE <<u, Len(trav) - i>> \in Unsent(q, t)'
      <4>1. Len(trav) - i \in Nat /\ Len(trav) - i < Len(trav) /\ Len(trav) - (Len(trav) - i) = i
        BY <1>1, <2>1
      <4> QED BY <1>1, <1>5, <2>1, <4>1 DEF Unsent
    <3>3. ASSUME NEW w \in Unsent(q, t)' PROVE w \in Unsent(q, t) \union B
      <4>1. PICK x \in User, k \in Nat : w = <<x, k>>
        BY <3>3 DEF Unsent
      <4>2. CASE x = u
        <5>1. k < Len(trav) /\ trav[Len(trav) - k] = t
          BY <1>1, <3>3, <4>1, <4>2 DEF Unsent
        <5>2. Len(trav) - k \in A /\ Len(trav) - (Len(trav) - k) = k
          BY <1>1, <5>1 DEF A, Places
        <5> QED BY <4>1, <4>2, <5>2
      <4>3. CASE x # u
        BY <1>1, <3>3, <4>1, <4>3 DEF Unsent
      <4> QED BY <4>2, <4>3
    <3> QED BY <3>1, <3>2, <3>3
  <2>6. Unsent(q, t) \cap B = {}
    BY <1>3
  <2> HIDE DEF B
  <2>7. /\ IsFiniteSet(Unsent(q, t) \union B)
        /\ Cardinality(Unsent(q, t) \union B) =
             Cardinality(Unsent(q, t)) + Cardinality(B) - Cardinality({})
    BY <1>2, <2>4, <2>6, FS_Union
  <2> QED BY <1>2, <1>5, <2>3, <2>4, <2>5, <2>7, FS_EmptySet
<1> QED BY <1>4, <1>5

(* ... and each request it sends is one less.                              *)
LEMMA UnsentShrinks ==
  ASSUME TypeOK, NEW u \in User, sending[u] # <<>>,
         sending' = [sending EXCEPT ![u] = Tail(sending[u])],
         sendingTo' = sendingTo
  PROVE  \A q, t :
           /\ IsFiniteSet(Unsent(q, t)')
           /\ Cardinality(Unsent(q, t)) =
                Cardinality(Unsent(q, t)')
                  + (IF q = sendingTo[u] /\ Head(sending[u]) = t THEN 1 ELSE 0)
<1> DEFINE s == sending[u]
           n == Len(s)
           token == <<u, n - 1>>
<1>1. /\ s \in Seq(AnyTile) /\ s # <<>>
      /\ sending'[u] = Tail(s)
      /\ \A w \in User \ {u} : sending'[w] = sending[w]
  BY DEF TypeOK
<1>2. /\ n \in Nat \ {0} /\ Head(s) = s[1]
      /\ Len(Tail(s)) = n - 1 /\ \A i \in 1..n - 1 : Tail(s)[i] = s[i + 1]
  <2> HIDE DEF s
  <2> QED BY <1>1, EmptySeq, HeadTailProperties
<1> SUFFICES ASSUME NEW q, NEW t
             PROVE  /\ IsFiniteSet(Unsent(q, t)')
                    /\ Cardinality(Unsent(q, t)) =
                         Cardinality(Unsent(q, t)')
                           + (IF q = sendingTo[u] /\ Head(sending[u]) = t THEN 1 ELSE 0)
  OBVIOUS
<1>3. IsFiniteSet(Unsent(q, t)) /\ Cardinality(Unsent(q, t)) \in Nat
  BY UnsentFinite, FS_CardinalityType
<1>4. Unsent(q, t)' = Unsent(q, t) \ {token}
  <2>1. ASSUME NEW x \in User, NEW k \in Nat
        PROVE  <<x, k>> \in Unsent(q, t)' <=> <<x, k>> \in Unsent(q, t) \ {token}
    <3>1. CASE x = u
      <4>1. k < n - 1 => n - 1 - k \in 1..n - 1 /\ n - 1 - k + 1 = n - k
        BY <1>2
      <4>2. k < n - 1 => Tail(s)[n - 1 - k] = s[n - k]
        BY <1>2, <4>1
      <4>3. k < n - 1 <=> k < n /\ <<x, k>> # token
        BY <1>2, <3>1
      <4>4. <<x, k>> \in Unsent(q, t)' <=> sendingTo[u] = q /\ k < n - 1 /\ Tail(s)[n - 1 - k] = t
        BY <1>1, <1>2, <3>1 DEF Unsent
      <4>5. <<x, k>> \in Unsent(q, t) <=> sendingTo[u] = q /\ k < n /\ s[n - k] = t
        BY <3>1 DEF Unsent
      <4> HIDE DEF s, n, token
      <4> QED BY <4>2, <4>3, <4>4, <4>5
    <3>2. CASE x # u
      BY <1>1, <3>2 DEF Unsent
    <3> QED BY <3>1, <3>2
  <2>2. Unsent(q, t)' \subseteq User \X Nat /\ Unsent(q, t) \subseteq User \X Nat
    BY DEF Unsent
  <2> HIDE DEF token
  <2>3. ASSUME NEW w \in User \X Nat
        PROVE  w \in Unsent(q, t)' <=> w \in Unsent(q, t) \ {token}
    <3>1. PICK x \in User, k \in Nat : w = <<x, k>>
      OBVIOUS
    <3> QED BY <2>1, <3>1
  <2> QED BY <2>2, <2>3
<1>5. token \in Unsent(q, t) <=> q = sendingTo[u] /\ Head(s) = t
  <2>1. n - 1 \in Nat /\ n - 1 < n /\ n - (n - 1) = 1
    BY <1>2
  <2>2. token \in Unsent(q, t) <=> sendingTo[u] = q /\ s[1] = t
    BY <2>1 DEF Unsent
  <2> QED BY <1>2, <2>2
<1> HIDE DEF token
<1>6. /\ IsFiniteSet(Unsent(q, t) \ {token})
      /\ Cardinality(Unsent(q, t) \ {token}) =
           IF token \in Unsent(q, t) THEN Cardinality(Unsent(q, t)) - 1
           ELSE Cardinality(Unsent(q, t))
  BY <1>3, FS_RemoveElement
<1> QED BY <1>3, <1>4, <1>5, <1>6

LEMMA UnsentStays ==
  ASSUME UNCHANGED <<sending, sendingTo>>
  PROVE  \A q, t : Unsent(q, t)' = Unsent(q, t)
BY DEF Unsent
-----------------------------------------------------------------------------
(* The views in the making.                                                *)

LEMMA MakingStays ==
  ASSUME \A v \in View : /\ IsAwaited(v)' <=> IsAwaited(v)
                         /\ IsAwaited(v) => tile'[v] = tile[v]
  PROVE  \A q, t : InMaking(q, t)' = InMaking(q, t)
BY DEF InMaking

LEMMA MakingGains ==
  ASSUME NEW v \in View, ~IsAwaited(v), IsAwaited(v)',
         \A w \in View \ {v} : /\ IsAwaited(w)' <=> IsAwaited(w)
                               /\ IsAwaited(w) => tile'[w] = tile[w]
  PROVE  \A q, t :
           Cardinality(InMaking(q, t)') =
             Cardinality(InMaking(q, t))
               + (IF q = LevelOf(v) /\ tile'[v] = t THEN 1 ELSE 0)
<1> SUFFICES ASSUME NEW q, NEW t
             PROVE  Cardinality(InMaking(q, t)') =
                      Cardinality(InMaking(q, t))
                        + (IF q = LevelOf(v) /\ tile'[v] = t THEN 1 ELSE 0)
  OBVIOUS
<1>1. IsFiniteSet(InMaking(q, t)) /\ Cardinality(InMaking(q, t)) \in Nat
  BY ViewsFinite, FS_CardinalityType
<1>2. v \notin InMaking(q, t)
  BY DEF InMaking
<1>3. CASE q = LevelOf(v) /\ tile'[v] = t
  <2>1. InMaking(q, t)' = InMaking(q, t) \union {v}
    BY <1>3 DEF InMaking
  <2>2. Cardinality(InMaking(q, t) \union {v}) = Cardinality(InMaking(q, t)) + 1
    BY <1>1, <1>2, FS_AddElement
  <2> QED BY <1>3, <2>1, <2>2
<1>4. CASE ~(q = LevelOf(v) /\ tile'[v] = t)
  <2>1. InMaking(q, t)' = InMaking(q, t)
    BY <1>4 DEF InMaking
  <2> QED BY <1>1, <1>4, <2>1
<1> QED BY <1>3, <1>4

LEMMA MakingLoses ==
  ASSUME NEW v \in View, IsAwaited(v), ~IsAwaited(v)', tile' = tile,
         \A w \in View \ {v} : IsAwaited(w)' <=> IsAwaited(w)
  PROVE  \A q, t :
           Cardinality(InMaking(q, t)) =
             Cardinality(InMaking(q, t)')
               + (IF q = LevelOf(v) /\ tile[v] = t THEN 1 ELSE 0)
<1> SUFFICES ASSUME NEW q, NEW t
             PROVE  Cardinality(InMaking(q, t)) =
                      Cardinality(InMaking(q, t)')
                        + (IF q = LevelOf(v) /\ tile[v] = t THEN 1 ELSE 0)
  OBVIOUS
<1>1. IsFiniteSet(InMaking(q, t)) /\ Cardinality(InMaking(q, t)) \in Nat
  BY ViewsFinite, FS_CardinalityType
<1>2. v \in InMaking(q, t) <=> q = LevelOf(v) /\ tile[v] = t
  BY DEF InMaking
<1>3. InMaking(q, t)' = InMaking(q, t) \ {v}
  BY DEF InMaking
<1>4. Cardinality(InMaking(q, t) \ {v}) =
        IF v \in InMaking(q, t) THEN Cardinality(InMaking(q, t)) - 1
        ELSE Cardinality(InMaking(q, t))
  BY <1>1, FS_RemoveElement
<1> QED BY <1>1, <1>2, <1>3, <1>4

-----------------------------------------------------------------------------
(* What a step leaves alone.                                               *)

LEMMA OrderStays ==
  ASSUME OrderInv, UNCHANGED <<promised, queueTraversals, currentTraversal>>
  PROVE  OrderInv'
BY DEF OrderInv

LEMMA StoreStays ==
  ASSUME StoreInv,
         UNCHANGED <<storing, waitingList, queueTraversals, currentTraversal>>,
         \A v \in waitingList : tile'[v] = tile[v]
  PROVE  StoreInv'
<1>1. Current' = Current
  BY DEF Current, MovesOn
<1>2. \A v \in waitingList : IsNext(v)' = IsNext(v)
  BY <1>1 DEF IsNext
<1> QED BY <1>2 DEF StoreInv

LEMMA MapStays ==
  ASSUME MapInv, TypeOK, UNCHANGED countMap,
         \A v \in View : IsMade(v) => tile'[v] = tile[v]
  PROVE  MapInv'
<1>1. ASSUME NEW v \in View, countMap[v] > 0 PROVE tile'[v] = tile[v]
  BY <1>1 DEF TypeOK, IsMade, TilesUnderWay
<1> QED BY <1>1 DEF MapInv

(* Nothing is asked for and no view is made or sent out.                   *)
LEMMA QuietKeepsServiceInv ==
  ASSUME ServiceInv, Inv', MapInv', EndInv',
         UNCHANGED <<promised, sending, sendingTo, requests, storing, waitingList,
                     queueTraversals, currentTraversal>>,
         \A v \in View : /\ IsAwaited(v)' <=> IsAwaited(v)
                         /\ IsAwaited(v) => tile'[v] = tile[v]
  PROVE  ServiceInv'
<1>1. BalanceInv'
  <2>1. \A q, t : InMaking(q, t)' = InMaking(q, t)
    BY MakingStays
  <2>2. \A q, t : Unsent(q, t)' = Unsent(q, t)
    BY UnsentStays
  <2> QED BY <2>1, <2>2 DEF ServiceInv, BalanceInv, Balanced
<1>2. OrderInv'
  BY OrderStays DEF ServiceInv
<1>3. StoreInv'
  <2>1. \A v \in waitingList : v \in View /\ IsAwaited(v)
    BY DEF ServiceInv, Inv, TypeOK, IsAwaited, IsStored
  <2> QED BY <2>1, StoreStays DEF ServiceInv
<1> QED BY <1>1, <1>2, <1>3 DEF ServiceInv

-----------------------------------------------------------------------------
(* The order of the views.                                                 *)

(* updateCurrentTraversal leaves the order as it is, and a second call of   *)
(* it changes nothing.                                                     *)
LEMMA Normalised ==
  ASSUME ServiceInv, PreserveOrder
  PROVE  /\ NbReleasePyramid[0] # 0 => Flattened(Current, Queued, promised[0])
         /\ \A k \in 1..Len(Queued) : Queued[k] # <<>>
         /\ Current = <<>> => Queued = <<>> /\ currentTraversal = <<>> /\ queueTraversals = <<>>
<1>1. /\ queueTraversals \in Seq(Seq(AnyTile)) /\ promised[0] \in Seq(AnyTile)
      /\ \A k \in 1..Len(queueTraversals) : queueTraversals[k] # <<>>
  BY Views DEF ServiceInv, Inv, TypeOK, OrderInv
<1>2. CASE MovesOn
  <2>1. queueTraversals # <<>> /\ currentTraversal = <<>>
    BY <1>2 DEF MovesOn
  <2>2. Current = Head(queueTraversals) /\ Queued = Tail(queueTraversals)
    BY <1>2 DEF Current, Queued
  <2>3. NbReleasePyramid[0] # 0 => Flattened(Current, Queued, promised[0])
    BY <1>1, <2>1, <2>2, FlattenedMovesOn DEF ServiceInv, OrderInv
  <2>4. /\ Len(queueTraversals) \in Nat \ {0} /\ Head(queueTraversals) = queueTraversals[1]
        /\ Len(Tail(queueTraversals)) = Len(queueTraversals) - 1
        /\ \A k \in 1..Len(queueTraversals) - 1 :
             Tail(queueTraversals)[k] = queueTraversals[k + 1]
    <3> DEFINE q == queueTraversals
    <3>1. q \in Seq(Seq(AnyTile)) /\ q # <<>>
      BY <1>1, <2>1
    <3> HIDE DEF q
    <3>2. Len(q) \in Nat \ {0}
      BY <3>1, EmptySeq
    <3>3. Head(q) = q[1] /\ Len(Tail(q)) = Len(q) - 1 /\ \A k \in 1..Len(q) - 1 : Tail(q)[k] = q[k + 1]
      BY <3>1, HeadTailProperties
    <3> QED BY <3>2, <3>3 DEF q
  <2>5. Current # <<>>
    BY <1>1, <2>2, <2>4
  <2>6. \A k \in 1..Len(Queued) : Queued[k] # <<>>
    <3> TAKE k \in 1..Len(Queued)
    <3>1. k + 1 \in 1..Len(queueTraversals) /\ k \in 1..Len(queueTraversals) - 1
      BY <2>2, <2>4
    <3> QED BY <1>1, <2>2, <2>4, <3>1
  <2> QED BY <2>3, <2>5, <2>6
<1>3. CASE ~MovesOn
  <2>1. Current = currentTraversal /\ Queued = queueTraversals
    BY <1>3 DEF Current, Queued
  <2>2. Current = <<>> => queueTraversals = <<>>
    BY <1>3, <2>1 DEF MovesOn
  <2> QED BY <1>1, <2>1, <2>2 DEF ServiceInv, OrderInv
<1> QED BY <1>2, <1>3

LEMMA CurrentStays ==
  ASSUME ServiceInv, PreserveOrder,
         currentTraversal' = Current, queueTraversals' = Queued
  PROVE  Current' = Current
<1>1. Current = <<>> => Queued = <<>>
  BY Normalised
<1>2. ~MovesOn'
  BY <1>1 DEF MovesOn
<1> QED BY <1>2 DEF Current

(* While a view of level 0 is made or stored, the traversals have a tile    *)
(* to compare it with.                                                     *)
LEMMA AwaitedHaveNext ==
  ASSUME ServiceInv, PreserveOrder, NEW v \in View, LevelOf(v) = 0, IsAwaited(v)
  PROVE  NbReleasePyramid[0] # 0 /\ Current # <<>>
<1>1. tile[v] \in AnyTile
  BY DEF ServiceInv, Inv, TypeOK
<1>2. NbReleasePyramid[0] # 0
  BY DEF ServiceInv, Inv, ReleaseCountsAgree, IsAwaited
<1>3. Cardinality(InMaking(0, tile[v])) # 0
  <2>1. v \in InMaking(0, tile[v])
    BY DEF InMaking
  <2>2. IsFiniteSet(InMaking(0, tile[v]))
    BY ViewsFinite
  <2> QED BY <2>1, <2>2, FS_EmptySet
<1>4. promised[0] # <<>>
  <2>1. Balanced(0)
    BY <1>2, Views DEF ServiceInv, BalanceInv
  <2>2. Count(promised[0], tile[v]) =
          Cardinality(Unsent(0, tile[v])) + Count(requests[0], tile[v])
            + Cardinality(InMaking(0, tile[v]))
    BY <1>1, <2>1 DEF Balanced
  <2>3. Cardinality(Unsent(0, tile[v])) \in Nat
    BY UnsentFinite, FS_CardinalityType DEF ServiceInv, Inv
  <2>4. Cardinality(InMaking(0, tile[v])) \in Nat
    BY ViewsFinite, FS_CardinalityType
  <2>5. requests[0] \in Seq(AnyTile)
    BY Views DEF ServiceInv, Inv, TypeOK
  <2>6. Count(requests[0], tile[v]) \in Nat
    BY <2>5, CountType
  <2>7. Count(promised[0], tile[v]) # 0
    BY <1>3, <2>2, <2>3, <2>4, <2>6
  <2> QED BY <2>7, CountEmpty
<1>5. Current # <<>>
  <2>1. SUFFICES ASSUME Current = <<>> PROVE FALSE
    OBVIOUS
  <2>2. Queued = <<>> /\ Flattened(<<>>, <<>>, promised[0])
    BY <1>2, <2>1, Normalised
  <2>3. promised[0] \in Seq(AnyTile)
    BY Views DEF ServiceInv
  <2> QED BY <1>4, <2>2, <2>3, FlattenedEmpty
<1> QED BY <1>2, <1>5

(* So what is compared with it and popped is the front of a traversal.      *)
LEMMA ComparedWithNext ==
  ASSUME ServiceInv, PreserveOrder, NEW v \in View, LevelOf(v) = 0, IsAwaited(v)
  PROVE  /\ (\E front \in FrontTiles : ViewIsNext(v, front)) => IsNext(v)
         /\ (\E front \in FrontTiles : ~ViewIsNext(v, front)) => ~IsNext(v)
         /\ Popped = Tail(Current)
BY AwaitedHaveNext DEF FrontTiles, ViewIsNext, IsNext, Popped

(* A view that is stored waits for one that is still promised.             *)
LEMMA StoredHaveNext ==
  ASSUME ServiceInv, NEW v \in waitingList
  PROVE  /\ PreserveOrder /\ LevelOf(v) = 0 /\ v \in View
         /\ NbReleasePyramid[0] # 0
         /\ Current # <<>>
<1>1. PreserveOrder /\ LevelOf(v) = 0 /\ v \in View
  BY DEF ServiceInv, StoreInv, Inv, TypeOK
<1>2. IsAwaited(v)
  BY DEF IsAwaited, IsStored
<1> QED BY <1>1, <1>2, AwaitedHaveNext
-----------------------------------------------------------------------------
(* The calls and the requests.                                             *)

(* What is counted is finite, and so are the counts.                       *)
LEMMA CountsAreNumbers ==
  ASSUME ServiceInv, NEW p \in Level, NEW t
  PROVE  /\ promised[p] \in Seq(AnyTile) /\ requests[p] \in Seq(AnyTile)
         /\ Count(promised[p], t) \in Nat
         /\ Cardinality(Unsent(p, t)) \in Nat
         /\ Count(requests[p], t) \in Nat
         /\ Cardinality(InMaking(p, t)) \in Nat
<1>1. promised[p] \in Seq(AnyTile) /\ requests[p] \in Seq(AnyTile)
  BY DEF ServiceInv, Inv, TypeOK
<1>2. Count(promised[p], t) \in Nat
  BY <1>1, CountType
<1>3. Count(requests[p], t) \in Nat
  BY <1>1, CountType
<1>4. Cardinality(Unsent(p, t)) \in Nat
  BY UnsentFinite, FS_CardinalityType DEF ServiceInv, Inv
<1>5. Cardinality(InMaking(p, t)) \in Nat
  BY ViewsFinite, FS_CardinalityType
<1> QED BY <1>1, <1>2, <1>3, <1>4, <1>5

LEMMA PromisedKeepsServiceInv ==
  ASSUME OrderIsOfLevelZero, ServiceInv, Inv',
         NEW u \in User, NEW c \in Traversals, Promised(u, c[1], c[2])
  PROVE  ServiceInv'
<1> DEFINE p == c[1]
           trav == c[2]
<1>1. /\ p \in Level /\ trav \in Seq(AnyTile) /\ trav # <<>>
      /\ PreserveOrder => p = 0
  <2>1. trav \in Seq(Tile(p)) /\ p \in Level /\ trav # <<>>
    BY UsersAssumption
  <2> QED BY <2>1, Views DEF OrderIsOfLevelZero
<1>2. /\ ~finished /\ sending[u] = <<>>
      /\ queueTraversals' = Append(queueTraversals, trav)
      /\ sending' = [sending EXCEPT ![u] = trav]
      /\ sendingTo' = [sendingTo EXCEPT ![u] = p]
      /\ UNCHANGED <<tile, loaded, countMap, storing, waitingList, currentTraversal,
                     output, finished, requests, toSend, asked, uses>>
  BY DEF Promised, Request, AddTraversal, memoryVars
<1>3. promised' = IF NbReleasePyramid[p] = 0 THEN promised
                  ELSE [promised EXCEPT ![p] = @ \o trav]
  BY DEF Promised
<1> HIDE DEF p, trav
<1>4. /\ promised \in [Level -> Seq(AnyTile)] /\ TypeOK
      /\ queueTraversals \in Seq(Seq(AnyTile)) /\ currentTraversal \in Seq(AnyTile)
  BY DEF ServiceInv, Inv, TypeOK
<1>5. promised[p] \o trav \in Seq(AnyTile)
  BY <1>1, <1>4
<1>6. /\ promised' \in [Level -> Seq(AnyTile)]
      /\ \A q \in Level : NbReleasePyramid[q] # 0 =>
           promised'[q] = IF q = p THEN promised[q] \o trav ELSE promised[q]
      /\ \A q \in Level \ {p} : promised'[q] = promised[q]
  BY <1>1, <1>3, <1>4, <1>5
<1>7. \A v \in View : IsAwaited(v)' = IsAwaited(v) /\ tile'[v] = tile[v]
  BY <1>2 DEF IsAwaited, IsMade, TilesUnderWay, IsStored
<1>8. BalanceInv'
  <2> SUFFICES ASSUME NEW q \in Level, NbReleasePyramid[q] # 0, NEW t \in AnyTile
               PROVE  Count(promised'[q], t) =
                        Cardinality(Unsent(q, t)') + Count(requests'[q], t)
                          + Cardinality(InMaking(q, t)')
    BY DEF BalanceInv, Balanced
  <2>1. Count(promised[q], t) =
          Cardinality(Unsent(q, t)) + Count(requests[q], t) + Cardinality(InMaking(q, t))
    BY DEF ServiceInv, BalanceInv, Balanced
  <2>2. InMaking(q, t)' = InMaking(q, t)
    BY <1>7, MakingStays
  <2>3. Cardinality(Unsent(q, t)') =
          Cardinality(Unsent(q, t)) + (IF q = p THEN Count(trav, t) ELSE 0)
    <3>1. \A r, s : /\ IsFiniteSet(Unsent(r, s)')
                    /\ Cardinality(Unsent(r, s)') =
                         Cardinality(Unsent(r, s)) + (IF r = p THEN Count(trav, s) ELSE 0)
      BY <1>1, <1>2, <1>4, UnsentGrows
    <3> QED BY <3>1
  <2>4. Count(promised'[q], t) = Count(promised[q], t) + (IF q = p THEN Count(trav, t) ELSE 0)
    <3>1. promised[q] \in Seq(AnyTile) /\ Count(promised[q], t) \in Nat
      BY CountsAreNumbers
    <3>2. Count(promised[q] \o trav, t) = Count(promised[q], t) + Count(trav, t)
      BY <1>1, <3>1, CountConcat
    <3>3. promised'[q] = IF q = p THEN promised[q] \o trav ELSE promised[q]
      BY <1>6
    <3> QED BY <3>1, <3>2, <3>3
  <2>5. Count(trav, t) \in Nat
    BY <1>1, CountType
  <2>6. requests'[q] = requests[q]
    BY <1>2
  <2> QED BY <2>1, <2>2, <2>3, <2>4, <2>5, <2>6, CountsAreNumbers
<1>9. OrderInv'
  <2> SUFFICES ASSUME PreserveOrder
               PROVE  /\ \A q \in Level \ {0} : promised'[q] = <<>>
                      /\ \A k \in 1..Len(queueTraversals') : queueTraversals'[k] # <<>>
                      /\ NbReleasePyramid[0] # 0 =>
                           Flattened(currentTraversal', queueTraversals', promised'[0])
    BY DEF OrderInv, Flattened
  <2>1. p = 0
    BY <1>1
  <2>2. \A q \in Level \ {0} : promised'[q] = <<>>
    BY <1>6, <2>1 DEF ServiceInv, OrderInv
  <2>3. \A k \in 1..Len(queueTraversals') : queueTraversals'[k] # <<>>
    <3>1. /\ Len(queueTraversals') = Len(queueTraversals) + 1 /\ Len(queueTraversals) \in Nat
          /\ \A k \in 1..Len(queueTraversals) : queueTraversals'[k] = queueTraversals[k]
          /\ queueTraversals'[Len(queueTraversals) + 1] = trav
      BY <1>1, <1>2, <1>4, AppendProperties, LenProperties
    <3>2. \A k \in 1..Len(queueTraversals) : queueTraversals[k] # <<>>
      BY DEF ServiceInv, OrderInv
    <3> QED BY <1>1, <3>1, <3>2
  <2>4. NbReleasePyramid[0] # 0 =>
          Flattened(currentTraversal', queueTraversals', promised'[0])
    <3> SUFFICES ASSUME NbReleasePyramid[0] # 0
                 PROVE  Flattened(currentTraversal', queueTraversals', promised'[0])
      OBVIOUS
    <3>1. promised'[0] = promised[0] \o trav /\ promised[0] \in Seq(AnyTile)
      BY <1>4, <1>6, <2>1, Views
    <3>2. Flattened(currentTraversal, queueTraversals, promised[0])
      BY DEF ServiceInv, OrderInv
    <3> QED BY <1>1, <1>2, <1>4, <3>1, <3>2, FlattenedAppend
  <2> QED BY <2>2, <2>3, <2>4
<1>10. StoreInv'
  <2>1. ASSUME waitingList # {} PROVE Current' = Current
    <3>1. Current # <<>> /\ PreserveOrder
      BY <2>1, StoredHaveNext
    <3>2. CASE currentTraversal = <<>>
      <4>1. queueTraversals # <<>>
        BY <3>1, <3>2, Normalised DEF Current, MovesOn
      <4>2. Append(queueTraversals, trav) # <<>>
            /\ Head(Append(queueTraversals, trav)) = Head(queueTraversals)
        <5> DEFINE q == queueTraversals
        <5>1. q \in Seq(Seq(AnyTile)) /\ q # <<>>
          BY <1>4, <4>1
        <5> HIDE DEF q
        <5>2. Append(q, trav) # <<>> /\ Head(Append(q, trav)) = Head(q)
          BY <1>1, <5>1
        <5> QED BY <5>2 DEF q
      <4>3. MovesOn /\ MovesOn'
        BY <1>2, <3>2, <4>1, <4>2 DEF MovesOn
      <4> QED BY <1>2, <4>2, <4>3 DEF Current
    <3>3. CASE currentTraversal # <<>>
      <4>1. ~MovesOn /\ ~MovesOn'
        BY <1>2, <3>3 DEF MovesOn
      <4> QED BY <1>2, <4>1 DEF Current
    <3> QED BY <3>2, <3>3
  <2>2. \A v \in waitingList : IsNext(v)' = IsNext(v)
    BY <1>2, <2>1 DEF IsNext
  <2> QED BY <1>2, <2>2 DEF ServiceInv, StoreInv
<1>11. MapInv'
  BY <1>2, <1>4, MapStays DEF ServiceInv
<1>12. EndInv'
  BY <1>2 DEF EndInv
<1> QED BY <1>6, <1>8, <1>9, <1>10, <1>11, <1>12 DEF ServiceInv

LEMMA SendRequestKeepsServiceInv ==
  ASSUME ServiceInv, Inv', NEW u \in User, SendRequest(u), UNCHANGED promised
  PROVE  ServiceInv'
<1> DEFINE p == sendingTo[u]
           e == Head(sending[u])
<1>1. /\ sending[u] # <<>>
      /\ requests' = [requests EXCEPT ![p] = Append(@, e)]
      /\ sending' = [sending EXCEPT ![u] = Tail(sending[u])]
      /\ UNCHANGED <<tile, loaded, countMap, storing, waitingList, queueTraversals,
                     currentTraversal, output, sendingTo, finished, toSend, asked>>
  BY DEF SendRequest, memoryVars, counterVars, orderVars
<1>2. TypeOK /\ p \in Level /\ sending[u] \in Seq(AnyTile) /\ requests \in [Level -> Seq(AnyTile)]
  BY DEF ServiceInv, Inv, TypeOK
<1>3. e \in AnyTile
  BY <1>1, <1>2, HeadTailProperties
<1> HIDE DEF p, e
<1>4. \A v \in View : IsAwaited(v)' = IsAwaited(v) /\ tile'[v] = tile[v]
  BY <1>1 DEF IsAwaited, IsMade, TilesUnderWay, IsStored
<1>5. BalanceInv'
  <2> SUFFICES ASSUME NEW q \in Level, NbReleasePyramid[q] # 0, NEW t \in AnyTile
               PROVE  Count(promised'[q], t) =
                        Cardinality(Unsent(q, t)') + Count(requests'[q], t)
                          + Cardinality(InMaking(q, t)')
    BY DEF BalanceInv, Balanced
  <2>1. Count(promised[q], t) =
          Cardinality(Unsent(q, t)) + Count(requests[q], t) + Cardinality(InMaking(q, t))
    BY DEF ServiceInv, BalanceInv, Balanced
  <2>2. InMaking(q, t)' = InMaking(q, t)
    BY <1>4, MakingStays
  <2>3. /\ IsFiniteSet(Unsent(q, t)')
        /\ Cardinality(Unsent(q, t)) =
             Cardinality(Unsent(q, t)') + (IF q = p /\ e = t THEN 1 ELSE 0)
    <3>1. \A r, s : /\ IsFiniteSet(Unsent(r, s)')
                    /\ Cardinality(Unsent(r, s)) =
                         Cardinality(Unsent(r, s)')
                           + (IF r = sendingTo[u] /\ Head(sending[u]) = s THEN 1 ELSE 0)
      BY <1>1, <1>2, UnsentShrinks
    <3> QED BY <3>1 DEF p, e
  <2>4. Count(requests'[q], t) =
          Count(requests[q], t) + (IF q = p /\ e = t THEN 1 ELSE 0)
    <3>1. requests[q] \in Seq(AnyTile) /\ Count(requests[q], t) \in Nat
      BY CountsAreNumbers
    <3>2. Count(Append(requests[q], e), t) = Count(requests[q], t) + (IF e = t THEN 1 ELSE 0)
      BY <1>3, <3>1, CountAppend
    <3>3. requests'[q] = IF q = p THEN Append(requests[q], e) ELSE requests[q]
      BY <1>1, <1>2
    <3> QED BY <3>1, <3>2, <3>3
  <2>5. Cardinality(Unsent(q, t)') \in Nat
    BY <2>3, FS_CardinalityType
  <2> QED BY <2>1, <2>2, <2>3, <2>4, <2>5, CountsAreNumbers
<1>6. OrderInv'
  BY <1>1, OrderStays DEF ServiceInv
<1>7. StoreInv'
  BY <1>1, StoreStays DEF ServiceInv
<1>8. MapInv'
  BY <1>1, <1>2, MapStays DEF ServiceInv
<1>9. EndInv'
  BY <1>1, <1>2 DEF ServiceInv, EndInv
<1> QED BY <1>5, <1>6, <1>7, <1>8, <1>9 DEF ServiceInv

LEMMA DropRequestKeepsServiceInv ==
  ASSUME ServiceInv, Inv', NEW p \in Level, DropRequest(p), UNCHANGED promised
  PROVE  ServiceInv'
<1>1. /\ NbReleasePyramid[p] = 0
      /\ requests' = [requests EXCEPT ![p] = Tail(@)]
      /\ UNCHANGED <<tile, loaded, countMap, storing, waitingList, queueTraversals,
                     currentTraversal, output, sending, sendingTo, finished, toSend, asked>>
  BY DEF DropRequest, memoryVars, counterVars, orderVars, userVars
<1>2. TypeOK /\ requests \in [Level -> Seq(AnyTile)]
  BY DEF ServiceInv, Inv, TypeOK
<1>3. \A v \in View : IsAwaited(v)' = IsAwaited(v) /\ tile'[v] = tile[v]
  BY <1>1 DEF IsAwaited, IsMade, TilesUnderWay, IsStored
<1>4. BalanceInv'
  <2>1. \A q, t : InMaking(q, t)' = InMaking(q, t)
    BY <1>3, MakingStays
  <2>2. \A q, t : Unsent(q, t)' = Unsent(q, t)
    BY <1>1, UnsentStays
  <2>3. \A q \in Level : NbReleasePyramid[q] # 0 => requests'[q] = requests[q]
    BY <1>1, <1>2
  <2> QED BY <2>1, <2>2, <2>3 DEF ServiceInv, BalanceInv, Balanced
<1>5. OrderInv'
  BY <1>1, OrderStays DEF ServiceInv
<1>6. StoreInv'
  BY <1>1, StoreStays DEF ServiceInv
<1>7. MapInv'
  BY <1>1, <1>2, MapStays DEF ServiceInv
<1>8. EndInv'
  BY <1>1, <1>2 DEF ServiceInv, EndInv
<1> QED BY <1>4, <1>5, <1>6, <1>7, <1>8 DEF ServiceInv

LEMMA LoadViewKeepsServiceInv ==
  ASSUME ServiceInv, Inv', NEW p \in Level, NEW v \in View, LoadView(p, v),
         UNCHANGED promised
  PROVE  ServiceInv'
<1> DEFINE e == Head(requests[p])
           n == NumberTilesToLoad(p, e)
<1>1. /\ LevelOf(v) = p /\ requests[p] # <<>> /\ pool[p] # <<>> /\ v = Head(pool[p])
      /\ tile' = [tile EXCEPT ![v] = e]
      /\ toSend' = [toSend EXCEPT ![v] = n]
      /\ requests' = [requests EXCEPT ![p] = Tail(@)]
      /\ UNCHANGED <<loaded, countMap, storing, waitingList, queueTraversals,
                     currentTraversal, output, sending, sendingTo, finished, asked>>
  BY DEF LoadView, GetMemory, counterVars, orderVars, userVars
<1>2. /\ TypeOK /\ tile \in [View -> AnyTile] /\ toSend \in [View -> Nat]
      /\ requests \in [Level -> Seq(AnyTile)] /\ requests[p] \in Seq(Tile(p))
      /\ pool[p] \in Seq(View)
      /\ toSend[v] \in Nat /\ asked[v] \in Nat /\ loaded[v] \in Nat /\ countMap[v] \in Nat
  BY DEF ServiceInv, Inv, TypeOK
<1>3. n \in Nat \ {0}
  <2>1. e \in Tile(p)
    BY <1>1, <1>2, HeadTailProperties
  <2> QED BY <2>1, SomeTiles
<1> HIDE DEF n
<1>4. ~IsMade(v) /\ ~IsStored(v)
  <2>1. IsFree(v)
    <3> DEFINE q == pool[p]
    <3>1. q \in Seq(View) /\ q # <<>> /\ v = Head(q)
      BY <1>1, <1>2
    <3> HIDE DEF q
    <3>2. v \in Elems(q)
      BY <3>1 DEF Elems
    <3> QED BY <1>1, <3>2 DEF IsFree, q
  <2> QED BY <2>1 DEF ServiceInv, Inv, OnePlacePerView
<1>5. ~IsAwaited(v) /\ IsAwaited(v)' /\ tile'[v] = e /\ countMap[v] = 0
  <2>1. toSend'[v] = n /\ tile'[v] = e
    BY <1>1, <1>2
  <2>2. IsMade(v)'
    <3>1. n > 0 /\ n \in Nat
      BY <1>3
    <3>2. toSend'[v] = n /\ asked'[v] = asked[v] /\ loaded'[v] = loaded[v] /\ countMap'[v] = countMap[v]
      BY <1>1, <2>1
    <3> QED BY <1>2, <3>1, <3>2 DEF IsMade, TilesUnderWay
  <2>3. countMap[v] = 0
    BY <1>2, <1>4 DEF IsMade, TilesUnderWay
  <2> QED BY <1>4, <2>1, <2>2, <2>3 DEF IsAwaited
<1>6. \A w \in View \ {v} : IsAwaited(w)' = IsAwaited(w) /\ tile'[w] = tile[w]
  <2>1. \A w \in View \ {v} : tile'[w] = tile[w] /\ toSend'[w] = toSend[w]
    BY <1>1, <1>2
  <2> QED BY <1>1, <2>1 DEF IsAwaited, IsMade, TilesUnderWay, IsStored
<1> HIDE DEF e
<1>7. BalanceInv'
  <2> SUFFICES ASSUME NEW q \in Level, NbReleasePyramid[q] # 0, NEW t \in AnyTile
               PROVE  Count(promised'[q], t) =
                        Cardinality(Unsent(q, t)') + Count(requests'[q], t)
                          + Cardinality(InMaking(q, t)')
    BY DEF BalanceInv, Balanced
  <2>1. Count(promised[q], t) =
          Cardinality(Unsent(q, t)) + Count(requests[q], t) + Cardinality(InMaking(q, t))
    BY DEF ServiceInv, BalanceInv, Balanced
  <2>2. Unsent(q, t)' = Unsent(q, t)
    BY <1>1, UnsentStays
  <2>3. Cardinality(InMaking(q, t)') =
          Cardinality(InMaking(q, t)) + (IF q = p /\ e = t THEN 1 ELSE 0)
    BY <1>1, <1>5, <1>6, MakingGains
  <2>4. /\ Count(requests[q], t) =
             Count(requests'[q], t) + (IF q = p /\ e = t THEN 1 ELSE 0)
        /\ Count(requests'[q], t) \in Nat
    <3>1. CASE q = p
      <4> DEFINE r == requests[q]
      <4>1. r \in Seq(AnyTile) /\ r # <<>> /\ e = Head(r)
        BY <1>1, <3>1, CountsAreNumbers DEF e
      <4>2. requests'[q] = Tail(r)
        BY <1>1, <1>2, <3>1
      <4> HIDE DEF r
      <4>3. Tail(r) \in Seq(AnyTile) /\ Count(r, t) = Count(Tail(r), t) + (IF Head(r) = t THEN 1 ELSE 0)
        BY <4>1, CountTail
      <4>4. Count(Tail(r), t) \in Nat
        BY <4>3, CountType
      <4> QED BY <3>1, <4>1, <4>2, <4>3, <4>4 DEF r
    <3>2. CASE q # p
      <4>1. requests'[q] = requests[q]
        BY <1>1, <1>2, <3>2
      <4> QED BY <3>2, <4>1, CountsAreNumbers
    <3> QED BY <3>1, <3>2
  <2> QED BY <2>1, <2>2, <2>3, <2>4, CountsAreNumbers
<1>8. OrderInv'
  BY <1>1, OrderStays DEF ServiceInv
<1>9. StoreInv'
  <2>1. \A w \in waitingList : w \in View \ {v}
    BY <1>2, <1>4 DEF TypeOK, IsStored
  <2> QED BY <1>1, <1>6, <2>1, StoreStays DEF ServiceInv
<1>10. MapInv'
  <2>1. \A w \in View : countMap[w] > 0 => w # v
    BY <1>5
  <2> QED BY <1>1, <1>6, <2>1 DEF ServiceInv, MapInv
<1>11. EndInv'
  BY <1>1, <1>2 DEF ServiceInv, EndInv
<1> QED BY <1>7, <1>8, <1>9, <1>10, <1>11 DEF ServiceInv
-----------------------------------------------------------------------------
(* The view counter sends out what was promised.                           *)

(* View v is sent out: its tile was promised, and is no longer.            *)
SentOut(v) ==
  /\ IsAwaited(v) /\ ~IsAwaited(v)'
  /\ \A w \in View \ {v} : IsAwaited(w)' = IsAwaited(w)
  /\ UNCHANGED <<tile, sending, sendingTo, requests>>
  /\ promised' = [promised EXCEPT ![LevelOf(v)] =
                    RemoveAt(@, FirstOf(@, tile[v]))]

LEMMA SentOutWasPromised ==
  ASSUME ServiceInv, Inv', NEW v \in View, SentOut(v)
  PROVE  LET p == LevelOf(v)
         IN  /\ NbReleasePyramid[p] # 0
             /\ FirstOf(promised[p], tile[v]) \in 1..Len(promised[p])
             /\ promised[p][FirstOf(promised[p], tile[v])] = tile[v]
             /\ promised' \in [Level -> Seq(AnyTile)]
             /\ BalanceInv'
             /\ PreserveOrder => p = 0
<1> DEFINE p == LevelOf(v)
           e == tile[v]
           i == FirstOf(promised[p], e)
<1>1. /\ p \in Level /\ e \in AnyTile /\ promised \in [Level -> Seq(AnyTile)]
      /\ promised' = [promised EXCEPT ![p] = RemoveAt(@, i)]
  BY Views DEF ServiceInv, Inv, TypeOK, SentOut
<1>2. NbReleasePyramid[p] # 0
  BY DEF SentOut, IsAwaited, ServiceInv, Inv, ReleaseCountsAgree
<1> HIDE DEF p, e
<1>3. \A q, t : Cardinality(InMaking(q, t)) =
                  Cardinality(InMaking(q, t)') + (IF q = p /\ e = t THEN 1 ELSE 0)
  <2>1. \A q, t : Cardinality(InMaking(q, t)) =
                    Cardinality(InMaking(q, t)')
                      + (IF q = LevelOf(v) /\ tile[v] = t THEN 1 ELSE 0)
    BY MakingLoses DEF SentOut
  <2> QED BY <2>1 DEF p, e
<1>4. \A q, t : Cardinality(InMaking(q, t)') \in Nat
  <2>1. \A q, t : InMaking(q, t)' \in SUBSET View
    BY DEF InMaking
  <2>2. \A q, t : IsFiniteSet(InMaking(q, t)')
    BY <2>1, ViewsFinite, FS_Subset
  <2> QED BY <2>2, FS_CardinalityType
<1>5. ASSUME NEW q \in Level, NbReleasePyramid[q] # 0, NEW t \in AnyTile
      PROVE  Count(promised[q], t) =
               Cardinality(Unsent(q, t)) + Count(requests[q], t) + Cardinality(InMaking(q, t))
  BY <1>5 DEF ServiceInv, BalanceInv, Balanced
<1>6. Count(promised[p], e) # 0
  <2>1. \A q, t : q = p /\ e = t => Cardinality(InMaking(q, t)) # 0
    BY <1>3, <1>4
  <2>2. Cardinality(InMaking(p, e)) # 0
    BY <2>1
  <2>3. Count(promised[p], e) =
          Cardinality(Unsent(p, e)) + Count(requests[p], e) + Cardinality(InMaking(p, e))
    BY <1>1, <1>2, <1>5
  <2> QED BY <1>1, <2>1, <2>2, <2>3, CountsAreNumbers
<1>7. i \in 1..Len(promised[p]) /\ promised[p][i] = e /\ promised[p] \in Seq(AnyTile)
  BY <1>1, <1>6, FirstOfFinds
<1> HIDE DEF i
<1>8. /\ RemoveAt(promised[p], i) \in Seq(AnyTile)
      /\ \A t : Count(promised[p], t) =
                  Count(RemoveAt(promised[p], i), t) + (IF e = t THEN 1 ELSE 0)
  BY <1>7, CountRemoveAt
<1>9. promised' \in [Level -> Seq(AnyTile)]
  BY <1>1, <1>8
<1>10. BalanceInv'
  <2> SUFFICES ASSUME NEW q \in Level, NbReleasePyramid[q] # 0, NEW t \in AnyTile
               PROVE  Count(promised'[q], t) =
                        Cardinality(Unsent(q, t)') + Count(requests'[q], t)
                          + Cardinality(InMaking(q, t)')
    BY DEF BalanceInv, Balanced
  <2>1. Unsent(q, t)' = Unsent(q, t) /\ requests'[q] = requests[q]
    BY UnsentStays DEF SentOut
  <2>2. /\ Count(promised[q], t) =
             Count(promised'[q], t) + (IF q = p /\ e = t THEN 1 ELSE 0)
        /\ Count(promised'[q], t) \in Nat
    <3>1. promised'[q] = IF q = p THEN RemoveAt(promised[q], i) ELSE promised[q]
      BY <1>1
    <3>2. promised'[q] \in Seq(AnyTile)
      BY <1>9
    <3>3. Count(promised'[q], t) \in Nat
      BY <3>2, CountType
    <3> QED BY <1>8, <3>1, <3>3
  <2>3. Cardinality(InMaking(q, t)) =
          Cardinality(InMaking(q, t)') + (IF q = p /\ e = t THEN 1 ELSE 0)
    BY <1>3
  <2>4. Cardinality(InMaking(q, t)') \in Nat
    BY <1>4
  <2> QED BY <1>5, <2>1, <2>2, <2>3, <2>4, CountsAreNumbers
<1>11. PreserveOrder => p = 0
  <2>1. SUFFICES ASSUME PreserveOrder, p # 0 PROVE FALSE
    OBVIOUS
  <2>2. promised[p] = <<>>
    BY <1>1, <2>1 DEF ServiceInv, OrderInv
  <2> QED BY <1>6, <2>2, CountEmpty
<1> QED BY <1>2, <1>7, <1>9, <1>10, <1>11 DEF p, e, i

(* A view that is sent because it is the next one is the first promised.   *)
LEMMA NextIsFirstPromised ==
  ASSUME ServiceInv, Inv', NEW v \in View, SentOut(v), PreserveOrder, IsNext(v),
         currentTraversal' = Tail(Current), queueTraversals' = Queued
  PROVE  FirstOf(promised[0], tile[v]) = 1 /\ OrderInv'
<1> DEFINE q == promised[0]
<1>1. /\ LevelOf(v) = 0 /\ NbReleasePyramid[0] # 0 /\ q \in Seq(AnyTile)
      /\ FirstOf(q, tile[v]) \in 1..Len(q) /\ q[FirstOf(q, tile[v])] = tile[v]
  BY SentOutWasPromised, Views DEF ServiceInv
<1>2. /\ Flattened(Current, Queued, q) /\ \A k \in 1..Len(Queued) : Queued[k] # <<>>
      /\ Current \in Seq(AnyTile) /\ Queued \in Seq(Seq(AnyTile))
      /\ Current # <<>> /\ Head(Current) = tile[v]
  BY <1>1, Normalised, TraversalTypes DEF ServiceInv, Inv, IsNext
<1>3. q # <<>> /\ Head(q) = tile[v] /\ Flattened(Tail(Current), Queued, Tail(q))
  BY <1>1, <1>2, FlattenedTail
<1> HIDE DEF q
<1>4. FirstOf(q, tile[v]) = 1
  <2>1. Head(q) = q[1]
    BY <1>1, <1>3
  <2>2. Count(q, tile[v]) # 0
    <3>1. Tail(q) \in Seq(AnyTile) /\ Count(q, tile[v]) = Count(Tail(q), tile[v]) + 1
      BY <1>1, <1>3, CountTail
    <3>2. Count(Tail(q), tile[v]) \in Nat
      BY <3>1, CountType
    <3> QED BY <3>1, <3>2
  <2> QED BY <1>1, <1>3, <2>1, <2>2, FirstOfFinds
<1>5. promised'[0] = Tail(q) /\ \A p \in Level \ {0} : promised'[p] = promised[p]
  <2>1. RemoveAt(q, 1) = Tail(q)
    BY <1>1, <1>3, CountTail
  <2>2. promised' = [promised EXCEPT ![0] = RemoveAt(q, 1)]
    BY <1>1, <1>4 DEF SentOut, q
  <2>3. promised \in [Level -> Seq(AnyTile)]
    BY DEF ServiceInv
  <2> QED BY <2>1, <2>2, <2>3, Views
<1>6. \A p \in Level \ {0} : promised[p] = <<>>
  BY DEF ServiceInv, OrderInv
<1>7. OrderInv'
  <2> SUFFICES /\ \A p \in Level \ {0} : promised'[p] = <<>>
               /\ \A k \in 1..Len(queueTraversals') : queueTraversals'[k] # <<>>
               /\ Flattened(currentTraversal', queueTraversals', promised'[0])
    BY DEF OrderInv, Flattened
  <2> QED BY <1>2, <1>3, <1>5, <1>6
<1> QED BY <1>4, <1>7 DEF q

(* The view that a step of the counter puts out.                           *)
LEMMA PutOut ==
  ASSUME TypeOK, NEW v \in View, output' = Append(output, v)
  PROVE  output' # output /\ Last(output') = v
<1>1. output \in Seq(View)
  BY DEF TypeOK
<1>2. /\ Len(Append(output, v)) = Len(output) + 1 /\ Len(output) \in Nat
      /\ Append(output, v)[Len(output) + 1] = v
  BY <1>1, AppendProperties, LenProperties
<1> QED BY <1>2 DEF Last

SentInTurn(v) ==
  /\ SentOut(v)
  /\ AddResult(v)
  /\ PreserveOrder => FirstOf(promised[0], tile[v]) = 1

LEMMA CountTileKeepsServiceInv ==
  ASSUME ServiceInv, Inv', NEW v \in View, Kept(LevelOf(v)), CountTile(v)
  PROVE  ServiceInv' /\ (output' = output \/ SentInTurn(v))
<1> DEFINE p == LevelOf(v)
<1>1. /\ TypeOK /\ output \in Seq(View) /\ countMap \in [View -> Nat]
      /\ \A w \in View : NumberTilesToLoad(LevelOf(w), tile[w]) \in Nat \ {0}
  BY Views, SomeTiles DEF ServiceInv, Inv, TypeOK
<1>2. /\ UNCHANGED <<memoryVars, userVars, requests, toSend, asked, uses>>
      /\ promised' = IF output' = output THEN promised
                     ELSE [promised EXCEPT ![p] =
                             RemoveAt(@, FirstOf(@, tile[Last(output')]))]
  BY DEF Kept, CounterStep
<1>3. UNCHANGED <<tile, requests, sending, sendingTo, finished>>
  BY <1>2 DEF memoryVars, userVars
<1>4. /\ IsMade(v) /\ v \notin waitingList /\ p \notin storing
      /\ \A w \in View \ {v} : IsMade(w)' = IsMade(w) /\ countMap'[w] = countMap[w]
      /\ \/ DataReady(v) /\ ~IsMade(v)' /\ countMap'[v] = 0
         \/ /\ UNCHANGED <<orderVars, output>>
            /\ IsMade(v)'
            /\ countMap'[v] = countMap[v] + 1
            /\ countMap[v] + 1 # NumberTilesToLoad(p, tile[v])
  BY <1>2, CountTileCases DEF ServiceInv
<1>5. MapInv'
  <2>1. ASSUME NEW w \in View, countMap'[w] > 0
        PROVE  countMap'[w] < NumberTilesToLoad(LevelOf(w), tile'[w])
    <3>1. countMap[w] > 0 => countMap[w] < NumberTilesToLoad(LevelOf(w), tile[w])
      BY DEF ServiceInv, MapInv
    <3>2. countMap[w] \in Nat /\ NumberTilesToLoad(LevelOf(w), tile[w]) \in Nat \ {0}
      BY <1>1
    <3>3. tile' = tile
      BY <1>3
    <3> DEFINE n == NumberTilesToLoad(LevelOf(w), tile[w])
    <3> HIDE DEF n
    <3>4. CASE w = v
      <4>1. countMap'[w] = countMap[w] + 1 /\ countMap[w] + 1 # n
        BY <1>4, <2>1, <3>4 DEF n
      <4>2. countMap'[w] < n
        BY <3>1, <3>2, <4>1 DEF n
      <4> QED BY <3>3, <4>2 DEF n
    <3>5. CASE w # v
      BY <1>4, <2>1, <3>1, <3>3, <3>5
    <3> QED BY <3>4, <3>5
  <2> QED BY <2>1 DEF MapInv
<1>6. EndInv'
  BY <1>3 DEF ServiceInv, EndInv
<1>7. CASE UNCHANGED <<orderVars, output>> /\ IsMade(v)'
  <2>1. \A w \in View : IsAwaited(w)' = IsAwaited(w)
    BY <1>4, <1>7 DEF IsAwaited, IsStored, orderVars
  <2>2. UNCHANGED <<storing, waitingList, queueTraversals, currentTraversal, output, promised>>
    BY <1>2, <1>7 DEF orderVars
  <2>3. ServiceInv'
    BY <1>3, <1>5, <1>6, <2>1, <2>2, QuietKeepsServiceInv
  <2> QED BY <2>2, <2>3
<1>8. IsAwaited(v)
  BY <1>4 DEF IsAwaited
<1>9. ASSUME ~IsMade(v)', AddResult(v), UNCHANGED waitingList
      PROVE  SentOut(v)
  <2>1. output' # output /\ Last(output') = v
    BY <1>1, <1>9, PutOut DEF AddResult
  <2>2. ~IsAwaited(v)'
    BY <1>4, <1>9 DEF IsAwaited, IsStored
  <2>3. \A w \in View \ {v} : IsAwaited(w)' = IsAwaited(w)
    BY <1>4, <1>9 DEF IsAwaited, IsStored
  <2> QED BY <1>2, <1>3, <1>8, <2>1, <2>2, <2>3 DEF SentOut
<1>10. CASE SendUnordered(v) /\ ~IsMade(v)'
  <2>1. UNCHANGED orderVars /\ AddResult(v) /\ ~Ordered(p)
    BY <1>10 DEF SendUnordered
  <2>2. SentOut(v)
    BY <1>9, <1>10, <2>1 DEF orderVars
  <2>3. /\ promised' \in [Level -> Seq(AnyTile)] /\ BalanceInv'
        /\ PreserveOrder => p = 0
    BY <2>2, SentOutWasPromised
  <2>4. ~PreserveOrder
    BY <2>1, <2>3 DEF Ordered
  <2>5. OrderInv'
    BY <2>4 DEF OrderInv
  <2>6. StoreInv'
    <3>1. storing' = storing /\ waitingList' = waitingList
      BY <2>1 DEF orderVars
    <3>2. storing = {} /\ waitingList = {}
      BY <2>4 DEF ServiceInv, StoreInv
    <3> QED BY <3>1, <3>2 DEF StoreInv
  <2> QED BY <1>5, <1>6, <2>1, <2>2, <2>3, <2>4, <2>5, <2>6 DEF ServiceInv, SentInTurn
<1>11. CASE SendNext(v) /\ ~IsMade(v)'
  <2>1. /\ PreserveOrder /\ p = 0 /\ IsNext(v) /\ AddResult(v)
        /\ currentTraversal' = Tail(Current) /\ queueTraversals' = Queued
        /\ storing' = storing \union {0} /\ waitingList' = waitingList
    BY <1>8, <1>11, ComparedWithNext DEF SendNext, Ordered
  <2>2. SentOut(v)
    BY <1>9, <1>11, <2>1
  <2>3. promised' \in [Level -> Seq(AnyTile)] /\ BalanceInv'
    BY <2>2, SentOutWasPromised
  <2>4. OrderInv' /\ FirstOf(promised[0], tile[v]) = 1
    BY <2>1, <2>2, NextIsFirstPromised
  <2>5. StoreInv'
    BY <2>1 DEF ServiceInv, StoreInv
  <2> QED BY <1>5, <1>6, <2>1, <2>2, <2>3, <2>4, <2>5 DEF ServiceInv, SentInTurn
<1>12. CASE Store(v) /\ ~IsMade(v)'
  <2>1. /\ PreserveOrder /\ p = 0 /\ ~IsNext(v) /\ output' = output
        /\ currentTraversal' = Current /\ queueTraversals' = Queued
        /\ storing' = storing /\ waitingList' = waitingList \union {v}
    BY <1>8, <1>12, ComparedWithNext DEF Store, Ordered
  <2>2. promised' = promised
    BY <1>2, <2>1
  <2>3. \A w \in View : IsAwaited(w)' <=> IsAwaited(w)
    <3>1. IsAwaited(v)'
      BY <2>1 DEF IsAwaited, IsStored
    <3>2. \A w \in View \ {v} : IsAwaited(w)' = IsAwaited(w)
      BY <1>4, <2>1 DEF IsAwaited, IsStored
    <3> QED BY <1>8, <3>1, <3>2
  <2>4. BalanceInv'
    <3>1. \A q, t : InMaking(q, t)' = InMaking(q, t)
      BY <1>3, <2>3, MakingStays
    <3>2. \A q, t : Unsent(q, t)' = Unsent(q, t)
      BY <1>3, UnsentStays
    <3> QED BY <1>3, <2>2, <3>1, <3>2 DEF ServiceInv, BalanceInv, Balanced
  <2>5. OrderInv'
    <3> SUFFICES /\ \A q \in Level \ {0} : promised'[q] = <<>>
                 /\ \A k \in 1..Len(queueTraversals') : queueTraversals'[k] # <<>>
                 /\ NbReleasePyramid[0] # 0 =>
                      Flattened(currentTraversal', queueTraversals', promised'[0])
      BY DEF OrderInv, Flattened
    <3> QED BY <2>1, <2>2, Normalised DEF ServiceInv, OrderInv
  <2>6. StoreInv'
    <3>1. Current' = Current
      BY <2>1, CurrentStays
    <3>2. 0 \notin storing
      BY <1>4, <2>1
    <3>3. \A w \in waitingList \union {v} : ~IsNext(w)
      BY <2>1, <3>2 DEF ServiceInv, StoreInv
    <3>4. \A w \in waitingList \union {v} : ~IsNext(w)'
      BY <1>3, <3>1, <3>3 DEF IsNext
    <3> QED BY <2>1, <3>4 DEF ServiceInv, StoreInv
  <2> QED BY <1>5, <1>6, <2>1, <2>2, <2>4, <2>5, <2>6 DEF ServiceInv
<1> QED BY <1>4, <1>7, <1>10, <1>11, <1>12 DEF DataReady

LEMMA HandleStoredViewKeepsServiceInv ==
  ASSUME ServiceInv, Inv', NEW p \in Level, NEW v \in View, Kept(p), HandleStoredView(p, v)
  PROVE  SentInTurn(v) /\ p = LevelOf(v) /\ ServiceInv'
<1>1. /\ UNCHANGED <<memoryVars, userVars, requests, toSend, asked, uses>>
      /\ promised' = IF output' = output THEN promised
                     ELSE [promised EXCEPT ![p] =
                             RemoveAt(@, FirstOf(@, tile[Last(output')]))]
  BY DEF Kept, CounterStep
<1>2. UNCHANGED <<tile, requests, sending, sendingTo, finished, toSend, asked>>
  BY <1>1 DEF memoryVars, userVars
<1>3. /\ p \in storing /\ v \in waitingList /\ IsNext(v)
      /\ output' = Append(output, v) /\ waitingList' = waitingList \ {v}
      /\ currentTraversal' = Tail(Current) /\ queueTraversals' = Queued
      /\ UNCHANGED <<loaded, countMap, storing>>
  <2>1. v \in waitingList /\ IsAwaited(v)
    BY DEF HandleStoredView, IsAwaited, IsStored
  <2>2. PreserveOrder /\ LevelOf(v) = 0
    BY <2>1, StoredHaveNext
  <2> QED BY <2>1, <2>2, ComparedWithNext DEF HandleStoredView, AddResult
<1>4. p = 0 /\ LevelOf(v) = 0 /\ PreserveOrder
  BY <1>3 DEF ServiceInv, StoreInv
<1>5. \A w \in View : IsMade(w)' = IsMade(w)
  BY <1>2, <1>3 DEF IsMade, TilesUnderWay
<1>6. ~IsMade(v)
  BY <1>3 DEF ServiceInv, Inv, OnePlacePerView, IsStored
<1>7. SentOut(v)
  <2>1. output' # output /\ Last(output') = v
    BY <1>3, PutOut DEF ServiceInv, Inv
  <2>2. IsAwaited(v) /\ ~IsAwaited(v)'
    BY <1>3, <1>5, <1>6 DEF IsAwaited, IsStored
  <2>3. \A w \in View \ {v} : IsAwaited(w)' = IsAwaited(w)
    BY <1>3, <1>5 DEF IsAwaited, IsStored
  <2> QED BY <1>1, <1>2, <1>4, <2>1, <2>2, <2>3 DEF SentOut
<1>8. promised' \in [Level -> Seq(AnyTile)] /\ BalanceInv'
  BY <1>7, SentOutWasPromised
<1>9. OrderInv' /\ FirstOf(promised[0], tile[v]) = 1
  BY <1>3, <1>4, <1>7, NextIsFirstPromised
<1>10. StoreInv'
  BY <1>3, <1>4 DEF ServiceInv, StoreInv
<1>11. MapInv' /\ EndInv'
  BY <1>2, <1>3 DEF ServiceInv, MapInv, EndInv
<1> QED BY <1>3, <1>4, <1>7, <1>8, <1>9, <1>10, <1>11 DEF ServiceInv, SentInTurn, AddResult

LEMMA NoStoredViewIsNextKeepsServiceInv ==
  ASSUME ServiceInv, Inv', NEW p \in Level, Kept(p), NoStoredViewIsNext(p)
  PROVE  ServiceInv'
<1>1. /\ UNCHANGED <<memoryVars, userVars, requests, toSend, asked, uses>>
      /\ output' = output => promised' = promised
  BY DEF Kept, CounterStep
<1>2. /\ p \in storing /\ \A v \in waitingList : ~IsNext(v)
      /\ storing' = storing \ {p}
      /\ currentTraversal' = Current /\ queueTraversals' = Queued
      /\ UNCHANGED <<loaded, countMap, waitingList, output>>
  <2>1. PICK front \in FrontTiles : \A v \in waitingList : ~ViewIsNext(v, front)
    BY DEF NoStoredViewIsNext
  <2>2. \A v \in waitingList : ~IsNext(v)
    BY <2>1 DEF FrontTiles, ViewIsNext, IsNext
  <2> QED BY <2>2 DEF NoStoredViewIsNext
<1>3. UNCHANGED <<tile, requests, sending, sendingTo, finished, toSend, asked, promised>>
  BY <1>1, <1>2 DEF memoryVars, userVars
<1>4. p = 0 /\ PreserveOrder
  BY <1>2 DEF ServiceInv, StoreInv
<1>5. \A v \in View : IsAwaited(v)' = IsAwaited(v)
  BY <1>2, <1>3 DEF IsAwaited, IsMade, TilesUnderWay, IsStored
<1>6. BalanceInv'
  <2>1. \A q, t : InMaking(q, t)' = InMaking(q, t)
    BY <1>3, <1>5, MakingStays
  <2>2. \A q, t : Unsent(q, t)' = Unsent(q, t)
    BY <1>3, UnsentStays
  <2> QED BY <1>3, <2>1, <2>2 DEF ServiceInv, BalanceInv, Balanced
<1>7. OrderInv'
  <2> SUFFICES /\ \A q \in Level \ {0} : promised'[q] = <<>>
               /\ \A k \in 1..Len(queueTraversals') : queueTraversals'[k] # <<>>
               /\ NbReleasePyramid[0] # 0 =>
                    Flattened(currentTraversal', queueTraversals', promised'[0])
    BY DEF OrderInv, Flattened
  <2> QED BY <1>2, <1>3, <1>4, Normalised DEF ServiceInv, OrderInv
<1>8. StoreInv'
  <2>1. Current' = Current
    BY <1>2, <1>4, CurrentStays
  <2>2. \A v \in waitingList : ~IsNext(v)'
    BY <1>2, <1>3, <2>1 DEF IsNext
  <2> QED BY <1>2, <1>4, <2>2 DEF ServiceInv, StoreInv
<1>9. MapInv' /\ EndInv'
  BY <1>2, <1>3 DEF ServiceInv, MapInv, EndInv
<1> QED BY <1>3, <1>6, <1>7, <1>8, <1>9 DEF ServiceInv

(* The start has nothing promised and nothing on its way.                  *)
LEMMA ServiceInvInit == ServiceInit => ServiceInv
<1> SUFFICES ASSUME ServiceInit PROVE ServiceInv
  OBVIOUS
<1>1. /\ Inv /\ promised = [p \in Level |-> <<>>]
      /\ sending = [u \in User |-> <<>>] /\ requests = [p \in Level |-> <<>>]
      /\ toSend = [v \in View |-> 0] /\ asked = [v \in View |-> 0]
      /\ loaded = [v \in View |-> 0] /\ countMap = [v \in View |-> 0]
      /\ storing = {} /\ waitingList = {} /\ finished = FALSE
      /\ queueTraversals = <<>> /\ currentTraversal = <<>>
  BY InvInit DEF ServiceInit, Init, CounterInit
<1>2. promised \in [Level -> Seq(AnyTile)]
  BY <1>1
<1>3. BalanceInv
  <2>1. \A v \in View : ~IsAwaited(v)
    BY <1>1 DEF IsAwaited, IsMade, TilesUnderWay, IsStored
  <2>2. \A q, t : InMaking(q, t) = {}
    BY <2>1 DEF InMaking
  <2>3. \A u \in User : Len(sending[u]) = 0
    BY <1>1
  <2>4. \A q, t : Unsent(q, t) = {}
    BY <2>3 DEF Unsent
  <2>5. \A q \in Level : promised[q] = <<>> /\ requests[q] = <<>>
    BY <1>1
  <2>6. \A q \in Level : \A t : Count(promised[q], t) = 0 /\ Count(requests[q], t) = 0
    BY <2>5, CountEmpty
  <2>7. Cardinality({}) = 0
    BY FS_EmptySet
  <2> QED BY <2>2, <2>4, <2>6, <2>7 DEF BalanceInv, Balanced
<1>4. OrderInv
  <2>1. Len(<<>>) = 0
    OBVIOUS
  <2>2. Flattened(<<>>, <<>>, <<>>)
    <3> DEFINE starts == [k \in 1..1 |-> 0]
    <3>1. starts \in [1..1 -> 0..0] /\ starts[1] = 0
      OBVIOUS
    <3>2. /\ starts \in [1..0 + 1 -> 0..0] /\ starts[1] = 0 /\ starts[0 + 1] = 0
          /\ \A k, m \in 1..0 + 1 : k <= m => starts[k] <= starts[m]
      BY <3>1
    <3> HIDE DEF starts
    <3> QED BY <2>1, <3>2 DEF Flattened
  <2>3. promised[0] = <<>> /\ \A p \in Level \ {0} : promised[p] = <<>>
    BY <1>1, Views
  <2> QED BY <1>1, <2>1, <2>2, <2>3 DEF OrderInv
<1>5. StoreInv
  BY <1>1 DEF StoreInv
<1>6. MapInv
  BY <1>1 DEF MapInv
<1>7. EndInv
  BY <1>1 DEF EndInv
<1> QED BY <1>1, <1>2, <1>3, <1>4, <1>5, <1>6, <1>7 DEF ServiceInv

(* A step with the history is a step.                                      *)
LEMMA ServiceStepIsStep == [ServiceNext]_serviceVars => [Next]_vars
<1>1. ASSUME NEW u \in User, NEW c \in Traversals, Promised(u, c[1], c[2]) PROVE Next
  BY <1>1 DEF Promised, Next, Asks
<1>2. ASSUME NEW p \in Level, Kept(p) PROVE Next
  BY <1>2 DEF Kept, Next, Counts
<1> QED BY <1>1, <1>2 DEF ServiceNext, serviceVars, Next

LEMMA MovesKeepServiceInv ==
  ASSUME ServiceInv, Inv', UNCHANGED promised,
         Moves \/ UNCHANGED vars
  PROVE  ServiceInv'
<1>1. TypeOK /\ MapInv /\ EndInv
  BY DEF ServiceInv, Inv
<1>2. ASSUME UNCHANGED <<tile, countMap, storing, waitingList, queueTraversals,
                         currentTraversal, sending, sendingTo, requests>>,
             EndInv',
             \A v \in View : TilesUnderWay(v)' = TilesUnderWay(v)
      PROVE  ServiceInv'
  <2>1. \A v \in View : IsAwaited(v)' <=> IsAwaited(v)
    BY <1>2 DEF IsAwaited, IsMade, IsStored
  <2>2. MapInv'
    BY <1>1, <1>2 DEF MapInv
  <2> QED BY <1>2, <2>1, <2>2, QuietKeepsServiceInv
<1>3. ASSUME NEW u \in User, SendRequest(u) PROVE ServiceInv'
  BY <1>3, SendRequestKeepsServiceInv
<1>4. CASE FinishedRequestingTiles
  <2>1. /\ \A u \in User : sending[u] = <<>>
        /\ UNCHANGED <<tile, countMap, storing, waitingList, queueTraversals, currentTraversal,
                       sending, sendingTo, requests, toSend, asked, loaded>>
    BY <1>4 DEF FinishedRequestingTiles, memoryVars, counterVars, orderVars
  <2> QED BY <1>2, <2>1 DEF EndInv, TilesUnderWay
<1>5. CASE GetAvailableView
  <2>1. UNCHANGED <<tile, countMap, storing, waitingList, queueTraversals, currentTraversal,
                    sending, sendingTo, finished, requests, toSend, asked, loaded>>
    BY <1>5 DEF GetAvailableView, memoryVars, orderVars, userVars
  <2> QED BY <1>1, <1>2, <2>1 DEF EndInv, TilesUnderWay
<1>6. ASSUME NEW v \in View, ReleaseView(v) PROVE ServiceInv'
  <2>1. UNCHANGED <<tile, countMap, storing, waitingList, queueTraversals, currentTraversal,
                    sending, sendingTo, finished, requests, toSend, asked, loaded>>
    BY <1>6 DEF ReleaseView, ReleaseMemory, counterVars, orderVars, userVars
  <2> QED BY <1>1, <1>2, <2>1 DEF EndInv, TilesUnderWay
<1>7. ASSUME NEW p \in Level, ViewLoaderStep(p) PROVE ServiceInv'
  <2>1. CASE DropRequest(p)
    BY <2>1, DropRequestKeepsServiceInv
  <2>2. ASSUME NEW v \in View, LoadView(p, v) PROVE ServiceInv'
    BY <2>2, LoadViewKeepsServiceInv
  <2>3. ASSUME NEW v \in View, SendTileRequest(v) PROVE ServiceInv'
    <3>1. /\ toSend[v] > 0
          /\ toSend' = [toSend EXCEPT ![v] = @ - 1]
          /\ asked' = [asked EXCEPT ![v] = @ + 1]
          /\ UNCHANGED <<tile, countMap, storing, waitingList, queueTraversals,
                         currentTraversal, sending, sendingTo, finished, requests, loaded>>
      BY <2>3 DEF SendTileRequest, memoryVars, counterVars, orderVars, userVars
    <3>2. \A w \in View : toSend'[w] + asked'[w] = toSend[w] + asked[w]
      BY <1>1, <3>1 DEF TypeOK
    <3>3. \A w \in View : TilesUnderWay(w)' = TilesUnderWay(w)
      BY <1>1, <3>1, <3>2 DEF TypeOK, TilesUnderWay
    <3> QED BY <1>1, <1>2, <3>1, <3>3 DEF EndInv
  <2> QED BY <1>7, <2>1, <2>2, <2>3 DEF ViewLoaderStep
<1>8. ASSUME NEW v \in View, TileLoaderStep(v) PROVE ServiceInv'
  <2>1. /\ asked[v] > 0
        /\ asked' = [asked EXCEPT ![v] = @ - 1]
        /\ loaded' = [loaded EXCEPT ![v] = @ + 1]
        /\ UNCHANGED <<tile, countMap, storing, waitingList, queueTraversals,
                       currentTraversal, sending, sendingTo, finished, requests, toSend>>
    BY <1>8 DEF TileLoaderStep, memoryVars, orderVars, userVars
  <2>2. ASSUME NEW w \in View PROVE TilesUnderWay(w)' = TilesUnderWay(w)
    <3>1. /\ toSend[w] \in Nat /\ asked[w] \in Nat /\ loaded[w] \in Nat /\ countMap[w] \in Nat
          /\ asked \in [View -> Nat] /\ loaded \in [View -> Nat]
      BY <1>1 DEF TypeOK
    <3>2. asked'[w] + loaded'[w] = asked[w] + loaded[w] /\ asked'[w] \in Int /\ loaded'[w] \in Int
      BY <2>1, <3>1
    <3> QED BY <2>1, <3>1, <3>2 DEF TilesUnderWay
  <2> QED BY <1>1, <1>2, <2>1, <2>2 DEF EndInv
<1>9. CASE UNCHANGED vars
  <2>1. UNCHANGED <<tile, countMap, storing, waitingList, queueTraversals, currentTraversal,
                    sending, sendingTo, finished, requests, toSend, asked, loaded>>
    BY <1>9 DEF vars, memoryVars, counterVars, orderVars, userVars
  <2> QED BY <1>1, <1>2, <2>1 DEF EndInv, TilesUnderWay
<1> QED BY <1>3, <1>4, <1>5, <1>6, <1>7, <1>8, <1>9 DEF Moves

LEMMA ServiceNextKeepsServiceInv ==
  ASSUME OrderIsOfLevelZero
  PROVE  ServiceInv /\ [ServiceNext]_serviceVars => ServiceInv'
<1> SUFFICES ASSUME ServiceInv, [ServiceNext]_serviceVars PROVE ServiceInv'
  OBVIOUS
<1>1. Inv'
  BY ServiceStepIsStep, NextKeepsInv DEF ServiceInv
<1>2. ASSUME NEW u \in User, NEW c \in Traversals, Promised(u, c[1], c[2]) PROVE ServiceInv'
  BY <1>1, <1>2, PromisedKeepsServiceInv
<1>3. ASSUME NEW p \in Level, Kept(p) PROVE ServiceInv'
  <2>1. ASSUME NEW v \in View, LevelOf(v) = p, CountTile(v) PROVE ServiceInv'
    BY <1>1, <1>3, <2>1, CountTileKeepsServiceInv
  <2>2. ASSUME NEW v \in View, HandleStoredView(p, v) PROVE ServiceInv'
    BY <1>1, <1>3, <2>2, HandleStoredViewKeepsServiceInv
  <2>3. CASE NoStoredViewIsNext(p)
    BY <1>1, <1>3, <2>3, NoStoredViewIsNextKeepsServiceInv
  <2>4. ViewCounterStep(p)
    BY <1>3 DEF Kept, CounterStep
  <2> QED BY <2>1, <2>2, <2>3, <2>4 DEF ViewCounterStep
<1>4. CASE Moves /\ UNCHANGED promised
  BY <1>1, <1>4, MovesKeepServiceInv
<1>5. CASE Done /\ UNCHANGED promised
  BY <1>1, <1>5, MovesKeepServiceInv DEF Done
<1>6. CASE UNCHANGED serviceVars
  BY <1>1, <1>6, MovesKeepServiceInv DEF serviceVars
<1> QED BY <1>2, <1>3, <1>4, <1>5, <1>6 DEF ServiceNext

(* As long as the users who want the order ask for views of level 0 only:  *)
(* at each level, every tile is promised as often as it is to be sent,     *)
(* requested, made or stored; what is promised at level 0 is what the      *)
(* traversals of the view counter still have, in their order; and a stored *)
(* view is never the next one unless the counter is about to look.         *)
THEOREM ServiceInvariance ==
  ASSUME OrderIsOfLevelZero
  PROVE  ServiceSpec => []ServiceInv
<1>1. ServiceInit => ServiceInv
  BY ServiceInvInit
<1>2. ServiceInv /\ [ServiceNext]_serviceVars => ServiceInv'
  BY ServiceNextKeepsServiceInv
<1> QED BY <1>1, <1>2, PTL DEF ServiceSpec

(* When all has been sent and requested, the next view has been made; if   *)
(* it is not out it is stored, and would have been sent when it became the *)
(* next one.                                                               *)
LEMMA NothingIsWaited == ServiceInv => NothingLeftBehind
<1> SUFFICES ASSUME ServiceInv, OutputTerminated
             PROVE  waitingList = {} /\ \A v \in View : ~IsMade(v)
  BY DEF NothingLeftBehind
<1>1. /\ finished
      /\ \A p \in Level : requests[p] = <<>> /\ p \notin storing
      /\ \A v \in View : toSend[v] = 0 /\ asked[v] = 0 /\ loaded[v] = 0
  BY DEF OutputTerminated
<1>2. ASSUME NEW v \in View, IsMade(v) PROVE FALSE
  <2>1. countMap[v] \in Nat
    BY DEF ServiceInv, Inv, TypeOK
  <2>2. TilesUnderWay(v) = countMap[v]
    BY <1>1, <2>1 DEF TilesUnderWay
  <2>3. countMap[v] = NumberTilesToLoad(LevelOf(v), tile[v])
    BY <1>2, <2>2 DEF ServiceInv, Inv, EveryTileIsCounted
  <2>4. countMap[v] > 0
    BY <1>2, <2>2 DEF IsMade
  <2>5. countMap[v] < NumberTilesToLoad(LevelOf(v), tile[v])
    BY <2>4 DEF ServiceInv, MapInv
  <2> QED BY <2>1, <2>3, <2>5
<1>3. ASSUME NEW v \in waitingList PROVE FALSE
  <2> DEFINE q == promised[0]
             h == Head(Current)
  <2>1. PreserveOrder /\ NbReleasePyramid[0] # 0 /\ Current # <<>>
    BY StoredHaveNext
  <2>2. /\ Flattened(Current, Queued, q) /\ q \in Seq(AnyTile)
        /\ Current \in Seq(AnyTile) /\ Queued \in Seq(Seq(AnyTile))
    BY <2>1, Normalised, TraversalTypes, Views DEF ServiceInv, Inv
  <2>3. q # <<>> /\ Head(q) = h
    BY <2>1, <2>2, FlattenedTail
  <2>4. h \in AnyTile
    BY <2>1, <2>2, HeadTailProperties
  <2> HIDE DEF q, h
  <2>5. Count(q, h) # 0
    <3>1. Tail(q) \in Seq(AnyTile) /\ Count(q, h) = Count(Tail(q), h) + 1
      BY <2>2, <2>3, CountTail
    <3>2. Count(Tail(q), h) \in Nat
      BY <3>1, CountType
    <3> QED BY <3>1, <3>2
  <2>6. Cardinality(Unsent(0, h)) = 0
    <3>1. \A u \in User : Len(sending[u]) = 0
      BY <1>1 DEF ServiceInv, EndInv
    <3>2. Unsent(0, h) = {}
      BY <3>1 DEF Unsent
    <3> QED BY <3>2, FS_EmptySet
  <2>7. Count(requests[0], h) = 0
    BY <1>1, Views, CountEmpty
  <2>8. Cardinality(InMaking(0, h)) # 0
    <3>1. Balanced(0)
      BY <2>1, Views DEF ServiceInv, BalanceInv
    <3>2. Count(q, h) = Cardinality(Unsent(0, h)) + Count(requests[0], h) + Cardinality(InMaking(0, h))
      BY <2>4, <3>1 DEF Balanced, q
    <3> QED BY <2>5, <2>6, <2>7, <3>2
  <2>9. PICK w \in View : IsAwaited(w) /\ tile[w] = h
    <3>1. InMaking(0, h) # {}
      BY <2>8, FS_EmptySet
    <3> QED BY <3>1 DEF InMaking
  <2>10. w \in waitingList
    BY <1>2, <2>9 DEF IsAwaited, IsStored
  <2>11. IsNext(w)
    BY <2>1, <2>9 DEF IsNext, h
  <2> QED BY <1>1, <2>10, <2>11, Views DEF ServiceInv, StoreInv
<1> QED BY <1>2, <1>3

(* When the users are told that the graph has ended, no view waits in it   *)
(* for one that will not come (the _waitingList of ViewCounter.h) and none *)
(* misses a tile, for any order the tile loaders finish in.                *)
THEOREM NothingIsLeftBehind ==
  ASSUME OrderIsOfLevelZero
  PROVE  ServiceSpec => []NothingLeftBehind
<1>1. ServiceSpec => []ServiceInv
  BY ServiceInvariance
<1>2. ServiceInv => NothingLeftBehind
  BY NothingIsWaited
<1> QED BY <1>1, <1>2, PTL

(* While a view of level 0 is made or stored and the order is kept, there   *)
(* is a traversal with a tile left to compare it with: dataReady and        *)
(* handleStoredViews never compare a view with the front of an empty        *)
(* _currentTraversal and never pop one.  What handleStoredViews reads of it *)
(* behind the last view is not used.                                       *)
TraversalLeft ==
  PreserveOrder =>
    \A v \in View : LevelOf(v) = 0 /\ (IsMade(v) \/ IsStored(v)) => Current # <<>>

THEOREM ATraversalIsLeft ==
  ASSUME OrderIsOfLevelZero
  PROVE  ServiceSpec => []TraversalLeft
<1>1. ServiceSpec => []ServiceInv
  BY ServiceInvariance
<1>2. ServiceInv => TraversalLeft
  BY AwaitedHaveNext DEF TraversalLeft, IsAwaited
<1> QED BY <1>1, <1>2, PTL
-----------------------------------------------------------------------------
(* What the users see of the views.                                        *)

(* The views that are ready, as the users see them.                        *)
ReadyAgrees ==
  /\ Ready \in Seq(Level \X AnyTile)
  /\ Len(Ready) = Len(output) /\ Len(output) \in Nat
  /\ \A i \in 1..Len(output) : Ready[i] = <<LevelOf(output[i]), tile[output[i]]>>

LEMMA ReadyIsOutput == TypeOK => ReadyAgrees
<1> SUFFICES ASSUME TypeOK PROVE ReadyAgrees
  OBVIOUS
<1> DEFINE n == Len(output)
<1>1. output \in Seq(View) /\ n \in Nat
  BY LenProperties DEF TypeOK
<1>2. \A i \in 1..n : output[i] \in View
  BY <1>1, ElementOfSeq
<1>3. \A i \in 1..n : <<LevelOf(output[i]), tile[output[i]]>> \in Level \X AnyTile
  BY <1>2, Views DEF TypeOK
<1>4. Ready = [i \in 1..n |-> <<LevelOf(output[i]), tile[output[i]]>>]
  BY DEF Ready
<1> HIDE DEF n
<1>5. Ready \in [1..n -> Level \X AnyTile]
  BY <1>3, <1>4
<1>6. Ready \in Seq(Level \X AnyTile) /\ Len(Ready) = n
  <2> DEFINE r == Ready
  <2>1. r \in [1..n -> Level \X AnyTile]
    BY <1>5
  <2> HIDE DEF r
  <2>2. r \in Seq(Level \X AnyTile) /\ Len(r) = n
    BY <1>1, <2>1
  <2> QED BY <2>2 DEF r
<1> QED BY <1>1, <1>4, <1>6 DEF n, ReadyAgrees

LEMMA ReadyIsOutputNext == TypeOK' => ReadyAgrees'
BY ReadyIsOutput, PTL

LEMMA ReadyStays ==
  ASSUME TypeOK, output' = output, \A v \in Elems(output) : tile'[v] = tile[v]
  PROVE  Ready' = Ready
<1>1. \A i \in 1..Len(output) : tile'[output[i]] = tile[output[i]]
  BY DEF Elems
<1> QED BY <1>1 DEF Ready

LEMMA ReadyGains ==
  ASSUME TypeOK, TypeOK', NEW v \in View, output' = Append(output, v), tile' = tile
  PROVE  Ready' = Append(Ready, <<LevelOf(v), tile[v]>>)
<1> DEFINE e == <<LevelOf(v), tile[v]>>
           S == Level \X AnyTile
<1>1. /\ Ready \in Seq(S) /\ Len(Ready) = Len(output) /\ Len(output) \in Nat
      /\ \A i \in 1..Len(output) : Ready[i] = <<LevelOf(output[i]), tile[output[i]]>>
  BY ReadyIsOutput DEF ReadyAgrees
<1>2. /\ Ready' \in Seq(S) /\ Len(Ready') = Len(output')
      /\ \A i \in 1..Len(output') : Ready'[i] = <<LevelOf(output'[i]), tile'[output'[i]]>>
  BY ReadyIsOutputNext DEF ReadyAgrees
<1>3. e \in S
  BY Views DEF TypeOK
<1>4. output \in Seq(View)
  BY DEF TypeOK
<1>5. /\ Len(output') = Len(output) + 1
      /\ \A i \in 1..Len(output) : output'[i] = output[i]
      /\ output'[Len(output) + 1] = v
  BY <1>4, AppendProperties
<1> DEFINE r == Ready
           more == Ready'
<1>6. r \in Seq(S) /\ more \in Seq(S) /\ Len(r) \in Nat /\ Len(more) = Len(r) + 1
  BY <1>1, <1>2, <1>5
<1>7. \A i \in 1..Len(r) : more[i] = r[i]
  <2> TAKE i \in 1..Len(r)
  <2>1. i \in 1..Len(output) /\ i \in 1..Len(output')
    BY <1>1, <1>5
  <2> QED BY <1>1, <1>2, <1>5, <2>1
<1>8. more[Len(r) + 1] = e
  <2>1. Len(r) + 1 \in 1..Len(output') /\ output'[Len(r) + 1] = v
    BY <1>1, <1>5
  <2> QED BY <1>2, <2>1
<1> HIDE DEF r, more, e, S
<1>9. /\ Append(r, e) \in Seq(S) /\ Len(Append(r, e)) = Len(r) + 1
      /\ \A i \in 1..Len(r) : Append(r, e)[i] = r[i]
      /\ Append(r, e)[Len(r) + 1] = e
  BY <1>3, <1>6, AppendProperties
<1>10. \A i \in 1..Len(more) : more[i] = Append(r, e)[i]
  BY <1>6, <1>7, <1>8, <1>9
<1>11. more = Append(r, e)
  BY <1>6, <1>9, <1>10, SeqEqual
<1> QED BY <1>11 DEF more, r, e

LEMMA ReadyLoses ==
  ASSUME TypeOK, TypeOK', output # <<>>, output' = Tail(output), tile' = tile
  PROVE  /\ Ready # <<>> /\ Ready' = Tail(Ready)
         /\ Head(Ready) = <<LevelOf(Head(output)), tile[Head(output)]>>
<1> DEFINE S == Level \X AnyTile
<1>1. /\ Ready \in Seq(S) /\ Len(Ready) = Len(output) /\ Len(output) \in Nat
      /\ \A i \in 1..Len(output) : Ready[i] = <<LevelOf(output[i]), tile[output[i]]>>
  BY ReadyIsOutput DEF ReadyAgrees
<1>2. /\ Ready' \in Seq(S) /\ Len(Ready') = Len(output')
      /\ \A i \in 1..Len(output') : Ready'[i] = <<LevelOf(output'[i]), tile'[output'[i]]>>
  BY ReadyIsOutputNext DEF ReadyAgrees
<1>3. output \in Seq(View) /\ Len(output) # 0
  BY EmptySeq DEF TypeOK
<1>4. /\ Len(output') = Len(output) - 1 /\ Head(output) = output[1]
      /\ \A i \in 1..Len(output) - 1 : output'[i] = output[i + 1]
  BY <1>3, HeadTailProperties
<1> DEFINE r == Ready
           less == Ready'
<1>5. r \in Seq(S) /\ less \in Seq(S) /\ Len(r) \in Nat \ {0} /\ Len(less) = Len(r) - 1
  BY <1>1, <1>2, <1>3, <1>4
<1>6. \A i \in 1..Len(less) : less[i] = r[i + 1]
  <2> TAKE i \in 1..Len(less)
  <2>1. i \in 1..Len(output') /\ i + 1 \in 1..Len(output) /\ i \in 1..Len(output) - 1
    BY <1>1, <1>4, <1>5
  <2> QED BY <1>1, <1>2, <1>4, <2>1
<1>7. r[1] = <<LevelOf(Head(output)), tile[Head(output)]>>
  <2>1. 1 \in 1..Len(output)
    BY <1>1, <1>3
  <2> QED BY <1>1, <1>4, <2>1
<1> HIDE DEF r, less, S
<1>8. r # <<>>
  BY <1>5
<1>9. /\ Tail(r) \in Seq(S) /\ Len(Tail(r)) = Len(r) - 1 /\ Head(r) = r[1]
      /\ \A i \in 1..Len(r) - 1 : Tail(r)[i] = r[i + 1]
  BY <1>5, <1>8, HeadTailProperties
<1>10. \A i \in 1..Len(less) : less[i] = Tail(r)[i]
  BY <1>5, <1>6, <1>9
<1>11. less = Tail(r)
  BY <1>5, <1>9, <1>10, SeqEqual
<1> QED BY <1>7, <1>8, <1>9, <1>11 DEF r, less

-----------------------------------------------------------------------------
(* The number of views of a level.                                         *)

ViewsOf(p) == {v \in View : LevelOf(v) = p}
LentOf(p) == {v \in View : LevelOf(v) = p /\ IsLent(v)}
ReadyOf(p) == {v \in View : LevelOf(v) = p /\ IsReady(v)}

LEMMA ViewsOfLevel ==
  ASSUME NEW p \in Level
  PROVE  IsFiniteSet(ViewsOf(p)) /\ Cardinality(ViewsOf(p)) = MemoryPoolSize(p)
<1> DEFINE n == MemoryPoolSize(p)
           f == [i \in 1..n |-> <<p, i>>]
<1>1. /\ n \in Nat
      /\ \A i \in 1..n : <<p, i>> \in ViewsOf(p)
      /\ \A v \in ViewsOf(p) : \E i \in 1..n : v = <<p, i>>
  BY Views DEF ViewsOf
<1> HIDE DEF n
<1>2. f \in Bijection(1..n, ViewsOf(p))
  BY <1>1 DEF Bijection, Injection, Surjection, IsInjective
<1> HIDE DEF f
<1>3. ExistsBijection(1..n, ViewsOf(p))
  BY <1>2 DEF ExistsBijection
<1>4. IsFiniteSet(1..n) /\ Cardinality(1..n) = n
  <2>1. 1 \in Int /\ n \in Int /\ (1 > n => n = 0) /\ n - 1 + 1 = n
    BY <1>1
  <2>2. /\ IsFiniteSet(1..n)
        /\ Cardinality(1..n) = IF 1 > n THEN 0 ELSE n - 1 + 1
    BY <2>1, FS_Interval
  <2> QED BY <2>1, <2>2
<1> QED BY <1>3, <1>4, FS_Bijection DEF n

(* The places in the output of the views of a level are as many as they.   *)
LEMMA ReadyPlaces ==
  ASSUME TypeOK, NoRepeat(output), NEW p \in Level
  PROVE  Cardinality({i \in 1..Len(Ready) : Ready[i][1] = p}) = Cardinality(ReadyOf(p))
<1> DEFINE n == Len(output)
           A == {i \in 1..n : LevelOf(output[i]) = p}
           f == [i \in A |-> output[i]]
<1>1. /\ Len(Ready) = n /\ n \in Nat /\ output \in Seq(View)
      /\ \A i \in 1..n : Ready[i] = <<LevelOf(output[i]), tile[output[i]]>> /\ output[i] \in View
  <2>1. output \in Seq(View)
    BY DEF TypeOK
  <2>2. \A i \in 1..n : output[i] \in View
    BY <2>1, ElementOfSeq
  <2> QED BY <2>1, <2>2, ReadyIsOutput DEF ReadyAgrees
<1> HIDE DEF n
<1>2. {i \in 1..Len(Ready) : Ready[i][1] = p} = A
  BY <1>1
<1>3. IsFiniteSet(A)
  <2>1. A \in SUBSET (1..n)
    OBVIOUS
  <2>2. IsFiniteSet(1..n)
    <3>1. 1 \in Int /\ n \in Int
      BY <1>1
    <3> QED BY <3>1, FS_Interval
  <2> QED BY <2>1, <2>2, FS_Subset
<1>4. f \in [A -> ReadyOf(p)]
  BY <1>1 DEF ReadyOf, IsReady, Elems, n
<1>5. \A v \in ReadyOf(p) : \E i \in A : f[i] = v
  BY DEF ReadyOf, IsReady, Elems, n
<1>6. \A i, j \in A : f[i] = f[j] => i = j
  BY DEF NoRepeat, n
<1> HIDE DEF f, A
<1>7. f \in Bijection(A, ReadyOf(p))
  BY <1>4, <1>5, <1>6 DEF Bijection, Injection, Surjection, IsInjective
<1>8. ExistsBijection(A, ReadyOf(p))
  BY <1>7 DEF ExistsBijection
<1> QED BY <1>2, <1>3, <1>8, FS_Bijection

(* As long as a view is with the counter, not all views are with the users. *)
LEMMA RoomForOneMore ==
  ASSUME Inv, NEW v \in View, IsAwaited(v)
  PROVE  Lent[LevelOf(v)]
           + Cardinality({i \in 1..Len(Ready) : Ready[i][1] = LevelOf(v)})
           < MemoryPoolSize(LevelOf(v))
<1> DEFINE p == LevelOf(v)
<1>1. p \in Level /\ TypeOK /\ NoRepeat(output)
  BY Views DEF Inv, OnePlacePerView
<1>2. Lent[p] = Cardinality(LentOf(p))
  BY <1>1 DEF Lent, LentOf
<1>3. Cardinality({i \in 1..Len(Ready) : Ready[i][1] = p}) = Cardinality(ReadyOf(p))
  BY <1>1, ReadyPlaces
<1>4. IsFiniteSet(ViewsOf(p)) /\ Cardinality(ViewsOf(p)) = MemoryPoolSize(p)
  BY <1>1, ViewsOfLevel
<1>5. /\ LentOf(p) \in SUBSET ViewsOf(p) /\ ReadyOf(p) \in SUBSET ViewsOf(p)
      /\ LentOf(p) \cap ReadyOf(p) = {}
      /\ v \in ViewsOf(p) /\ v \notin LentOf(p) /\ v \notin ReadyOf(p)
  BY DEF LentOf, ReadyOf, ViewsOf, Inv, OnePlacePerView, IsAwaited
<1> HIDE DEF p
<1>6. IsFiniteSet(LentOf(p)) /\ Cardinality(LentOf(p)) \in Nat
  BY <1>4, <1>5, FS_Subset, FS_CardinalityType
<1>7. IsFiniteSet(ReadyOf(p)) /\ Cardinality(ReadyOf(p)) \in Nat
  BY <1>4, <1>5, FS_Subset, FS_CardinalityType
<1> DEFINE both == LentOf(p) \union ReadyOf(p)
<1>8. IsFiniteSet(both) /\ Cardinality(both) = Cardinality(LentOf(p)) + Cardinality(ReadyOf(p))
  <2>1. /\ IsFiniteSet(both)
        /\ Cardinality(both) =
             Cardinality(LentOf(p)) + Cardinality(ReadyOf(p)) - Cardinality({})
    BY <1>5, <1>6, <1>7, FS_Union
  <2> QED BY <1>6, <1>7, <2>1, FS_EmptySet
<1>9. both \union {v} \in SUBSET ViewsOf(p) /\ v \notin both
  BY <1>5
<1> HIDE DEF both
<1>10. Cardinality(both \union {v}) = Cardinality(both) + 1
  BY <1>8, <1>9, FS_AddElement
<1>11. Cardinality(both \union {v}) <= MemoryPoolSize(p)
  BY <1>4, <1>9, FS_Subset
<1>12. MemoryPoolSize(p) \in Nat
  BY <1>1, Views
<1> QED BY <1>2, <1>3, <1>6, <1>7, <1>8, <1>10, <1>11, <1>12 DEF p
-----------------------------------------------------------------------------
(* The views that the users have.                                          *)

LEMMA LentStays ==
  ASSUME \A v \in View : IsLent(v)' <=> IsLent(v)
  PROVE  Lent' = Lent
<1>1. \A p : {v \in View : LevelOf(v) = p /\ IsLent(v)}' =
             {v \in View : LevelOf(v) = p /\ IsLent(v)}
  OBVIOUS
<1> QED BY <1>1 DEF Lent

LEMMA LentChanges ==
  ASSUME NEW v \in View, NEW d \in Int,
         \A w \in View \ {v} : IsLent(w)' <=> IsLent(w),
         \/ ~IsLent(v) /\ IsLent(v)' /\ d = 1
         \/ IsLent(v) /\ ~IsLent(v)' /\ d = -1
  PROVE  /\ Lent' = [Lent EXCEPT ![LevelOf(v)] = @ + d]
         /\ IsLent(v) => Lent[LevelOf(v)] > 0
<1> DEFINE p == LevelOf(v)
<1>1. p \in Level
  BY Views
<1>2. \A q \in Level : /\ Lent[q] = Cardinality(LentOf(q))
                       /\ Lent'[q] = Cardinality(LentOf(q)')
  BY DEF Lent, LentOf
<1>3. \A q \in Level : q # p => LentOf(q)' = LentOf(q)
  BY DEF LentOf
<1>4. IsFiniteSet(LentOf(p)) /\ Cardinality(LentOf(p)) \in Nat
  <2>1. LentOf(p) \in SUBSET View
    BY DEF LentOf
  <2> QED BY <2>1, ViewsFinite, FS_Subset, FS_CardinalityType
<1>5. Cardinality(LentOf(p)') = Cardinality(LentOf(p)) + d /\ (IsLent(v) => Cardinality(LentOf(p)) > 0)
  <2>1. CASE ~IsLent(v) /\ IsLent(v)' /\ d = 1
    <3>1. LentOf(p)' = LentOf(p) \union {v} /\ v \notin LentOf(p)
      BY <2>1 DEF LentOf
    <3>2. Cardinality(LentOf(p) \union {v}) = Cardinality(LentOf(p)) + 1
      BY <1>4, <3>1, FS_AddElement
    <3> QED BY <2>1, <3>1, <3>2
  <2>2. CASE IsLent(v) /\ ~IsLent(v)' /\ d = -1
    <3>1. LentOf(p)' = LentOf(p) \ {v} /\ v \in LentOf(p)
      BY <2>2 DEF LentOf
    <3>2. Cardinality(LentOf(p) \ {v}) = Cardinality(LentOf(p)) - 1
      BY <1>4, <3>1, FS_RemoveElement
    <3>3. Cardinality(LentOf(p)) # 0
      BY <1>4, <3>1, FS_EmptySet
    <3> QED BY <1>4, <2>2, <3>1, <3>2, <3>3
  <2> QED BY <2>1, <2>2
<1>6. Lent = [q \in Level |-> Lent[q]] /\ Lent' = [q \in Level |-> Lent'[q]]
  BY DEF Lent
<1> HIDE DEF p
<1>7. \A q \in Level : Lent'[q] = IF q = p THEN Lent[q] + d ELSE Lent[q]
  BY <1>1, <1>2, <1>3, <1>5
<1>8. Lent' = [Lent EXCEPT ![p] = @ + d]
  BY <1>1, <1>6, <1>7
<1>9. IsLent(v) => Lent[p] > 0
  BY <1>1, <1>2, <1>5
<1> QED BY <1>8, <1>9 DEF p

-----------------------------------------------------------------------------
(* The view service.                                                       *)

LEMMA ServiceStarts == ServiceInit => Service!ServiceInit
<1> SUFFICES ASSUME ServiceInit PROVE Service!ServiceInit
  OBVIOUS
<1>1. /\ promised = [p \in Level |-> <<>>]
      /\ output = <<>> /\ uses = [v \in View |-> 0]
  BY DEF ServiceInit, Init, CounterInit
<1>2. Ready = <<>>
  <2>1. TypeOK
    BY InvInit DEF ServiceInit, Inv
  <2>2. Ready \in Seq(Level \X AnyTile) /\ Len(Ready) = Len(output)
    BY <2>1, ReadyIsOutput DEF ReadyAgrees
  <2>3. Len(Ready) = 0
    BY <1>1, <2>2
  <2> QED BY <2>2, <2>3, EmptySeq
<1>3. Lent = [p \in Level |-> 0]
  <2>1. \A p : {v \in View : LevelOf(v) = p /\ IsLent(v)} = {}
    BY <1>1 DEF IsLent
  <2>2. Cardinality({}) = 0
    BY FS_EmptySet
  <2> QED BY <2>1, <2>2 DEF Lent
<1> QED BY <1>1, <1>2, <1>3 DEF Service!ServiceInit

LEMMA PromisedIsWant ==
  ASSUME ServiceInv, NEW u \in User, NEW c \in Traversals, Promised(u, c[1], c[2])
  PROVE  Service!ServiceNext \/ UNCHANGED Service!serviceVars
<1>1. /\ UNCHANGED <<output, tile, uses>>
      /\ promised' = IF NbReleasePyramid[c[1]] = 0 THEN promised
                     ELSE [promised EXCEPT ![c[1]] = @ \o c[2]]
  BY DEF Promised, Request, memoryVars
<1>2. Ready' = Ready
  BY <1>1, ReadyStays DEF ServiceInv, Inv
<1>3. Lent' = Lent
  BY <1>1, LentStays DEF IsLent
<1>4. CASE NbReleasePyramid[c[1]] = 0
  BY <1>1, <1>2, <1>3, <1>4 DEF Service!serviceVars
<1>5. CASE NbReleasePyramid[c[1]] # 0
  <2>1. Service!Want(c[1], c[2])
    BY <1>1, <1>2, <1>3, <1>5 DEF Service!Want, IsServed
  <2> QED BY <2>1 DEF Service!ServiceNext
<1> QED BY <1>4, <1>5

LEMMA KeptIsMake ==
  ASSUME ServiceInv, ServiceInv', NEW p \in Level, Kept(p)
  PROVE  Service!ServiceNext \/ UNCHANGED Service!serviceVars
<1>1. /\ TypeOK /\ TypeOK' /\ Inv'
      /\ UNCHANGED <<tile, uses>>
      /\ output' = output => promised' = promised
  BY DEF Kept, CounterStep, memoryVars, ServiceInv, Inv
<1>2. Lent' = Lent
  BY <1>1, LentStays DEF IsLent
<1>3. CASE output' = output
  <2>1. Ready' = Ready
    BY <1>1, <1>3, ReadyStays
  <2> QED BY <1>1, <1>2, <1>3, <2>1 DEF Service!serviceVars
<1>4. ASSUME NEW v \in View, LevelOf(v) = p, SentInTurn(v)
      PROVE  Service!ServiceNext
  <2> DEFINE i == FirstOf(promised[p], tile[v])
  <2>1. /\ SentOut(v) /\ output' = Append(output, v)
        /\ PreserveOrder => FirstOf(promised[0], tile[v]) = 1
    BY <1>4 DEF SentInTurn, AddResult
  <2>2. /\ i \in 1..Len(promised[p]) /\ promised[p][i] = tile[v]
        /\ PreserveOrder => p = 0
    BY <1>1, <1>4, <2>1, SentOutWasPromised
  <2>3. promised' = [promised EXCEPT ![p] = RemoveAt(@, i)]
    BY <1>4, <2>1 DEF SentOut
  <2>4. PreserveOrder => i = 1
    BY <2>1, <2>2
  <2>5. Ready' = Append(Ready, <<p, promised[p][i]>>)
    BY <1>1, <1>4, <2>1, <2>2, ReadyGains
  <2>6. Lent[p] + Cardinality({j \in 1..Len(Ready) : Ready[j][1] = p}) < MemoryPoolSize(p)
    BY <1>4, <2>1, RoomForOneMore DEF SentOut, ServiceInv
  <2> HIDE DEF i
  <2>7. \A S : Service!Cardinality(S) = Cardinality(S)
    BY DEF Service!Cardinality, Cardinality, Service!IsFiniteSet, IsFiniteSet
  <2>8. \A s, j : Service!RemoveAt(s, j) = RemoveAt(s, j)
    BY DEF Service!RemoveAt, RemoveAt
  <2>9. Service!Make(p, i)
    BY <1>2, <2>3, <2>4, <2>5, <2>6, <2>7, <2>8 DEF Service!Make, Service!Existing
  <2> QED BY <2>2, <2>9 DEF Service!ServiceNext
<1>5. output' = output \/ \E v \in View : LevelOf(v) = p /\ SentInTurn(v)
  <2>1. ASSUME NEW v \in View, LevelOf(v) = p, CountTile(v)
        PROVE  output' = output \/ SentInTurn(v)
    BY <1>1, <2>1, CountTileKeepsServiceInv
  <2>2. ASSUME NEW v \in View, HandleStoredView(p, v)
        PROVE  LevelOf(v) = p /\ SentInTurn(v)
    BY <1>1, <2>2, HandleStoredViewKeepsServiceInv
  <2>3. CASE NoStoredViewIsNext(p)
    BY <2>3 DEF NoStoredViewIsNext
  <2>4. ViewCounterStep(p)
    BY DEF Kept, CounterStep
  <2> QED BY <2>1, <2>2, <2>3, <2>4 DEF ViewCounterStep
<1> QED BY <1>3, <1>4, <1>5

LEMMA GetAvailableViewIsTake ==
  ASSUME ServiceInv, ServiceInv', GetAvailableView, UNCHANGED promised
  PROVE  Service!ServiceNext
<1>1. /\ TypeOK /\ TypeOK'
      /\ output \in Seq(View) /\ uses \in [View -> Nat] /\ uses' \in [View -> Nat]
  BY DEF ServiceInv, Inv, TypeOK
<1>2. /\ output # <<>> /\ output' = Tail(output) /\ tile' = tile
      /\ uses' = [uses EXCEPT ![Head(output)] = NbReleasePyramid[LevelOf(Head(output))]]
  BY DEF GetAvailableView, memoryVars
<1>3. PICK v \in View : v = Head(output) /\ IsReady(v)
  <2>1. /\ Head(output) = output[1] /\ 1 \in 1..Len(output) /\ Head(output) \in View
    BY <1>1, <1>2, HeadTailProperties, EmptySeq
  <2> QED BY <2>1 DEF IsReady, Elems
<1>4. ~IsLent(v) /\ NbReleasePyramid[LevelOf(v)] # 0
  BY <1>3 DEF ServiceInv, Inv, OnePlacePerView, ReleaseCountsAgree
<1>5. IsLent(v)'
  <2>1. uses'[v] = NbReleasePyramid[LevelOf(v)] /\ NbReleasePyramid[LevelOf(v)] \in Nat
    BY <1>1, <1>2, <1>3, Views, ViewSizesAssumption
  <2> QED BY <1>4, <2>1 DEF IsLent
<1>6. \A w \in View \ {v} : IsLent(w)' <=> IsLent(w)
  BY <1>1, <1>2, <1>3 DEF IsLent
<1>7. Lent' = [Lent EXCEPT ![LevelOf(v)] = @ + 1]
  BY <1>3, <1>4, <1>5, <1>6, LentChanges
<1>8. Ready # <<>> /\ Ready' = Tail(Ready) /\ Head(Ready)[1] = LevelOf(v)
  BY <1>1, <1>2, <1>3, ReadyLoses
<1>9. Service!Take
  BY <1>7, <1>8 DEF Service!Take
<1> QED BY <1>9 DEF Service!ServiceNext

LEMMA ReleaseViewIsGiveBack ==
  ASSUME ServiceInv, NEW v \in View, ReleaseView(v), UNCHANGED promised
  PROVE  Service!ServiceNext \/ UNCHANGED Service!serviceVars
<1>1. TypeOK /\ uses \in [View -> Nat] /\ LevelOf(v) \in Level
  BY Views DEF ServiceInv, Inv, TypeOK
<1>2. /\ uses[v] > 0 /\ uses' = [uses EXCEPT ![v] = @ - 1]
      /\ UNCHANGED <<tile, output>>
  BY DEF ReleaseView, ReleaseMemory, counterVars
<1>3. Ready' = Ready
  BY <1>1, <1>2, ReadyStays
<1>4. /\ uses'[v] = uses[v] - 1 /\ uses[v] \in Nat
      /\ \A w \in View \ {v} : IsLent(w)' <=> IsLent(w)
  BY <1>1, <1>2 DEF IsLent
<1>5. CASE uses[v] = 1
  <2>1. IsLent(v) /\ ~IsLent(v)'
    BY <1>4, <1>5 DEF IsLent
  <2>2. -1 \in Int
    OBVIOUS
  <2>3. /\ Lent' = [Lent EXCEPT ![LevelOf(v)] = @ + (-1)]
        /\ Lent[LevelOf(v)] > 0
    BY <1>4, <2>1, <2>2, LentChanges
  <2>4. Lent[LevelOf(v)] + (-1) = Lent[LevelOf(v)] - 1
    <3>1. Lent[LevelOf(v)] \in Nat
      <4>1. {w \in View : LevelOf(w) = LevelOf(v) /\ IsLent(w)} \in SUBSET View
        OBVIOUS
      <4>2. Cardinality({w \in View : LevelOf(w) = LevelOf(v) /\ IsLent(w)}) \in Nat
        BY <4>1, ViewsFinite, FS_Subset, FS_CardinalityType
      <4> QED BY <1>1, <4>2 DEF Lent
    <3> QED BY <3>1
  <2>5. Service!GiveBack(LevelOf(v))
    BY <1>3, <2>3, <2>4 DEF Service!GiveBack
  <2> QED BY <1>1, <2>5 DEF Service!ServiceNext
<1>6. CASE uses[v] # 1
  <2>1. \A w \in View : IsLent(w)' <=> IsLent(w)
    <3>1. IsLent(v) /\ IsLent(v)'
      BY <1>2, <1>4, <1>6 DEF IsLent
    <3> QED BY <1>4, <3>1
  <2>2. Lent' = Lent
    BY <2>1, LentStays
  <2> QED BY <1>3, <2>2 DEF Service!serviceVars
<1> QED BY <1>5, <1>6

LEMMA MovesShowNothing ==
  ASSUME ServiceInv, UNCHANGED promised,
         \/ \E u \in User : SendRequest(u)
         \/ FinishedRequestingTiles
         \/ \E p \in Level : ViewLoaderStep(p)
         \/ \E v \in View : TileLoaderStep(v)
         \/ UNCHANGED vars
  PROVE  UNCHANGED Service!serviceVars
<1>1. TypeOK
  BY DEF ServiceInv, Inv
<1>2. ASSUME UNCHANGED <<output, uses>>, \A v \in Elems(output) : tile'[v] = tile[v]
      PROVE  UNCHANGED Service!serviceVars
  <2>1. Ready' = Ready
    BY <1>1, <1>2, ReadyStays
  <2>2. Lent' = Lent
    BY <1>2, LentStays DEF IsLent
  <2> QED BY <2>1, <2>2 DEF Service!serviceVars
<1>3. ASSUME NEW u \in User, SendRequest(u) PROVE UNCHANGED Service!serviceVars
  BY <1>2, <1>3 DEF SendRequest, memoryVars, counterVars
<1>4. CASE FinishedRequestingTiles
  BY <1>2, <1>4 DEF FinishedRequestingTiles, memoryVars, counterVars
<1>5. ASSUME NEW p \in Level, ViewLoaderStep(p) PROVE UNCHANGED Service!serviceVars
  <2>1. CASE DropRequest(p)
    BY <1>2, <2>1 DEF DropRequest, memoryVars, counterVars
  <2>2. ASSUME NEW v \in View, LoadView(p, v) PROVE UNCHANGED Service!serviceVars
    <3>1. /\ LevelOf(v) = p /\ pool[p] # <<>> /\ v = Head(pool[p])
          /\ tile' = [tile EXCEPT ![v] = Head(requests[p])]
          /\ UNCHANGED <<output, uses>>
      BY <2>2 DEF LoadView, GetMemory, counterVars
    <3>2. pool[p] \in Seq(View)
      BY <1>1 DEF TypeOK
    <3>3. IsFree(v)
      <4> DEFINE q == pool[p]
      <4>1. q \in Seq(View) /\ q # <<>> /\ v = Head(q)
        BY <3>1, <3>2
      <4> HIDE DEF q
      <4>2. v \in Elems(q)
        BY <4>1 DEF Elems
      <4> QED BY <3>1, <4>2 DEF IsFree, q
    <3>4. v \notin Elems(output)
      BY <3>3 DEF ServiceInv, Inv, OnePlacePerView, IsReady
    <3>5. \A w \in Elems(output) : w \in View /\ w # v
      <4>1. output \in Seq(View)
        BY <1>1 DEF TypeOK
      <4>2. \A i \in 1..Len(output) : output[i] \in View
        BY <4>1, ElementOfSeq
      <4> QED BY <3>4, <4>2 DEF Elems
    <3>6. \A w \in Elems(output) : tile'[w] = tile[w]
      BY <1>1, <3>1, <3>5 DEF TypeOK
    <3> QED BY <1>2, <3>1, <3>6
  <2>3. ASSUME NEW v \in View, SendTileRequest(v) PROVE UNCHANGED Service!serviceVars
    BY <1>2, <2>3 DEF SendTileRequest, memoryVars, counterVars
  <2> QED BY <1>5, <2>1, <2>2, <2>3 DEF ViewLoaderStep
<1>6. ASSUME NEW v \in View, TileLoaderStep(v) PROVE UNCHANGED Service!serviceVars
  BY <1>2, <1>6 DEF TileLoaderStep, memoryVars
<1>7. CASE UNCHANGED vars
  BY <1>2, <1>7 DEF vars, memoryVars, counterVars
<1> QED BY <1>3, <1>4, <1>5, <1>6, <1>7

LEMMA StepIsServiceStep ==
  ServiceInv /\ ServiceInv' /\ [ServiceNext]_serviceVars
    => [Service!ServiceNext]_(Service!serviceVars)
<1> SUFFICES ASSUME ServiceInv, ServiceInv', [ServiceNext]_serviceVars
             PROVE  Service!ServiceNext \/ UNCHANGED Service!serviceVars
  OBVIOUS
<1>1. ASSUME NEW u \in User, NEW c \in Traversals, Promised(u, c[1], c[2])
      PROVE  Service!ServiceNext \/ UNCHANGED Service!serviceVars
  BY <1>1, PromisedIsWant
<1>2. ASSUME NEW p \in Level, Kept(p)
      PROVE  Service!ServiceNext \/ UNCHANGED Service!serviceVars
  BY <1>2, KeptIsMake
<1>3. CASE Moves /\ UNCHANGED promised
  <2>1. CASE GetAvailableView
    BY <1>3, <2>1, GetAvailableViewIsTake
  <2>2. ASSUME NEW v \in View, ReleaseView(v)
        PROVE  Service!ServiceNext \/ UNCHANGED Service!serviceVars
    BY <1>3, <2>2, ReleaseViewIsGiveBack
  <2> QED BY <1>3, <2>1, <2>2, MovesShowNothing DEF Moves
<1>4. CASE Done /\ UNCHANGED promised
  BY <1>4, MovesShowNothing DEF Done
<1>5. CASE UNCHANGED serviceVars
  BY <1>5, MovesShowNothing DEF serviceVars
<1> QED BY <1>1, <1>2, <1>3, <1>4, <1>5 DEF ServiceNext

(* A FastImage object implements ViewService: every step of its threads    *)
(* and users is a step of the service or shows nothing of it.              *)
THEOREM Refinement ==
  ASSUME OrderIsOfLevelZero
  PROVE  ServiceSpec => ImplementsViewService
<1>1. ServiceInit => Service!ServiceInit
  BY ServiceStarts
<1>2. /\ ServiceInv /\ ServiceInv' /\ [ServiceNext]_serviceVars
        => [Service!ServiceNext]_(Service!serviceVars)
  BY StepIsServiceStep
<1>3. ServiceSpec => []ServiceInv
  BY ServiceInvariance
<1> QED BY <1>1, <1>2, <1>3, PTL DEF ServiceSpec, ImplementsViewService, Service!ServiceSpec
=============================================================================
