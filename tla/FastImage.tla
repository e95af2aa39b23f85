----------------------------- MODULE FastImage ------------------------------
(***************************************************************************)
(* A FastImage object (api/FastImage.h) at work: the users' requests, the   *)
(* view loader of each pyramid level (tasks/ViewLoader.h), the tile loaders *)
(* (api/ATileLoader.h), the view counters, and the users who take the       *)
(* finished views and release them.                                         *)
(*                                                                         *)
(* A tile request is one of the NumberTilesToLoad of its view; which one is *)
(* not told apart, so that a queue of them is a number per view and the     *)
(* tile loaders, several threads sharing a queue, finish in any order.      *)
(***************************************************************************)
EXTENDS ViewCounter, FiniteSets

CONSTANTS
  User,           (* Threads that request views.                           *)
  Traversals,     (* The (level, list of tiles) a call may ask for.        *)
  NbCalls         (* Bound: calls made by each user.                       *)

ASSUME UsersAssumption ==
  /\ IsFiniteSet(User)
  /\ NbCalls \in Nat
  /\ \A c \in Traversals :
       c[1] \in Level /\ c[2] \in Seq(Tile(c[1])) /\ c[2] # <<>>

VARIABLES
  calls,          (* Calls each user may still make.                       *)
  sending,        (* Tiles a user's call has still to send requests for.   *)
  sendingTo,      (* The level they are requested at.                      *)
  finished,       (* _finishRequestingViews.                               *)
  requests,       (* Input queue of the view loader of each level.         *)
  toSend,         (* Tile requests the view loader has to send for a view. *)
  asked,          (* Tile requests of a view the loaders have not served.  *)
  uses            (* Releases the users still have to do of a view.        *)

userVars == <<calls, sending, sendingTo, finished>>
vars == <<memoryVars, counterVars, userVars, requests, toSend, asked, uses>>

Init ==
  /\ MemoryInit
  /\ CounterInit
  /\ calls = [u \in User |-> NbCalls]
  /\ sending = [u \in User |-> <<>>]
  /\ sendingTo = [u \in User |-> 0]
  /\ finished = FALSE
  /\ requests = [p \in Level |-> <<>>]
  /\ toSend = [v \in View |-> 0]
  /\ asked = [v \in View |-> 0]
  /\ uses = [v \in View |-> 0]

-----------------------------------------------------------------------------
(* The users.                                                               *)

(* requestTile, requestFeature and requestAllTiles, up to addTraversal.     *)
Request(u, p, trav) ==
  /\ ~finished
  /\ sending[u] = <<>>
  /\ calls[u] > 0
  /\ calls' = [calls EXCEPT ![u] = @ - 1]
  /\ AddTraversal(trav)
  /\ sending' = [sending EXCEPT ![u] = trav]
  /\ sendingTo' = [sendingTo EXCEPT ![u] = p]
  /\ UNCHANGED <<memoryVars, loaded, countMap, storing, waitingList,
                 currentTraversal, output, finished, requests, toSend, asked, uses>>

(* Their loop: produceData of a ViewRequestData.                            *)
SendRequest(u) ==
  LET p == sendingTo[u]
  IN  /\ sending[u] # <<>>
      /\ requests' = [requests EXCEPT ![p] = Append(@, Head(sending[u]))]
      /\ sending' = [sending EXCEPT ![u] = Tail(@)]
      /\ UNCHANGED <<memoryVars, counterVars, calls, sendingTo, finished,
                     toSend, asked, uses>>

(* finishedRequestingTiles, by a user or by the destructor.  Its callers    *)
(* promise that "no more request will be done": none makes it while another *)
(* user's call still has requests to send, for which the code does not look.*)
FinishedRequestingTiles ==
  /\ ~finished
  /\ \A u \in User : sending[u] = <<>>
  /\ finished' = TRUE
  /\ UNCHANGED <<memoryVars, counterVars, calls, sending, sendingTo, requests,
                 toSend, asked, uses>>

(* getAvailableViewBlocking, and the uses the option says a view is for.    *)
GetAvailableView ==
  /\ output # <<>>
  /\ output' = Tail(output)
  /\ uses' = [uses EXCEPT ![Head(output)] = NbReleasePyramid[LevelOf(Head(output))]]
  /\ UNCHANGED <<memoryVars, loaded, countMap, orderVars, userVars, requests,
                 toSend, asked>>

ReleaseView(v) ==
  /\ uses[v] > 0
  /\ uses' = [uses EXCEPT ![v] = @ - 1]
  /\ ReleaseMemory(v)
  /\ UNCHANGED <<counterVars, userVars, requests, toSend, asked>>

-----------------------------------------------------------------------------
(* ViewLoader::executeTask.  A thread that has tile requests to send is not *)
(* back for its next view request.                                          *)
Splitting(p) == \E v \in View : LevelOf(v) = p /\ toSend[v] > 0

(* Slips the properties must notice: a request that is not wanted is left   *)
(* in the queue, every level uses the count of the first, and a tile        *)
(* request is lost by its loader.                                           *)
DropNothing(p) ==
  /\ requests[p] # <<>>
  /\ NbReleasePyramid[p] = 0
  /\ UNCHANGED vars

LoadViewFirstCount(p, v) ==
  /\ requests[p] # <<>>
  /\ ~Splitting(p)
  /\ LevelOf(v) = p
  /\ NbReleasePyramid[p] # 0
  /\ GetMemory(v, NbReleasePyramid[0], Head(requests[p]))
  /\ toSend' = [toSend EXCEPT ![v] = NumberTilesToLoad(p, Head(requests[p]))]
  /\ requests' = [requests EXCEPT ![p] = Tail(@)]
  /\ UNCHANGED <<counterVars, userVars, asked, uses>>

LoseTile(v) ==
  /\ asked[v] > 0
  /\ asked' = [asked EXCEPT ![v] = @ - 1]
  /\ UNCHANGED <<memoryVars, counterVars, userVars, requests, toSend, uses>>

DropRequest(p) ==
  /\ requests[p] # <<>>
  /\ NbReleasePyramid[p] = 0
  /\ requests' = [requests EXCEPT ![p] = Tail(@)]
  /\ UNCHANGED <<memoryVars, counterVars, userVars, toSend, asked, uses>>

LoadView(p, v) ==
  /\ requests[p] # <<>>
  /\ ~Splitting(p)
  /\ LevelOf(v) = p
  /\ NbReleasePyramid[p] # 0
  /\ GetMemory(v, NbReleasePyramid[p], Head(requests[p]))
  /\ toSend' = [toSend EXCEPT ![v] = NumberTilesToLoad(p, Head(requests[p]))]
  /\ requests' = [requests EXCEPT ![p] = Tail(@)]
  /\ UNCHANGED <<counterVars, userVars, asked, uses>>

SendTileRequest(v) ==
  /\ toSend[v] > 0
  /\ toSend' = [toSend EXCEPT ![v] = @ - 1]
  /\ asked' = [asked EXCEPT ![v] = @ + 1]
  /\ UNCHANGED <<memoryVars, counterVars, userVars, requests, uses>>

ViewLoaderStep(p) ==
  \/ DropRequest(p)
  \/ \E v \in View : LoadView(p, v)
  \/ \E v \in View : LevelOf(v) = p /\ SendTileRequest(v)

(* A tile loader copies one tile into view v and passes the request on.     *)
TileLoaderStep(v) ==
  /\ asked[v] > 0
  /\ asked' = [asked EXCEPT ![v] = @ - 1]
  /\ loaded' = [loaded EXCEPT ![v] = @ + 1]
  /\ UNCHANGED <<memoryVars, countMap, orderVars, output, userVars, requests,
                 toSend, uses>>

CounterStep(p) ==
  /\ ViewCounterStep(p)
  /\ UNCHANGED <<memoryVars, userVars, requests, toSend, asked, uses>>

(* isOutputTerminated: each task ends when those before it have ended and   *)
(* its input is empty.                                                      *)
OutputTerminated ==
  /\ finished
  /\ \A p \in Level : requests[p] = <<>> /\ p \notin storing
  /\ \A v \in View : toSend[v] = 0 /\ asked[v] = 0 /\ loaded[v] = 0
  /\ output = <<>>

(* The users have released what they took and no more views will come.      *)
Done ==
  /\ OutputTerminated
  /\ \A v \in View : uses[v] = 0
  /\ UNCHANGED vars

Asks == \E u \in User, c \in Traversals : Request(u, c[1], c[2])

Counts == \E p \in Level : CounterStep(p)

Moves ==
  \/ \E u \in User : SendRequest(u)
  \/ FinishedRequestingTiles
  \/ GetAvailableView
  \/ \E v \in View : ReleaseView(v)
  \/ \E p \in Level : ViewLoaderStep(p)
  \/ \E v \in View : TileLoaderStep(v)

Next == Asks \/ Counts \/ Moves \/ Done

(* The graph's threads run, a call that has begun sends all its requests,   *)
(* and the users take the views that are ready, release those they have and *)
(* say when they are done: the loop of the README's examples.               *)
Fairness ==
  /\ \A u \in User : WF_vars(SendRequest(u))
  /\ WF_vars(FinishedRequestingTiles)
  /\ WF_vars(GetAvailableView)
  /\ \A v \in View : WF_vars(ReleaseView(v)) /\ WF_vars(TileLoaderStep(v))
  /\ \A p \in Level : WF_vars(ViewLoaderStep(p)) /\ WF_vars(CounterStep(p))

Spec == Init /\ [][Next]_vars /\ Fairness
-----------------------------------------------------------------------------
(* The type of every variable.  No count of releases ever wraps around.     *)
TypeOK ==
  /\ pool \in [Level -> Seq(View)]
  /\ releaseCount \in [View -> Nat]
  /\ tile \in [View -> AnyTile]
  /\ \A v \in View : tile[v] \in Tile(LevelOf(v))
  /\ loaded \in [View -> Nat]
  /\ countMap \in [View -> Nat]
  /\ storing \subseteq Level
  /\ waitingList \subseteq View
  /\ queueTraversals \in Seq(Seq(AnyTile))
  /\ currentTraversal \in Seq(AnyTile)
  /\ output \in Seq(View)
  /\ calls \in [User -> Nat]
  /\ sending \in [User -> Seq(AnyTile)]
  /\ sendingTo \in [User -> Level]
  /\ \A u \in User : sending[u] \in Seq(Tile(sendingTo[u]))
  /\ finished \in BOOLEAN
  /\ requests \in [Level -> Seq(AnyTile)]
  /\ \A p \in Level : requests[p] \in Seq(Tile(p))
  /\ toSend \in [View -> Nat]
  /\ asked \in [View -> Nat]
  /\ uses \in [View -> Nat]

(* Where a view can be.  It is being made while any of its tiles is on its  *)
(* way: not sent yet, with the tile loaders, or with the view counter.      *)
IsFree(v) == v \in Elems(pool[LevelOf(v)])
TilesUnderWay(v) == toSend[v] + asked[v] + loaded[v] + countMap[v]
IsMade(v) == TilesUnderWay(v) > 0
IsStored(v) == v \in waitingList
IsReady(v) == v \in Elems(output)
IsLent(v) == uses[v] > 0

(* A view is in one place at a time, and always in one: it is never lost,   *)
(* never handed out to two requests or two users, and no tile loader can    *)
(* still write into a view that a user has or that is free.                 *)
OnePlacePerView ==
  /\ \A v \in View :
       /\ IsFree(v) \/ IsMade(v) \/ IsStored(v) \/ IsReady(v) \/ IsLent(v)
       /\ IsFree(v) => ~IsMade(v) /\ ~IsStored(v) /\ ~IsReady(v) /\ ~IsLent(v)
       /\ IsMade(v) => ~IsStored(v) /\ ~IsReady(v) /\ ~IsLent(v)
       /\ IsStored(v) => ~IsReady(v) /\ ~IsLent(v)
       /\ IsReady(v) => ~IsLent(v)
  /\ NoRepeat(output)
  /\ \A p \in Level : NoRepeat(pool[p]) /\ \A v \in Elems(pool[p]) : LevelOf(v) = p

(* A view leaves the counter when all its tiles have been copied into it,   *)
(* and not before: none is counted twice, none is missing.                  *)
EveryTileIsCounted ==
  \A v \in View : IsMade(v) =>
    TilesUnderWay(v) = NumberTilesToLoad(LevelOf(v), tile[v])

(* The rule of a view agrees with the users about the releases it still     *)
(* needs, and a free view needs none.                                       *)
ReleaseCountsAgree ==
  \A v \in View :
    /\ IsFree(v) => releaseCount[v] = 0
    /\ IsLent(v) => releaseCount[v] = uses[v]
    /\ IsMade(v) \/ IsStored(v) \/ IsReady(v) =>
         releaseCount[v] = NbReleasePyramid[LevelOf(v)] /\ releaseCount[v] # 0

(* These together are inductive.                                            *)
Inv ==
  /\ TypeOK
  /\ OnePlacePerView
  /\ EveryTileIsCounted
  /\ ReleaseCountsAgree

(* When the users are told that the graph has ended, no view is left behind *)
(* in it, waiting for one that will not come.                               *)
NothingLeftBehind == OutputTerminated => waitingList = {} /\ \A v \in View : ~IsMade(v)

(* The graph does not block: with their requests made and the views they    *)
(* take released, the users see it end.                                     *)
GraphCompletes == <>(OutputTerminated /\ \A v \in View : IsFree(v))
=============================================================================
